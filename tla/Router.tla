------------------------------- MODULE Router -------------------------------
(***************************************************************************)
(* The functions a server offers and how a request reaches one: class       *)
(* router of include/rest_rpc/router.h.                                     *)
(*                                                                          *)
(* A function is registered under the 32-bit MD5 hash of its name, and a     *)
(* request carries that hash.  Arguments, results and their encoding are     *)
(* abstracted to what decides the reply: whether the arguments unpack,       *)
(* whether the function throws, whether the result fits a message.  The      *)
(* router takes no lock: an action is one of its member functions.           *)
(***************************************************************************)
EXTENDS Naturals, Sequences

CONSTANTS
    Names,      \* the names functions are registered and called by
    Functions,  \* the functions a server may register
    Nobody,     \* stands for "no function was run"
    FuncIds,    \* the values of a hash
    MD5Hash32   \* the hash of each name; two names may have the same

Handlers == [func : Functions, mode : {"sync", "async"}]

ASSUME HashAssumption   == MD5Hash32 \in [Names -> FuncIds]
ASSUME NobodyAssumption == Nobody \notin Handlers

VARIABLES
    map_invokers,   \* hash -> the handler registered under it
    key2func_name,  \* hash -> the name it was computed from
    registered,     \* history: name -> the handler the server last gave it
    called,         \* the name the last request was made for
    ran,            \* the handler the last request ran, or Nobody
    replies,        \* what route() has answered to the last request
    owed            \* whether an asynchronous function took on to answer it

tables == <<map_invokers, key2func_name>>
outcome == <<called, ran, replies, owed>>
vars == <<tables, registered, outcome>>

-----------------------------------------------------------------------------
Put(map, key, value) ==
    [k \in DOMAIN map \cup {key} |-> IF k = key THEN value ELSE map[k]]
Without(map, key) == [k \in DOMAIN map \ {key} |-> map[k]]

\* Mutant: a handler that is already there stays.
EmplaceHandler(map, key, value) == IF key \in DOMAIN map THEN map
                                   ELSE Put(map, key, value)

\* map_invokers_[key] = ...
SetHandler(map, key, value) == Put(map, key, value)

\* key2func_name_.emplace(key, name): a name that is already there stays.
EmplaceName(map, key, value) == IF key \in DOMAIN map THEN map
                                ELSE Put(map, key, value)

register_handler(name, h) ==
    LET key == MD5Hash32[name]
    IN  /\ key2func_name' = EmplaceName(key2func_name, key, name)
        /\ map_invokers' = SetHandler(map_invokers, key, h)
        /\ registered' = Put(registered, name, h)
        /\ UNCHANGED outcome

\* Mutant: the function stays callable.
EraseNothing(map, key) == map

\* map_invokers_.erase(key)
EraseHandler(map, key) == Without(map, key)

remove_handler(name) ==
    LET key == MD5Hash32[name]
    IN  /\ map_invokers' = EraseHandler(map_invokers, key)
        /\ key2func_name' = Without(key2func_name, key)
        /\ registered' = Without(registered, name)
        /\ UNCHANGED outcome

\* Mutant: the mode is handed out before the function is called.
ApplyModeFirst(h, unpacks, returns) ==
    IF unpacks /\ returns THEN [mode |-> h.mode, status |-> "OK"]
                          ELSE [mode |-> h.mode, status |-> "FAIL"]

\* invoker::apply and apply_member: whatever throws makes the call synchronous
\* and its result a failure.
Apply(h, unpacks, returns) ==
    IF unpacks /\ returns THEN [mode |-> h.mode, status |-> "OK"]
                          ELSE [mode |-> "sync", status |-> "FAIL"]

\* Whether a function has left a request to a thread that will answer it: one
\* that throws may have done so before.
HandsOver(h, unpacks, returns) ==
    IF h.mode = "sync" \/ ~unpacks THEN {FALSE}
    ELSE IF returns THEN {TRUE} ELSE BOOLEAN

\* route(): a request for the hash key.
route(key, unpacks, returns, fits) ==
    /\ IF key \notin DOMAIN map_invokers
         THEN /\ ran' = Nobody
              /\ replies' = <<"FAIL">>
              /\ owed' = FALSE
         ELSE LET h    == map_invokers[key]
                  call == Apply(h, unpacks, returns)
              IN  /\ ran' = IF unpacks THEN h ELSE Nobody
                  /\ replies' = IF call.mode = "async" THEN <<>>
                                ELSE <<IF fits THEN call.status ELSE "FAIL">>
                  /\ owed' \in HandsOver(h, unpacks, returns)
    /\ UNCHANGED <<tables, registered>>

-----------------------------------------------------------------------------
Init ==
    /\ map_invokers = [k \in {} |-> Nobody]
    /\ key2func_name = [k \in {} |-> Nobody]
    /\ registered = [n \in {} |-> Nobody]
    /\ called \in Names
    /\ ran = Nobody
    /\ replies = <<"FAIL">>
    /\ owed = FALSE

\* A client calls by name: it sends the hash of the name.
Call(name) ==
    /\ called' = name
    /\ \E unpacks, returns, fits \in BOOLEAN :
          route(MD5Hash32[name], unpacks, returns, fits)

Next == \E name \in Names :
            \/ \E h \in Handlers : register_handler(name, h)
            \/ remove_handler(name)
            \/ Call(name)

Spec == Init /\ [][Next]_vars

-----------------------------------------------------------------------------
(* Properties *)

\* Every variable keeps its type; a hash has a handler exactly if it has a name.
TypeOK ==
    /\ DOMAIN map_invokers \subseteq FuncIds
    /\ map_invokers \in [DOMAIN map_invokers -> Handlers]
    /\ key2func_name \in [DOMAIN map_invokers -> Names]
    /\ \A k \in DOMAIN key2func_name : MD5Hash32[key2func_name[k]] = k
    /\ called \in Names
    /\ DOMAIN registered \subseteq Names
    /\ registered \in [DOMAIN registered -> Handlers]
    /\ ran \in Handlers \cup {Nobody}
    /\ replies \in Seq({"OK", "FAIL"})
    /\ owed \in BOOLEAN

\* No request is lost: it is answered by route() or has been taken on by the
\* asynchronous function that ran, by both only if that function threw after it
\* had handed the request over, and then route()'s answer is a failure.
ThrewLate == ran # Nobody /\ ran.mode = "async" /\ replies = <<"FAIL">>
OneReply == /\ replies = <<>> => owed
            /\ replies # <<>> /\ owed => ThrewLate

\* A call by name runs a function that is registered under that name, or under
\* a name with the same hash, as it was last registered, and none when every
\* such name has been removed.  A name whose hash is its own has its own function.
Table == INSTANCE FunctionTable WITH
    table <- registered,
    Alike <- [n \in Names |-> {m \in Names : MD5Hash32[m] = MD5Hash32[n]}]
OwnFunction == Table!Spec

=============================================================================
