------------------------------ MODULE Registry ------------------------------
(***************************************************************************)
(* How the servers of one service enter themselves in ZooKeeper and how      *)
(* clients find them: class ZookeeperClient (zookeeperclient.hpp), what      *)
(* rpc_server's constructor, register_handler and destructor do with it      *)
(* (rpc_server.h), and the constructor and connect() of a client that knows  *)
(* the service's name (rpc_client.hpp).                                      *)
(*                                                                           *)
(* The service has one persistent znode, /service, that holds the address of *)
(* a server, and an ephemeral znode /service/method for each function, that  *)
(* goes with the session that created it.  create() asks whether a path      *)
(* exists and creates it in two requests: other sessions act in between.     *)
(*                                                                           *)
(* ZooKeeper is external: requests are atomic, a request of a session that   *)
(* has expired fails.  A server's address is its own, so a server stands for *)
(* its address; it may stop, crash and be started again.  Paths of other     *)
(* services have nothing in common with these.  The contents of the buffers  *)
(* and the printed messages are left out.                                    *)
(***************************************************************************)
EXTENDS Integers

CONSTANTS
    Servers,        \* servers of the service, and their addresses
    Clients,        \* clients that look the service up
    Methods,        \* functions that servers register
    Nobody,         \* the address {"", 0} of a lookup that failed
    Root,           \* in place of a method: the service's own znode
    MaxSessions,    \* bound: sessions servers open
    MaxPartitions,  \* bound: sessions that expire while their server is up
    MaxFailures     \* bound: lookups that fail

ASSUME NameAssumption  == Nobody \notin Servers /\ Root \notin Methods
ASSUME BoundAssumption == {MaxSessions, MaxPartitions, MaxFailures} \subseteq Nat

VARIABLES
    root,           \* the value of /service, or Nobody
    znodes,         \* the znodes of functions
    live,           \* the sessions ZooKeeper holds open
    server,         \* the servers
    client,         \* the clients
    gone,           \* history: <<server, function>>, whose znode has gone since
                    \* the server registered it
    spent           \* how much of each bound is used up

vars == <<root, znodes, live, server, client, gone, spent>>

-----------------------------------------------------------------------------
Sessions == 1 .. MaxSessions
Paths    == Methods \cup {Root}
Lasting  == 0
Znode    == [method : Methods, addr : Servers, session : {Lasting} \cup Sessions]

\* pc: before zoo_exists and before zoo_create of path; up: in neither.
Server == [pc : {"down", "exists", "create", "up"}, session : 0 .. MaxSessions,
           path : Paths, registered : SUBSET Methods]
Down == [pc |-> "down", session |-> 0, path |-> Root, registered |-> {}]

\* addr: host_ and port_.  learned: what the constructor's lookup gave.
Client == [pc : {"new", "built", "connected", "refused", "aborted"},
           addr : Servers \cup {Nobody}, learned : Servers \cup {Nobody}]
NewClient == [pc |-> "new", addr |-> Nobody, learned |-> Nobody]

At(s, pc)        == server[s].pc = pc
SetServer(s, r)  == server' = [server EXCEPT ![s] = r]
Spend(what, limit) == /\ spent[what] < limit
                      /\ spent' = [spent EXCEPT ![what] = @ + 1]

Exists(path) == IF path = Root THEN root # Nobody
                               ELSE \E z \in znodes : z.method = path

-----------------------------------------------------------------------------
(* Servers *)

\* The constructor opens a session (ZookeeperClient::start waits until it is
\* open) and goes on to create the service's znode.
Start(s) ==
    /\ At(s, "down")
    /\ Spend("sessions", MaxSessions)
    /\ live' = live \cup {spent'["sessions"]}
    /\ SetServer(s, [Down EXCEPT !.pc = "exists", !.session = spent'["sessions"]])
    /\ gone' = {g \in gone : g[1] # s}
    /\ UNCHANGED <<root, znodes, client>>

\* register_handler creates the function's znode, then enters it in router_.
RegisterHandler(s, m) ==
    /\ At(s, "up")
    /\ m \notin server[s].registered
    /\ SetServer(s, [server[s] EXCEPT !.pc = "exists", !.path = m])
    /\ UNCHANGED <<root, znodes, live, client, gone, spent>>

InSession(s) == server[s].session \in live

\* Mutant: the service's own path is registered as a function.
RegisteredPath(r) == [r EXCEPT !.pc = "up", !.registered = @ \cup {r.path}]

\* What a server goes on with after create(): router_.register_handler.
Registered(r) == [r EXCEPT !.pc = "up", !.registered = @ \cup ({r.path} \ {Root})]

\* Mutant: zoo_create follows when there is such a znode.
CheckAbsent(s) ==
    /\ At(s, "exists")
    /\ SetServer(s, IF InSession(s) /\ Exists(server[s].path)
                    THEN [server[s] EXCEPT !.pc = "create"]
                    ELSE Registered(server[s]))
    /\ UNCHANGED <<root, znodes, live, client, gone, spent>>

\* Mutant: a server that finds the service's znode sets it to its own address.
CheckAndSet(s) ==
    /\ At(s, "exists")
    /\ SetServer(s, IF InSession(s) /\ ~Exists(server[s].path)
                    THEN [server[s] EXCEPT !.pc = "create"]
                    ELSE Registered(server[s]))
    /\ root' = IF InSession(s) /\ Exists(Root) THEN s ELSE root
    /\ UNCHANGED <<znodes, live, client, gone, spent>>

\* create(): only if the answer is ZNONODE does zoo_create follow.
CheckExists(s) ==
    /\ At(s, "exists")
    /\ SetServer(s, IF InSession(s) /\ ~Exists(server[s].path)
                    THEN [server[s] EXCEPT !.pc = "create"]
                    ELSE Registered(server[s]))
    /\ UNCHANGED <<root, znodes, live, client, gone, spent>>

\* zoo_create succeeds in an open session, for a path that has no znode and
\* whose parent has one.
AnswerOK(s, path)  == InSession(s) /\ ~Exists(path) /\ (path # Root => root # Nobody)

\* zoo_create with state 0, for the service
Persistent(s) == root' = s /\ UNCHANGED znodes
Znodes(s, path, session) ==
    /\ znodes' = znodes \cup {[method |-> path, addr |-> s, session |-> session]}
    /\ UNCHANGED root

\* Mutant: the function's znode is created with state 0 too.
StateForgotten(s, path) == Znodes(s, path, Lasting)

\* zoo_create with ZOO_EPHEMERAL, for a function
Ephemeral(s, path)      == Znodes(s, path, server[s].session)

ZooCreate(s) ==
    /\ At(s, "create")
    /\ LET path == server[s].path IN
       IF ~AnswerOK(s, path) THEN UNCHANGED <<root, znodes>>
       ELSE IF path = Root THEN Persistent(s) ELSE Ephemeral(s, path)
    /\ SetServer(s, Registered(server[s]))
    /\ UNCHANGED <<live, client, gone, spent>>

\* ZooKeeper ends a session: its ephemeral znodes go with it.
EndSession(n) ==
    /\ live' = live \ {n}
    /\ znodes' = {z \in znodes : z.session # n}
    /\ gone' = gone \cup {g \in Servers \X Methods :
                          /\ g[2] \in server[g[1]].registered
                          /\ \E z \in znodes : z.session = n /\ z.method = g[2]}

\* ~ZookeeperClient closes the session; a crash leaves it open for a while.
Exit(s) ==
    /\ At(s, "up")
    /\ EndSession(server[s].session)
    /\ SetServer(s, Down)
    /\ UNCHANGED <<root, client, spent>>

Crash(s) ==
    /\ ~At(s, "down")
    /\ SetServer(s, Down)
    /\ UNCHANGED <<root, znodes, live, client, gone, spent>>

\* A session whose server is gone expires.
Orphan(n) == \A s \in Servers : server[s].session # n
Expire(n) ==
    /\ n \in live /\ Orphan(n)
    /\ EndSession(n)
    /\ UNCHANGED <<root, server, client, spent>>

\* A session expires under a server that is up: global_watcher ignores it.
Partition(n) ==
    /\ n \in live /\ ~Orphan(n)
    /\ Spend("partitions", MaxPartitions)
    /\ EndSession(n)
    /\ UNCHANGED <<root, server, client>>

-----------------------------------------------------------------------------
(* Clients *)

\* get_data: the value of /service, or {"", 0} when there is none or ZooKeeper
\* does not answer.
Lookup(answer) ==
    \/ answer = root /\ UNCHANGED spent
    \/ answer = Nobody /\ root # Nobody /\ Spend("failures", MaxFailures)

\* rpc_client(servername)
Construct(c) ==
    /\ client[c].pc = "new"
    /\ \E answer \in Servers \cup {Nobody} :
          /\ Lookup(answer)
          /\ client' = [client EXCEPT ![c] = [pc |-> "built", addr |-> answer,
                                              learned |-> answer]]
    /\ UNCHANGED <<root, znodes, live, server, gone>>

\* Mutant: the last lookup decides.
LastAnswer(r, answer)  == answer

\* if(port_ == 0), the address is the one just looked up.
FirstAnswer(r, answer) == IF r.addr = Nobody THEN answer ELSE r.addr

\* The connection is made if a server is up at the address; assert(port_ != 0)
\* ends the process when no lookup gave one.
Outcome(addr) == IF addr = Nobody THEN "aborted"
                 ELSE IF At(addr, "down") THEN "refused" ELSE "connected"

\* connect(servername) looks up again, and keeps the address it has, if any.
Connect(c) ==
    /\ client[c].pc \in {"built", "refused"}
    /\ \E answer \in Servers \cup {Nobody} :
          LET addr == FirstAnswer(client[c], answer) IN
          /\ Lookup(answer)
          /\ client' = [client EXCEPT ![c].addr = addr, ![c].pc = Outcome(addr)]
    /\ UNCHANGED <<root, znodes, live, server, gone>>

-----------------------------------------------------------------------------
Init ==
    /\ root = Nobody /\ znodes = {} /\ live = {} /\ gone = {}
    /\ server = [s \in Servers |-> Down]
    /\ client = [c \in Clients |-> NewClient]
    /\ spent = [b \in {"sessions", "partitions", "failures"} |-> 0]

Next ==
    \/ \E s \in Servers : \/ Start(s) \/ CheckExists(s) \/ ZooCreate(s)
                          \/ Exit(s) \/ Crash(s)
                          \/ \E m \in Methods : RegisterHandler(s, m)
    \/ \E n \in live : Expire(n) \/ Partition(n)
    \/ \E c \in Clients : Construct(c) \/ Connect(c)

Spec == Init /\ [][Next]_vars

\* ZooKeeper ends the sessions nobody keeps alive, and servers run on.
FairSpec ==
    /\ Spec
    /\ \A n \in Sessions : WF_vars(n \in live /\ Expire(n))
    /\ \A s \in Servers : WF_vars(CheckExists(s) \/ ZooCreate(s))

-----------------------------------------------------------------------------
(* Properties *)

\* Every variable keeps its type.
TypeOK ==
    /\ root \in Servers \cup {Nobody}
    /\ znodes \subseteq Znode
    /\ live \subseteq Sessions
    /\ server \in [Servers -> Server]
    /\ client \in [Clients -> Client]
    /\ gone \subseteq Servers \X Methods
    /\ spent \in [{"sessions", "partitions", "failures"} -> Nat]

\* create() asks and creates in two requests, and other servers act in between:
\* a server that is in its session has every function it registered entered in
\* ZooKeeper, by itself or by whoever was there before it, until the session that
\* entered the function, which may be another server's, ends.
Entered == \A s \in Servers : InSession(s) =>
    \A m \in server[s].registered : Exists(m) \/ <<s, m>> \in gone

\* Whoever comes, goes, crashes or is cut off, every client of the service that
\* has an address has the same one: that of the first server.
SameAddress == \A c \in Clients : client[c].addr \in {root, Nobody}

\* A client that learned the address when it was constructed can always try it:
\* a lookup that fails later neither loses it nor ends the process.
AddressKept == \A c \in Clients :
    client[c].learned # Nobody => /\ client[c].addr = client[c].learned
                                  /\ client[c].pc # "aborted"

\* The znodes of a server's functions disappear once it is gone for good.
FunctionsVanish == \A s \in Servers :
    At(s, "down") ~> ~At(s, "down") \/ \A z \in znodes : z.addr # s

=============================================================================
