----------------------------- MODULE RpcServer -----------------------------
(***************************************************************************)
(* class rpc_server of include/rest_rpc/rpc_server.h: the accept loop, the   *)
(* table of connections and the thread that cleans it, the subscriptions and *)
(* the thread that cleans them, publish(), and stop().                       *)
(*                                                                           *)
(* The pool's threads run the accept handler, the connections' handlers and  *)
(* the signal handler; acceptor, signals and connections are on io_contexts  *)
(* of their own (io_service_pool::get_io_service), so they interleave.       *)
(* mtx_ guards connections_, sub_mtx_ guards sub_map_ and token_list_; a     *)
(* step that needs a mutex waits until no other thread is inside.            *)
(*                                                                           *)
(* A connection is its life here: module Connection has the rest.  Keys and  *)
(* tokens are strings in the code; what matters of them is which topic they  *)
(* make, and which topics a token occurs in.  Function calls, SSL, ZooKeeper *)
(* and failures of accept are left out.                                      *)
(***************************************************************************)
EXTENDS Integers, Sequences

CONSTANTS
    Conns,          \* connections that clients may open
    Keys, Tokens,   \* what may be subscribed to and published
    NoToken,        \* the empty token
    Topics,         \* the keys of sub_map_
    Topic,          \* Topic[<<key, token>>]: the string key + token
    Within,         \* <<token, topic>>: the token is a substring of the topic
    Publishers,     \* the threads that publish
    Modes,          \* how main runs the server: run() or async_run()
    MaxSubscribes,  \* bound: subscriptions received
    MaxPublishes    \* bound: calls of publish()

ASSUME TopicAssumption ==
    /\ NoToken \in Tokens /\ Keys # {}
    /\ Topic \in [Keys \X Tokens -> Topics]
    /\ \A k \in Keys, t \in Tokens : <<t, Topic[<<k, t>>]>> \in Within
ASSUME ModeAssumption  == Modes \subseteq {"run", "async_run"}
ASSUME BoundAssumption == {MaxSubscribes, MaxPublishes} \subseteq Nat

VARIABLES
    conn,           \* the life of each connection
    accepting,      \* the connection an accept handler has started, if any
    connections,    \* connections_
    conn_id,        \* conn_id_, the next number
    number,         \* conn_id_ of each connection
    cleaner,        \* clean()'s thread: where it is, whom it has yet to visit
    told,           \* history: what conn_timeout_callback_ was told of each
    sub_map,        \* sub_map_, each entry with its number
    token_list,     \* token_list_
    sub_cleaner,    \* clean_sub_pub()'s thread
    publisher,      \* the threads in publish()
    asked,          \* history: who has subscribed to what
    mode,           \* how main runs the server
    pool,           \* io_service_pool_
    stopper,        \* where the signal handler and main are in stop()
    flag,           \* stop_check_, stop_check_pub_sub_ and has_stoped_
    joined,         \* the threads that have been joined
    aborted,        \* whether joining a joined thread has ended the process
    spent           \* how much of each bound is used up

connVars == <<conn, accepting, connections, conn_id, number, cleaner, told>>
subVars  == <<sub_map, token_list, sub_cleaner, publisher, asked, spent>>
stopVars == <<mode, pool, stopper, flag, joined, aborted>>
vars == <<connVars, subVars, stopVars>>

-----------------------------------------------------------------------------
Stored       == [id : Nat, conn : Conns]
Subscription == [n : 1 .. MaxSubscribes, topic : Topics, conn : Conns]
Stoppers     == {"signal", "main"}

\* Where a cleaning thread is: between two rounds, visiting, or ended.
Idle  == [pc |-> "wait", visit |-> {}]
Ended == [pc |-> "done", visit |-> {}]
NotPublishing ==
    [pc |-> "returned", topic |-> Topic[<<CHOOSE k \in Keys : TRUE, NoToken>>],
     left |-> {}, askers |-> {}, reached |-> {}]

\* Nobody is inside a critical section of mtx_ (of sub_mtx_) across steps.
MtxFree    == cleaner.pc # "visit"
SubMtxFree == /\ sub_cleaner.pc # "visit"
              /\ \A p \in Publishers : publisher[p].pc # "send"

\* Mutant: a connection that has closed is not recognized.
HasVanished(c) == FALSE

\* connection::has_closed(), or the weak_ptr is empty.
HasClosed(c)   == conn[c] = "closed"
IsOpen(c)      == conn[c] = "open"

\* The pool's threads are done: stopped, and out of their last handlers.
PoolDone == /\ pool = "stopped"
            /\ accepting = {}
            /\ stopper["signal"] \in {"none", "returned"}

Spend(what, limit) == /\ spent[what] < limit
                      /\ spent' = [spent EXCEPT ![what] = @ + 1]

-----------------------------------------------------------------------------
(* Accepting connections, which then live their own lives *)

\* The accept handler starts the connection before it takes mtx_.
Accept(c) ==
    /\ pool = "running" /\ accepting = {}
    /\ conn[c] = "unused"
    /\ conn' = [conn EXCEPT ![c] = "open"]
    /\ accepting' = {c}
    /\ UNCHANGED <<connections, conn_id, number, cleaner, told, subVars, stopVars>>

\* Mutant: the number is not counted up.
SameNumber(i) == i

\* conn_id_++
NextNumber(i) == i + 1

\* Under mtx_ it gets its number and is stored; then the next is accepted.
\* (emplace keeps what is stored under a number.)
Emplace(c) ==
    /\ c \in accepting
    /\ MtxFree
    /\ number' = [number EXCEPT ![c] = conn_id]
    /\ connections' = IF \E e \in connections : e.id = conn_id
                      THEN connections
                      ELSE connections \cup {[id |-> conn_id, conn |-> c]}
    /\ conn_id' = NextNumber(conn_id)
    /\ accepting' = {}
    /\ UNCHANGED <<conn, cleaner, told, subVars, stopVars>>

\* A connection's own handlers close it, whenever the client is gone or late.
Close(c) ==
    /\ pool = "running"
    /\ IsOpen(c)
    /\ conn' = [conn EXCEPT ![c] = "closed"]
    /\ UNCHANGED <<accepting, connections, conn_id, number, cleaner, told,
                   subVars, stopVars>>

\* Mutant: the empty token is listed.
AnyToken(token) == {token}

\* if(!token.empty()) token_list_.emplace(token)
ToList(token)   == {token} \ {NoToken}

\* A subscription arrives: set_callback's function, on the connection's thread.
Subscribe(c, key, token) ==
    /\ pool = "running"
    /\ IsOpen(c)
    /\ SubMtxFree
    /\ Spend("subscribes", MaxSubscribes)
    /\ sub_map' = sub_map \cup {[n |-> spent'["subscribes"], conn |-> c,
                                 topic |-> Topic[<<key, token>>]]}
    /\ token_list' = token_list \cup ToList(token)
    /\ asked' = asked \cup {[conn |-> c, topic |-> Topic[<<key, token>>]]}
    /\ UNCHANGED <<sub_cleaner, publisher, connVars, stopVars>>

-----------------------------------------------------------------------------
(* clean(): every check_seconds_ the closed connections are erased *)

\* stop_check_ is looked at between two rounds: a thread that finds it set ends,
\* one that was already waiting makes one more round.
CleanEnd ==
    /\ cleaner.pc = "wait" /\ flag["check"]
    /\ cleaner' = Ended
    /\ UNCHANGED <<conn, accepting, connections, conn_id, number, told,
                   subVars, stopVars>>

CleanWake ==
    /\ cleaner.pc = "wait"
    /\ cleaner' = [pc |-> "visit", visit |-> connections]
    /\ UNCHANGED <<conn, accepting, connections, conn_id, number, told,
                   subVars, stopVars>>

\* A closed one is told to the user, by its own number, and erased.
CleanVisit(e) ==
    /\ cleaner.pc = "visit" /\ e \in cleaner.visit
    /\ cleaner' = [cleaner EXCEPT !.visit = @ \ {e}]
    /\ IF HasClosed(e.conn)
       THEN /\ told' = [told EXCEPT ![e.conn] = Append(@, number[e.conn])]
            /\ connections' = connections \ {e}
       ELSE UNCHANGED <<told, connections>>
    /\ UNCHANGED <<conn, accepting, conn_id, number, subVars, stopVars>>

CleanUnlock ==
    /\ cleaner.pc = "visit" /\ cleaner.visit = {}
    /\ cleaner' = IF flag["check"] THEN Ended ELSE Idle
    /\ UNCHANGED <<conn, accepting, connections, conn_id, number, told,
                   subVars, stopVars>>

-----------------------------------------------------------------------------
(* clean_sub_pub(): the same for subscriptions, and for their tokens *)

SubEnd ==
    /\ sub_cleaner.pc = "wait" /\ flag["sub"]
    /\ sub_cleaner' = Ended
    /\ UNCHANGED <<sub_map, token_list, publisher, asked, spent, connVars, stopVars>>

SubWake ==
    /\ sub_cleaner.pc = "wait"
    /\ SubMtxFree
    /\ sub_cleaner' = [pc |-> "visit", visit |-> sub_map]
    /\ UNCHANGED <<sub_map, token_list, publisher, asked, spent, connVars, stopVars>>

\* Mutants: all entries of the topic go (erase(key)); the tokens stay.
ErasedByTopic(e)  == {d \in sub_map : d.topic = e.topic}
NoTokensErased(e) == {}

\* What is erased with the entry e: the entry, and every token its topic has.
Erased(e)         == {e}
TokensErased(e)   == {t \in token_list : <<t, e.topic>> \in Within}

SubVisit(e) ==
    /\ sub_cleaner.pc = "visit" /\ e \in sub_cleaner.visit
    /\ sub_cleaner' = [sub_cleaner EXCEPT !.visit = @ \ {e}]
    /\ IF HasClosed(e.conn)
       THEN /\ token_list' = token_list \ TokensErased(e)
            /\ sub_map' = sub_map \ Erased(e)
       ELSE UNCHANGED <<token_list, sub_map>>
    /\ UNCHANGED <<publisher, asked, spent, connVars, stopVars>>

SubUnlock ==
    /\ sub_cleaner.pc = "visit" /\ sub_cleaner.visit = {}
    /\ sub_cleaner' = IF flag["sub"] THEN Ended ELSE Idle
    /\ UNCHANGED <<sub_map, token_list, publisher, asked, spent, connVars, stopVars>>

-----------------------------------------------------------------------------
(* publish(): two critical sections, with the packing of the data between *)

Publishing(p, pc) == publisher[p].pc = pc
Sets(p, record)   == publisher' = [publisher EXCEPT ![p] = record]

\* With no subscriptions at all it returns at once.
PubCall(p, topic) ==
    /\ Publishing(p, "returned")
    /\ SubMtxFree
    /\ Spend("publishes", MaxPublishes)
    /\ Sets(p, [pc |-> IF sub_map = {} THEN "returned" ELSE "pack",
                topic |-> topic, left |-> {}, reached |-> {},
                askers |-> {c \in Conns : /\ IsOpen(c)
                                          /\ [conn |-> c, topic |-> topic] \in asked}])
    /\ UNCHANGED <<sub_map, token_list, sub_cleaner, asked, connVars, stopVars>>

PubLock(p) ==
    /\ Publishing(p, "pack")
    /\ SubMtxFree
    /\ Sets(p, [publisher[p] EXCEPT
                  !.pc = "send",
                  !.left = {e \in sub_map : e.topic = publisher[p].topic}])
    /\ UNCHANGED <<sub_map, token_list, sub_cleaner, asked, spent, connVars, stopVars>>

PubSend(p, e) ==
    /\ Publishing(p, "send") /\ e \in publisher[p].left
    /\ Sets(p, [publisher[p] EXCEPT
                  !.left = @ \ {e},
                  !.reached = IF HasClosed(e.conn) THEN @ ELSE @ \cup {e.conn}])
    /\ UNCHANGED <<sub_map, token_list, sub_cleaner, asked, spent, connVars, stopVars>>

PubReturn(p) ==
    /\ Publishing(p, "send") /\ publisher[p].left = {}
    /\ Sets(p, [publisher[p] EXCEPT !.pc = "returned"])
    /\ UNCHANGED <<sub_map, token_list, sub_cleaner, asked, spent, connVars, stopVars>>

-----------------------------------------------------------------------------
(* stop(), called by the signal handler and by the destructor *)

StopStep(s, from, to) == /\ stopper[s] = from
                         /\ stopper' = [stopper EXCEPT ![s] = to]

\* Mutant: the flag is not set.
Forget(which) == flag' = flag

\* stop_check_ = true and its like
Raise(which)  == flag' = [flag EXCEPT ![which] = TRUE]

\* A signal is handled by a thread of the pool.  main gets to the destructor
\* when run() returns; after async_run() it may do so at any time.
MayStop(s) == IF s = "signal" THEN pool = "running"
                              ELSE mode = "async_run" \/ PoolDone

\* if(has_stoped_) return;
HasStopped == flag["stopped"]

\* Mutant: has_stoped_ is set where it is looked at.
StopBeginOnce(s) ==
    /\ MayStop(s)
    /\ StopStep(s, "none", IF HasStopped THEN "returned" ELSE "check")
    /\ Raise("stopped")
    /\ UNCHANGED <<mode, pool, joined, aborted, connVars, subVars>>

StopBegin(s) ==
    /\ MayStop(s)
    /\ StopStep(s, "none", IF HasStopped THEN "returned" ELSE "check")
    /\ UNCHANGED <<mode, pool, flag, joined, aborted, connVars, subVars>>

StopCheck(s) ==
    /\ MtxFree
    /\ StopStep(s, "check", "join_check")
    /\ Raise("check")
    /\ UNCHANGED <<mode, pool, joined, aborted, connVars, subVars>>

\* Joining a thread that has been joined throws, and nobody catches it.
Join(thread) == /\ joined' = joined \cup {thread}
                /\ aborted' = (aborted \/ thread \in joined)

StopJoinCheck(s) ==
    /\ cleaner.pc = "done"
    /\ StopStep(s, "join_check", "sub")
    /\ Join("check")
    /\ UNCHANGED <<mode, pool, flag, connVars, subVars>>

StopSub(s) ==
    /\ SubMtxFree
    /\ StopStep(s, "sub", "join_sub")
    /\ Raise("sub")
    /\ UNCHANGED <<mode, pool, joined, aborted, connVars, subVars>>

StopJoinSub(s) ==
    /\ sub_cleaner.pc = "done"
    /\ StopStep(s, "join_sub", "pool")
    /\ Join("sub")
    /\ UNCHANGED <<mode, pool, flag, connVars, subVars>>

StopPool(s) ==
    /\ StopStep(s, "pool", IF mode = "async_run" THEN "join_pool" ELSE "leave")
    /\ pool' = "stopped"
    /\ UNCHANGED <<mode, flag, joined, aborted, connVars, subVars>>

\* thd_ ran the pool: it ends when the pool's threads have.
StopJoinPool(s) ==
    /\ PoolDone
    /\ StopStep(s, "join_pool", "leave")
    /\ Join("thd")
    /\ UNCHANGED <<mode, pool, flag, connVars, subVars>>

StopLeave(s) ==
    /\ StopStep(s, "leave", "returned")
    /\ Raise("stopped")
    /\ UNCHANGED <<mode, pool, joined, aborted, connVars, subVars>>

-----------------------------------------------------------------------------
\* main has called run() or async_run().
Init ==
    /\ conn = [c \in Conns |-> "unused"]
    /\ accepting = {} /\ connections = {} /\ conn_id = 0
    /\ number = [c \in Conns |-> 0]
    /\ cleaner = Idle /\ sub_cleaner = Idle
    /\ told = [c \in Conns |-> <<>>]
    /\ sub_map = {} /\ token_list = {} /\ asked = {}
    /\ publisher = [p \in Publishers |-> NotPublishing]
    /\ mode \in Modes
    /\ pool = "running"
    /\ stopper = [s \in Stoppers |-> "none"]
    /\ flag = [f \in {"check", "sub", "stopped"} |-> FALSE]
    /\ joined = {} /\ aborted = FALSE
    /\ spent = [b \in {"subscribes", "publishes"} |-> 0]

Clean == CleanEnd \/ CleanWake \/ CleanUnlock \/ \E e \in cleaner.visit : CleanVisit(e)
CleanSub == SubEnd \/ SubWake \/ SubUnlock \/ \E e \in sub_cleaner.visit : SubVisit(e)
Publish(p) == PubLock(p) \/ PubReturn(p) \/ \E e \in publisher[p].left : PubSend(p, e)
Stop(s) == \/ StopCheck(s) \/ StopJoinCheck(s) \/ StopSub(s) \/ StopJoinSub(s)
           \/ StopPool(s) \/ StopJoinPool(s) \/ StopLeave(s)

Next ==
    \/ \E c \in Conns : \/ Accept(c) \/ Emplace(c) \/ Close(c)
                        \/ \E k \in Keys, t \in Tokens : Subscribe(c, k, t)
    \/ Clean \/ CleanSub
    \/ \E p \in Publishers : \/ Publish(p)
                             \/ \E k \in Keys, t \in Tokens : PubCall(p, Topic[<<k, t>>])
    \/ \E s \in Stoppers : StopBegin(s) \/ Stop(s)

Live == ~aborted
Spec == Init /\ [][Live /\ Next]_vars

\* The threads run and the timed waits end; who waits for a mutex gets it in
\* the seconds that a cleaning thread sleeps between two rounds (hence SF).
\* Clients, publishers' calls and signals come when they like.
FairSpec ==
    /\ Spec
    /\ \A c \in Conns : SF_vars(Live /\ Emplace(c))
    /\ WF_vars(Live /\ Clean) /\ WF_vars(Live /\ CleanSub)
    /\ \A p \in Publishers : SF_vars(Live /\ Publish(p))
    /\ \A s \in Stoppers : SF_vars(Live /\ Stop(s))

-----------------------------------------------------------------------------
(* Properties *)

Visitor(E) == [pc : {"wait", "visit", "done"}, visit : SUBSET E]

\* Every variable keeps its type.
TypeOK ==
    /\ conn \in [Conns -> {"unused", "open", "closed"}]
    /\ accepting \subseteq Conns
    /\ connections \subseteq Stored
    /\ conn_id \in Nat
    /\ number \in [Conns -> Nat]
    /\ cleaner \in Visitor(Stored)
    /\ told \in [Conns -> Seq(Nat)]
    /\ sub_map \subseteq Subscription
    /\ token_list \subseteq Tokens \ {NoToken}
    /\ sub_cleaner \in Visitor(Subscription)
    /\ publisher \in [Publishers -> [pc : {"returned", "pack", "send"}, topic : Topics,
                                     left : SUBSET Subscription,
                                     askers : SUBSET Conns, reached : SUBSET Conns]]
    /\ asked \subseteq [conn : Conns, topic : Topics]
    /\ mode \in Modes
    /\ pool \in {"running", "stopped"}
    /\ stopper \in [Stoppers -> {"none", "check", "join_check", "sub", "join_sub",
                                 "pool", "join_pool", "leave", "returned"}]
    /\ flag \in [{"check", "sub", "stopped"} -> BOOLEAN]
    /\ joined \subseteq {"check", "sub", "thd"}
    /\ aborted \in BOOLEAN
    /\ spent \in [{"subscribes", "publishes"} -> Nat]

\* No connection is lost between the accept handler and the cleaning thread:
\* an accepted one is stored under a number of its own, until it has closed and
\* conn_timeout_callback_ was told that number, once.
IsStored(c)  == [id |-> number[c], conn |-> c] \in connections
Accepted     == {c \in Conns : conn[c] # "unused" /\ c \notin accepting}
Accounted ==
    /\ \A c \in Accepted : \/ IsStored(c) /\ told[c] = <<>>
                           \/ ~IsStored(c) /\ conn[c] = "closed" /\ told[c] = <<number[c]>>
    /\ \A c, d \in Accepted : number[c] = number[d] => c = d

\* Whatever subscribes, closes and is cleaned meanwhile, when publish() returns
\* it has sent the message to every connection that had subscribed to the topic
\* before the call and is still open, and only to subscribers of the topic.
PublishReaches ==
    \A p \in Publishers :
        /\ Publishing(p, "returned") =>
              {c \in publisher[p].askers : IsOpen(c)} \subseteq publisher[p].reached
        /\ \A c \in publisher[p].reached :
              [conn |-> c, topic |-> publisher[p].topic] \in asked

\* stop() is called by the signal handler and by the destructor, one after the
\* other or at once.  Whoever has returned from it leaves no cleaning thread, and
\* the destructor no thread of the pool, to touch the members it destroys; and a
\* thread is joined a second time, which ends the process, only if main destroys
\* the server after async_run() while the signal handler is in stop().
Overlap == mode = "async_run" /\ \A s \in Stoppers : stopper[s] # "none"
StopComplete ==
    /\ \A s \in Stoppers : stopper[s] = "returned" =>
          cleaner = Ended /\ sub_cleaner = Ended /\ pool = "stopped"
    /\ stopper["main"] = "returned" => PoolDone
    /\ aborted => Overlap

\* A closed connection leaves connections_ and sub_map_, unless the server is
\* stopped first.
Forgotten(c) == /\ \A e \in connections : e.conn # c
                /\ \A e \in sub_map : e.conn # c
Stopping == flag["check"]
ClosedForgotten == \A c \in Conns : conn[c] = "closed" ~> Forgotten(c) \/ Stopping

\* A listed token has a subscription that uses it: when the last subscriber is
\* forgotten, so is the token.
TokensUsed == SubMtxFree =>
    \A t \in token_list : \E e \in sub_map : <<t, e.topic>> \in Within

\* Whoever calls stop() returns from it, unless the process is aborted.
StopEnds == \A s \in Stoppers :
    stopper[s] # "none" ~> stopper[s] = "returned" \/ aborted

\* The same, although a cleaning thread may miss its notification, except when a
\* signal comes after async_run(): its handler waits for the thread it runs on.
StopReturns == \A s \in Stoppers :
    stopper[s] # "none" ~> \/ stopper[s] = "returned" \/ aborted
                           \/ mode = "async_run" /\ stopper["signal"] # "none"

=============================================================================
