-------------------------- MODULE RpcServer_proofs --------------------------
(***************************************************************************)
(* Theorems of RpcServer, for any number of connections, publishing threads, *)
(* topics, subscriptions and publications:                                   *)
(*   TypeCorrect         the variables keep their types;                     *)
(*   NobodyLost          every accepted connection is accounted for;         *)
(*   PublicationsReach   publish() reaches the subscribers;                  *)
(*   TokensAreUsed       no token outlives its subscriptions;                *)
(*   StopLeavesNothing   nothing of the server runs when stop() has          *)
(*                       returned, and no thread is joined twice unless the  *)
(*                       signal handler and the destructor overlap.          *)
(***************************************************************************)
EXTENDS RpcServer, TLAPS

\* The actions in groups: an invariant about one part is disturbed by few.
ConnStep == \E c \in Conns : Accept(c) \/ Emplace(c) \/ Close(c)
SubscribeStep == \E c \in Conns, k \in Keys, t \in Tokens : Subscribe(c, k, t)
CallStep == \E p \in Publishers, k \in Keys, t \in Tokens : PubCall(p, Topic[<<k, t>>])
PubStep  == \E p \in Publishers : Publish(p)
StopStart == \E s \in Stoppers : StopBegin(s) \/ Stop(s)

LEMMA NextSteps ==
    ASSUME Next
    PROVE  \/ ConnStep \/ SubscribeStep \/ Clean \/ CleanSub
           \/ CallStep \/ PubStep \/ StopStart
BY DEF Next, ConnStep, SubscribeStep, CallStep, PubStep, StopStart

-----------------------------------------------------------------------------
(* Types *)

LEMMA TopicType ==
    ASSUME NEW k \in Keys, NEW t \in Tokens
    PROVE  Topic[<<k, t>>] \in Topics
BY TopicAssumption

LEMMA FirstTopicType == NotPublishing.topic \in Topics
<1>1. PICK k0 \in Keys : TRUE
  BY TopicAssumption
<1>2. (CHOOSE k \in Keys : TRUE) \in Keys
  BY <1>1
<1>3. Topic[<<CHOOSE k \in Keys : TRUE, NoToken>>] \in Topics
  BY <1>2, TopicType, TopicAssumption
<1> QED
  BY <1>3 DEF NotPublishing

PubRecord == [pc : {"returned", "pack", "send"}, topic : Topics,
              left : SUBSET Subscription,
              askers : SUBSET Conns, reached : SUBSET Conns]

LEMMA InitType == ASSUME Init PROVE TypeOK
<1>1. NotPublishing \in PubRecord
  BY FirstTopicType DEF NotPublishing, PubRecord
<1>2. publisher \in [Publishers -> PubRecord]
  BY <1>1 DEF Init
<1>3. told \in [Conns -> Seq(Nat)]
  BY DEF Init
<1>4. cleaner \in Visitor(Stored) /\ sub_cleaner \in Visitor(Subscription)
  BY DEF Init, Idle, Visitor
<1> QED
  BY <1>2, <1>3, <1>4 DEF Init, TypeOK, PubRecord, Stoppers

LEMMA ConnType == ASSUME TypeOK, ConnStep PROVE TypeOK'
<1>1. PICK c \in Conns : Accept(c) \/ Emplace(c) \/ Close(c)
  BY DEF ConnStep
<1>2. CASE Accept(c)
  BY <1>2 DEF Accept, TypeOK, subVars, stopVars
<1>3. CASE Emplace(c)
  <2>1. [id |-> conn_id, conn |-> c] \in Stored /\ conn_id + 1 \in Nat
    BY DEF TypeOK, Stored
  <2>2. number' \in [Conns -> Nat] /\ connections' \subseteq Stored /\ conn_id' \in Nat
    BY <1>3, <2>1 DEF Emplace, NextNumber, TypeOK
  <2> QED
    BY <1>3, <2>2 DEF Emplace, TypeOK, subVars, stopVars
<1>4. CASE Close(c)
  BY <1>4 DEF Close, TypeOK, subVars, stopVars
<1> QED
  BY <1>1, <1>2, <1>3, <1>4

\* The three conjuncts of Spend that the proofs need.
LEMMA SpendSubscribe ==
    ASSUME TypeOK, Spend("subscribes", MaxSubscribes)
    PROVE  /\ spent' \in [{"subscribes", "publishes"} -> Nat]
           /\ spent'["subscribes"] \in 1 .. MaxSubscribes
BY BoundAssumption DEF TypeOK, Spend

LEMMA SubscribeType == ASSUME TypeOK, SubscribeStep PROVE TypeOK'
<1>1. PICK c \in Conns, k \in Keys, t \in Tokens : Subscribe(c, k, t)
  BY DEF SubscribeStep
<1>2. [n |-> spent'["subscribes"], conn |-> c, topic |-> Topic[<<k, t>>]] \in Subscription
  BY <1>1, SpendSubscribe, TopicType DEF Subscribe, Subscription
<1>3. [conn |-> c, topic |-> Topic[<<k, t>>]] \in [conn : Conns, topic : Topics]
  BY TopicType
<1>4. token_list' \subseteq Tokens \ {NoToken}
  BY <1>1 DEF Subscribe, ToList, TypeOK
<1> QED
  BY <1>1, <1>2, <1>3, <1>4, SpendSubscribe DEF Subscribe, TypeOK, connVars, stopVars

LEMMA CleanType == ASSUME TypeOK, Clean PROVE TypeOK'
<1>1. CASE CleanEnd
  BY <1>1 DEF CleanEnd, TypeOK, Visitor, Ended, subVars, stopVars
<1>2. CASE CleanWake
  BY <1>2 DEF CleanWake, TypeOK, Visitor, subVars, stopVars
<1>3. CASE CleanUnlock
  BY <1>3 DEF CleanUnlock, TypeOK, Visitor, Ended, Idle, subVars, stopVars
<1>4. ASSUME NEW e \in cleaner.visit, CleanVisit(e) PROVE TypeOK'
  <2>1. e.conn \in Conns
    BY <1>4 DEF TypeOK, Visitor, Stored
  <2>2. Append(told[e.conn], number[e.conn]) \in Seq(Nat)
    BY <2>1 DEF TypeOK
  <2>3. told' \in [Conns -> Seq(Nat)]
    BY <1>4, <2>2 DEF CleanVisit, TypeOK
  <2>4. cleaner' \in Visitor(Stored) /\ connections' \subseteq Stored
    BY <1>4 DEF CleanVisit, TypeOK, Visitor
  <2> QED
    BY <1>4, <2>3, <2>4 DEF CleanVisit, TypeOK, subVars, stopVars
<1> QED
  BY <1>1, <1>2, <1>3, <1>4 DEF Clean

LEMMA CleanSubType == ASSUME TypeOK, CleanSub PROVE TypeOK'
<1>1. CASE SubEnd
  BY <1>1 DEF SubEnd, TypeOK, Visitor, Ended, connVars, stopVars
<1>2. CASE SubWake
  BY <1>2 DEF SubWake, TypeOK, Visitor, connVars, stopVars
<1>3. CASE SubUnlock
  BY <1>3 DEF SubUnlock, TypeOK, Visitor, Ended, Idle, connVars, stopVars
<1>4. ASSUME NEW e \in sub_cleaner.visit, SubVisit(e) PROVE TypeOK'
  <2>1. sub_cleaner' \in Visitor(Subscription)
    BY <1>4 DEF SubVisit, TypeOK, Visitor
  <2>2. sub_map' \subseteq Subscription /\ token_list' \subseteq Tokens \ {NoToken}
    BY <1>4 DEF SubVisit, TypeOK
  <2> QED
    BY <1>4, <2>1, <2>2 DEF SubVisit, TypeOK, connVars, stopVars
<1> QED
  BY <1>1, <1>2, <1>3, <1>4 DEF CleanSub

LEMMA CallType == ASSUME TypeOK, CallStep PROVE TypeOK'
<1>1. PICK p \in Publishers, k \in Keys, t \in Tokens : PubCall(p, Topic[<<k, t>>])
  BY DEF CallStep
<1>2. PICK r \in PubRecord : Sets(p, r)
  <2>1. [pc |-> IF sub_map = {} THEN "returned" ELSE "pack",
         topic |-> Topic[<<k, t>>], left |-> {}, reached |-> {},
         askers |-> {c \in Conns : /\ IsOpen(c)
                                   /\ [conn |-> c, topic |-> Topic[<<k, t>>]] \in asked}]
          \in PubRecord
    BY TopicType DEF PubRecord
  <2> QED
    BY <1>1, <2>1 DEF PubCall
<1>3. publisher' \in [Publishers -> PubRecord]
  BY <1>2 DEF Sets, TypeOK, PubRecord
<1>4. Spend("publishes", MaxPublishes)
  BY <1>1 DEF PubCall
<1>5. spent' \in [{"subscribes", "publishes"} -> Nat]
  BY <1>4 DEF Spend, TypeOK
<1> QED
  BY <1>1, <1>3, <1>5 DEF PubCall, TypeOK, PubRecord, connVars, stopVars

LEMMA PubType == ASSUME TypeOK, PubStep PROVE TypeOK'
<1>1. PICK p \in Publishers : Publish(p)
  BY DEF PubStep
<1>2. publisher[p] \in PubRecord
  BY DEF TypeOK, PubRecord
<1>3. publisher' \in [Publishers -> PubRecord]
  <2>1. CASE PubLock(p)
    <3>1. [publisher[p] EXCEPT !.pc = "send",
             !.left = {e \in sub_map : e.topic = publisher[p].topic}] \in PubRecord
      BY <1>2 DEF TypeOK, PubRecord
    <3> QED
      BY <2>1, <3>1 DEF PubLock, Sets, TypeOK, PubRecord
  <2>2. CASE PubReturn(p)
    <3>1. [publisher[p] EXCEPT !.pc = "returned"] \in PubRecord
      BY <1>2 DEF PubRecord
    <3> QED
      BY <2>2, <3>1 DEF PubReturn, Sets, TypeOK, PubRecord
  <2>3. ASSUME NEW e \in publisher[p].left, PubSend(p, e)
        PROVE  publisher' \in [Publishers -> PubRecord]
    <3>1. e.conn \in Conns
      BY <1>2 DEF PubRecord, Subscription
    <3>2. [publisher[p] EXCEPT
             !.left = @ \ {e},
             !.reached = IF HasClosed(e.conn) THEN @ ELSE @ \cup {e.conn}] \in PubRecord
      BY <1>2, <3>1 DEF PubRecord
    <3> QED
      BY <2>3, <3>2 DEF PubSend, Sets, TypeOK, PubRecord
  <2> QED
    BY <1>1, <2>1, <2>2, <2>3 DEF Publish
<1>4. UNCHANGED <<sub_map, token_list, sub_cleaner, asked, spent, connVars, stopVars>>
  BY <1>1 DEF Publish, PubLock, PubReturn, PubSend
<1> QED
  BY <1>3, <1>4 DEF TypeOK, PubRecord, connVars, stopVars

LEMMA StopType == ASSUME TypeOK, StopStart PROVE TypeOK'
<1>1. PICK s \in Stoppers : StopBegin(s) \/ Stop(s)
  BY DEF StopStart
<1>2. CASE StopBegin(s)
  BY <1>2 DEF StopBegin, StopStep, TypeOK, connVars, subVars
<1>3. CASE StopCheck(s)
  BY <1>3 DEF StopCheck, StopStep, Raise, TypeOK, connVars, subVars
<1>4. CASE StopJoinCheck(s)
  BY <1>4 DEF StopJoinCheck, StopStep, Join, TypeOK, connVars, subVars
<1>5. CASE StopSub(s)
  BY <1>5 DEF StopSub, StopStep, Raise, TypeOK, connVars, subVars
<1>6. CASE StopJoinSub(s)
  BY <1>6 DEF StopJoinSub, StopStep, Join, TypeOK, connVars, subVars
<1>7. CASE StopPool(s)
  BY <1>7 DEF StopPool, StopStep, TypeOK, connVars, subVars
<1>8. CASE StopJoinPool(s)
  BY <1>8 DEF StopJoinPool, StopStep, Join, TypeOK, connVars, subVars
<1>9. CASE StopLeave(s)
  BY <1>9 DEF StopLeave, StopStep, Raise, TypeOK, connVars, subVars
<1> QED
  BY <1>1, <1>2, <1>3, <1>4, <1>5, <1>6, <1>7, <1>8, <1>9 DEF Stop

\* Every variable of the server keeps its type, however many connections,
\* threads, subscriptions and publications there are.
THEOREM TypeCorrect == Spec => []TypeOK
<1>1. Init => TypeOK
  BY InitType
<1>2. TypeOK /\ [Live /\ Next]_vars => TypeOK'
  <2>1. CASE Next
    BY <2>1, NextSteps, ConnType, SubscribeType, CleanType, CleanSubType, CallType,
       PubType, StopType
  <2>2. CASE UNCHANGED vars
    BY <2>2 DEF vars, connVars, subVars, stopVars, TypeOK
  <2> QED
    BY <2>1, <2>2
<1> QED
  BY <1>1, <1>2, PTL DEF Spec

-----------------------------------------------------------------------------
(* Nobody is lost between the accept handler and the cleaning thread         *)

\* What keeps Accounted: one connection at a time is being accepted, numbers in
\* use are below conn_id, what is stored has its connection's number, nobody is
\* told of who is not accepted yet, and whom clean() has yet to visit is stored.
OneAccepted  == \A c, d \in accepting : c = d
WasUsed      == \A c \in accepting : conn[c] # "unused"
Below        == \A c \in Accepted : number[c] < conn_id
OwnNumber    == \A e \in connections : e.conn \in Accepted /\ e.id = number[e.conn]
NotToldYet   == \A c \in Conns \ Accepted : told[c] = <<>>
VisitsStored == cleaner.visit \subseteq connections
VisitsInside == cleaner.pc # "visit" => cleaner.visit = {}
ServerInv == /\ Accounted /\ OneAccepted /\ WasUsed /\ Below /\ OwnNumber
             /\ NotToldYet /\ VisitsStored /\ VisitsInside

LEMMA InitServer == ASSUME Init PROVE ServerInv
<1>1. Accepted = {}
  BY DEF Init, Accepted
<1> QED
  BY <1>1 DEF Init, ServerInv, Accounted, OneAccepted, WasUsed, Below, OwnNumber,
              NotToldYet, VisitsStored, VisitsInside, Idle

\* ServerInv is about connVars alone.
LEMMA ServerStutter == ASSUME ServerInv, UNCHANGED connVars PROVE ServerInv'
BY DEF ServerInv, Accounted, OneAccepted, WasUsed, Below, OwnNumber, NotToldYet,
       VisitsStored, VisitsInside, IsStored, Accepted, connVars

LEMMA AcceptServer ==
    ASSUME TypeOK, ServerInv, NEW c \in Conns, Accept(c)
    PROVE  ServerInv'
<1>1. Accepted' = Accepted
  BY DEF Accept, Accepted, TypeOK
<1>2. \A d \in Accepted : (conn'[d] = conn[d])
  BY DEF Accept, Accepted, TypeOK
<1>3. Accounted'
  BY <1>1, <1>2 DEF ServerInv, Accounted, IsStored, Accept
<1>4. OneAccepted' /\ WasUsed'
  BY DEF Accept, OneAccepted, WasUsed, TypeOK
<1>5. Below' /\ OwnNumber' /\ NotToldYet' /\ VisitsStored' /\ VisitsInside'
  BY <1>1 DEF ServerInv, Below, OwnNumber, NotToldYet, VisitsStored, VisitsInside, Accept
<1> QED
  BY <1>3, <1>4, <1>5 DEF ServerInv

LEMMA EmplaceServer ==
    ASSUME TypeOK, ServerInv, NEW c \in Conns, Emplace(c)
    PROVE  ServerInv'
<1> DEFINE entry == [id |-> conn_id, conn |-> c]
<1>1. /\ accepting = {c} /\ accepting' = {}
      /\ conn[c] # "unused" /\ conn' = conn /\ told' = told /\ cleaner' = cleaner
  BY DEF ServerInv, OneAccepted, WasUsed, Emplace
<1>2. Accepted' = Accepted \cup {c} /\ c \notin Accepted
  BY <1>1 DEF Accepted
<1>3. connections' = connections \cup {entry}
  <2>1. ~ \E e \in connections : e.id = conn_id
    BY DEF ServerInv, OwnNumber, Below, TypeOK, Stored
  <2> QED
    BY <2>1 DEF Emplace
<1>4. /\ conn_id' = conn_id + 1 /\ conn_id \in Nat
      /\ number'[c] = conn_id
      /\ \A d \in Accepted : number'[d] = number[d] /\ number[d] \in Nat
  BY <1>2 DEF Emplace, NextNumber, TypeOK, Accepted
<1>5. Below'
  BY <1>2, <1>4 DEF ServerInv, Below
<1>6. OwnNumber'
  BY <1>2, <1>3, <1>4 DEF ServerInv, OwnNumber
<1>7. Accounted'
  <2>1. \A d \in Accepted : IsStored(d)' <=> IsStored(d)
    BY <1>2, <1>3, <1>4 DEF IsStored
  <2>2. IsStored(c)'
    BY <1>3, <1>4 DEF IsStored
  <2>3. told[c] = <<>>
    BY <1>2 DEF ServerInv, NotToldYet
  <2>4. \A d \in Accepted : \/ IsStored(d)' /\ told'[d] = <<>>
                            \/ ~IsStored(d)' /\ conn'[d] = "closed" /\ told'[d] = <<number'[d]>>
    BY <1>1, <1>4, <2>1 DEF ServerInv, Accounted
  <2>5. \A d, f \in Accepted' : number'[d] = number'[f] => d = f
    BY <1>2, <1>4 DEF ServerInv, Accounted, Below
  <2> QED
    BY <1>1, <1>2, <2>2, <2>3, <2>4, <2>5 DEF Accounted
<1>8. OneAccepted' /\ WasUsed' /\ NotToldYet' /\ VisitsStored' /\ VisitsInside'
  BY <1>1, <1>2, <1>3 DEF ServerInv, OneAccepted, WasUsed, NotToldYet, VisitsStored,
                          VisitsInside
<1> QED
  BY <1>5, <1>6, <1>7, <1>8 DEF ServerInv

LEMMA CloseServer ==
    ASSUME TypeOK, ServerInv, NEW c \in Conns, Close(c)
    PROVE  ServerInv'
<1>1. Accepted' = Accepted
  BY DEF Close, IsOpen, Accepted, TypeOK
<1>2. \A d \in Conns : conn[d] = "closed" => conn'[d] = "closed"
  BY DEF Close, TypeOK
<1>3. Accounted'
  BY <1>1, <1>2 DEF ServerInv, Accounted, IsStored, Close, Accepted
<1>4. OneAccepted' /\ WasUsed'
  BY DEF ServerInv, Close, OneAccepted, WasUsed, TypeOK
<1>5. Below' /\ OwnNumber' /\ NotToldYet' /\ VisitsStored' /\ VisitsInside'
  BY <1>1 DEF ServerInv, Below, OwnNumber, NotToldYet, VisitsStored, VisitsInside, Close
<1> QED
  BY <1>3, <1>4, <1>5 DEF ServerInv

LEMMA VisitServer ==
    ASSUME TypeOK, ServerInv, NEW e \in cleaner.visit, CleanVisit(e)
    PROVE  ServerInv'
<1>1. e \in connections /\ e.conn \in Accepted /\ e.id = number[e.conn] /\ e \in Stored
  BY DEF ServerInv, VisitsStored, OwnNumber, TypeOK
<1>2. e = [id |-> number[e.conn], conn |-> e.conn]
  BY <1>1 DEF Stored
<1>3. UNCHANGED <<conn, accepting, conn_id, number>> /\ Accepted' = Accepted
  BY DEF CleanVisit, Accepted
<1>4. VisitsStored' /\ VisitsInside'
  BY DEF ServerInv, CleanVisit, VisitsStored, VisitsInside, TypeOK, Visitor
<1>5. CASE conn[e.conn] = "closed"
  <2>1. connections' = connections \ {e}
    BY <1>5 DEF CleanVisit, HasClosed
  <2>2. told[e.conn] = <<>>
    BY <1>1, <1>2 DEF ServerInv, Accounted, IsStored
  <2>3. told'[e.conn] = <<number[e.conn]>>
    BY <1>1, <1>5, <2>2 DEF CleanVisit, HasClosed, TypeOK, Accepted
  <2>4. \A c \in Conns \ {e.conn} : told'[c] = told[c]
    BY <1>5 DEF CleanVisit, HasClosed, TypeOK
  <2>5. ~IsStored(e.conn)'
    BY <1>2, <1>3, <2>1 DEF IsStored
  <2>6. \A c \in Accepted \ {e.conn} : IsStored(c)' <=> IsStored(c)
    BY <1>2, <1>3, <2>1 DEF IsStored
  <2>7. Accounted'
    BY <1>3, <1>5, <2>3, <2>4, <2>5, <2>6 DEF ServerInv, Accounted, Accepted
  <2>8. OwnNumber' /\ NotToldYet'
    BY <1>1, <1>3, <2>1, <2>4 DEF ServerInv, OwnNumber, NotToldYet
  <2> QED
    BY <1>3, <1>4, <2>7, <2>8 DEF ServerInv, OneAccepted, WasUsed, Below
<1>6. CASE conn[e.conn] # "closed"
  <2>1. UNCHANGED <<told, connections>>
    BY <1>6 DEF CleanVisit, HasClosed
  <2> QED
    BY <1>3, <1>4, <2>1 DEF ServerInv, Accounted, IsStored, OneAccepted, WasUsed, Below,
                            OwnNumber, NotToldYet
<1> QED
  BY <1>5, <1>6

\* The rest of clean() changes only whom it visits.
LEMMA CleanServer == ASSUME TypeOK, ServerInv, Clean PROVE ServerInv'
<1>1. ASSUME CleanEnd \/ CleanWake \/ CleanUnlock PROVE ServerInv'
  <2>1. UNCHANGED <<conn, accepting, connections, conn_id, number, told>>
    BY <1>1 DEF CleanEnd, CleanWake, CleanUnlock
  <2>2. VisitsStored' /\ VisitsInside'
    BY <1>1 DEF CleanEnd, CleanWake, CleanUnlock, ServerInv, VisitsStored, VisitsInside,
                Idle, Ended
  <2> QED
    BY <2>1, <2>2 DEF ServerInv, Accounted, IsStored, Accepted, OneAccepted, WasUsed,
                      Below, OwnNumber, NotToldYet
<1> QED
  BY <1>1, VisitServer DEF Clean

\* Every connection that was accepted is stored, or has closed and the user was
\* told its number once, however accepting, closing and cleaning interleave.
THEOREM NobodyLost == Spec => []Accounted
<1>1. Init => ServerInv
  BY InitServer
<1>2. TypeOK /\ ServerInv /\ [Live /\ Next]_vars => ServerInv'
  <2> SUFFICES ASSUME TypeOK, ServerInv, [Live /\ Next]_vars PROVE ServerInv'
    OBVIOUS
  <2>1. CASE ConnStep
    BY <2>1, AcceptServer, EmplaceServer, CloseServer DEF ConnStep
  <2>2. CASE Clean
    BY <2>2, CleanServer
  <2>3. CASE SubscribeStep \/ CleanSub \/ CallStep \/ PubStep
    <3>1. UNCHANGED connVars
      BY <2>3 DEF SubscribeStep, Subscribe, CleanSub, SubEnd, SubWake, SubUnlock, SubVisit,
                  CallStep, PubCall, PubStep, Publish, PubLock, PubReturn, PubSend
    <3> QED
      BY <3>1, ServerStutter
  <2>4. CASE StopStart
    <3>1. UNCHANGED connVars
      BY <2>4 DEF StopStart, StopBegin, Stop, StopCheck, StopJoinCheck, StopSub,
                  StopJoinSub, StopPool, StopJoinPool, StopLeave
    <3> QED
      BY <3>1, ServerStutter
  <2>5. CASE UNCHANGED vars
    BY <2>5, ServerStutter DEF vars
  <2> QED
    BY <2>1, <2>2, <2>3, <2>4, <2>5, NextSteps
<1>3. ServerInv => Accounted
  BY DEF ServerInv
<1> QED
  BY <1>1, <1>2, <1>3, TypeCorrect, PTL DEF Spec

-----------------------------------------------------------------------------
(* Publications reach the subscribers, and tokens go with them               *)

\* Whoever has subscribed and is not closed has its entry in sub_map, and what
\* is in sub_map was asked for.
AskedUsed == \A a \in asked : conn[a.conn] # "unused"
EntryKept == \A a \in asked : \/ conn[a.conn] = "closed"
                              \/ \E e \in sub_map : e.conn = a.conn /\ e.topic = a.topic
WasAsked(c, topic) == [conn |-> c, topic |-> topic] \in asked
EntryAsked == \A e \in sub_map : WasAsked(e.conn, e.topic)
TokenKept  == \A t \in token_list : \E e \in sub_map : <<t, e.topic>> \in Within

\* Where a thread in publish() is: whom it owes the message to has been sent it
\* or is among those left.
Asks(r)  == /\ \A c \in r.askers : WasAsked(c, r.topic)
            /\ \A c \in r.reached : WasAsked(c, r.topic)
            /\ \A e \in r.left : WasAsked(e.conn, r.topic)
Owes(r)  == \A c \in r.askers : \/ conn[c] = "closed" \/ c \in r.reached
                                \/ \E e \in r.left : e.conn = c
Paid(r)  == \A c \in r.askers : conn[c] = "closed" \/ c \in r.reached
Sound(r) == Asks(r) /\ (r.pc = "send" => Owes(r)) /\ (r.pc = "returned" => Paid(r))

PubInv == /\ AskedUsed /\ EntryKept /\ EntryAsked /\ TokenKept
          /\ \A p \in Publishers : Sound(publisher[p])

LEMMA InitPub == ASSUME Init PROVE PubInv
<1>1. \A p \in Publishers : Sound(publisher[p])
  BY DEF Init, NotPublishing, Sound, Asks, Owes, Paid
<1> QED
  BY <1>1 DEF Init, PubInv, AskedUsed, EntryKept, EntryAsked, TokenKept

\* A connection that asked stays closed once closed, whatever conn's step is.
LEMMA ConnPub == ASSUME TypeOK, PubInv, ConnStep PROVE PubInv'
<1>1. UNCHANGED subVars
  BY DEF ConnStep, Accept, Emplace, Close
<1>2. \A a \in asked : /\ a.conn \in Conns
                       /\ conn'[a.conn] # "unused"
                       /\ conn[a.conn] = "closed" => conn'[a.conn] = "closed"
  BY DEF PubInv, AskedUsed, TypeOK, ConnStep, Accept, Emplace, Close
<1>3. \A c \in Conns, topic \in Topics : WasAsked(c, topic)' <=> WasAsked(c, topic)
  BY <1>1 DEF WasAsked, subVars
<1>4. \A c \in Conns, topic \in Topics :
        WasAsked(c, topic) /\ conn[c] = "closed" => conn'[c] = "closed"
  BY <1>2 DEF WasAsked
<1>5. \A p \in Publishers : Sound(publisher[p])'
  <2> SUFFICES ASSUME NEW p \in Publishers PROVE Sound(publisher[p])'
    OBVIOUS
  <2> DEFINE r == publisher[p]
  <2>1. /\ publisher' = publisher /\ Sound(r)
        /\ r.topic \in Topics /\ r.askers \subseteq Conns /\ r.reached \subseteq Conns
        /\ \A e \in r.left : e.conn \in Conns
    BY <1>1 DEF PubInv, TypeOK, subVars, Subscription
  <2>2. Asks(publisher[p])'
    BY <1>3, <2>1 DEF Sound, Asks
  <2>3. /\ r.pc = "send" => Owes(publisher[p])'
        /\ r.pc = "returned" => Paid(publisher[p])'
    BY <1>4, <2>1 DEF Sound, Asks, Owes, Paid
  <2> QED
    BY <2>1, <2>2, <2>3 DEF Sound
<1>6. AskedUsed' /\ EntryKept' /\ EntryAsked' /\ TokenKept'
  BY <1>1, <1>2 DEF PubInv, AskedUsed, EntryKept, EntryAsked, TokenKept, WasAsked, subVars
<1> QED
  BY <1>5, <1>6 DEF PubInv

\* Asking more takes nothing from those who publish.
LEMMA SubscribePub == ASSUME TypeOK, PubInv, SubscribeStep PROVE PubInv'
<1>1. PICK c \in Conns, k \in Keys, t \in Tokens : Subscribe(c, k, t)
  BY DEF SubscribeStep
<1> DEFINE topic == Topic[<<k, t>>]
<1>2. PICK entry : /\ entry.conn = c /\ entry.topic = topic
                   /\ sub_map' = sub_map \cup {entry}
  <2> DEFINE entry == [n |-> spent'["subscribes"], conn |-> c, topic |-> topic]
  <2>1. sub_map' = sub_map \cup {entry}
    BY <1>1 DEF Subscribe
  <2>2. entry.conn = c /\ entry.topic = topic
    OBVIOUS
  <2> HIDE DEF entry
  <2> QED
    BY <2>1, <2>2
<1>3. /\ asked' = asked \cup {[conn |-> c, topic |-> topic]}
      /\ token_list' \subseteq token_list \cup {t}
      /\ conn[c] = "open" /\ conn' = conn /\ publisher' = publisher
      /\ <<t, topic>> \in Within
  BY <1>1, TopicAssumption DEF Subscribe, IsOpen, ToList, connVars
<1> HIDE DEF topic
<1>4. \A d, tp : WasAsked(d, tp) => WasAsked(d, tp)'
  BY <1>3 DEF WasAsked
<1>5. AskedUsed'
  BY <1>3 DEF PubInv, AskedUsed
<1>6. EntryKept'
  BY <1>2, <1>3 DEF PubInv, EntryKept
<1>7. EntryAsked'
  BY <1>2, <1>3, <1>4 DEF PubInv, EntryAsked, WasAsked
<1>8. TokenKept'
  BY <1>2, <1>3 DEF PubInv, TokenKept
<1>9. \A p \in Publishers : Sound(publisher[p])'
  BY <1>3, <1>4 DEF PubInv, Sound, Asks, Owes, Paid
<1> QED
  BY <1>5, <1>6, <1>7, <1>8, <1>9 DEF PubInv

\* Only entries of closed connections are erased, with every token they have.
LEMMA CleanSubPub == ASSUME TypeOK, PubInv, CleanSub PROVE PubInv'
<1>1. UNCHANGED <<publisher, asked, conn>>
  BY DEF CleanSub, SubEnd, SubWake, SubUnlock, SubVisit, connVars
<1>2. \A p \in Publishers : Sound(publisher[p])'
  BY <1>1 DEF PubInv, Sound, Asks, Owes, Paid, WasAsked
<1>3. AskedUsed'
  BY <1>1 DEF PubInv, AskedUsed
<1>4. CASE UNCHANGED <<sub_map, token_list>>
  BY <1>1, <1>2, <1>3, <1>4 DEF PubInv, EntryKept, EntryAsked, TokenKept, WasAsked
<1>5. ASSUME NEW e \in sub_cleaner.visit, SubVisit(e), conn[e.conn] = "closed"
      PROVE  PubInv'
  <2>1. /\ sub_map' = sub_map \ {e}
        /\ \A t \in token_list' : t \in token_list /\ <<t, e.topic>> \notin Within
    BY <1>5 DEF SubVisit, HasClosed, Erased, TokensErased
  <2>2. EntryKept'
    BY <1>1, <1>5, <2>1 DEF PubInv, EntryKept
  <2>3. EntryAsked'
    BY <1>1, <2>1 DEF PubInv, EntryAsked, WasAsked
  <2>4. TokenKept'
    BY <2>1 DEF PubInv, TokenKept
  <2> QED
    BY <1>2, <1>3, <2>2, <2>3, <2>4 DEF PubInv
<1>6. ASSUME NEW e \in sub_cleaner.visit, SubVisit(e), conn[e.conn] # "closed"
      PROVE  UNCHANGED <<sub_map, token_list>>
  BY <1>6 DEF SubVisit, HasClosed
<1> QED
  BY <1>4, <1>5, <1>6 DEF CleanSub, SubEnd, SubWake, SubUnlock

LEMMA CallPub == ASSUME TypeOK, PubInv, CallStep PROVE PubInv'
<1>1. PICK p \in Publishers, k \in Keys, t \in Tokens : PubCall(p, Topic[<<k, t>>])
  BY DEF CallStep
<1> DEFINE topic == Topic[<<k, t>>]
           called == {c \in Conns : /\ IsOpen(c)
                                    /\ [conn |-> c, topic |-> topic] \in asked}
           r == [pc |-> IF sub_map = {} THEN "returned" ELSE "pack",
                 topic |-> topic, left |-> {}, reached |-> {}, askers |-> called]
<1>2. /\ publisher' = [publisher EXCEPT ![p] = r]
      /\ UNCHANGED <<sub_map, token_list, asked, conn>>
  BY <1>1 DEF PubCall, Sets, connVars
<1>3. sub_map = {} => called = {}
  BY DEF PubInv, EntryKept, IsOpen
<1>4. Sound(r)
  BY <1>3 DEF Sound, Asks, Owes, Paid, WasAsked
<1>5. \A q \in Publishers : Sound(publisher'[q])
  BY <1>2, <1>4 DEF PubInv, TypeOK
<1>6. \A q \in Publishers : Sound(publisher[q])'
  BY <1>2, <1>5 DEF Sound, Asks, Owes, Paid, WasAsked
<1> QED
  BY <1>2, <1>6 DEF PubInv, AskedUsed, EntryKept, EntryAsked, TokenKept, WasAsked

LEMMA PubPub == ASSUME TypeOK, PubInv, PubStep PROVE PubInv'
<1>1. PICK p \in Publishers : Publish(p)
  BY DEF PubStep
<1> DEFINE r == publisher[p]
<1>2. UNCHANGED <<sub_map, token_list, asked, conn>>
  BY <1>1 DEF Publish, PubLock, PubReturn, PubSend, connVars
<1>3. Sound(r) /\ r \in PubRecord
  BY DEF PubInv, TypeOK, PubRecord
<1>4. PICK s : publisher' = [publisher EXCEPT ![p] = s] /\ Sound(s)
  <2>1. CASE PubLock(p)
    <3> DEFINE s == [r EXCEPT !.pc = "send", !.left = {e \in sub_map : e.topic = r.topic}]
    <3>1. /\ s.askers = r.askers /\ s.reached = r.reached /\ s.topic = r.topic
          /\ s.left = {e \in sub_map : e.topic = r.topic} /\ s.pc = "send"
      BY <1>3 DEF PubRecord
    <3>2. Asks(s)
      BY <1>3, <3>1 DEF PubInv, EntryAsked, Sound, Asks
    <3>3. Owes(s)
      <4> SUFFICES ASSUME NEW c \in r.askers, conn[c] # "closed"
                   PROVE  \E e \in s.left : e.conn = c
        BY <3>1 DEF Owes
      <4>1. [conn |-> c, topic |-> r.topic] \in asked
        BY <1>3 DEF Sound, Asks, WasAsked
      <4>2. PICK e \in sub_map : e.conn = c /\ e.topic = r.topic
        BY <4>1 DEF PubInv, EntryKept
      <4> QED
        BY <3>1, <4>2
    <3> QED
      BY <2>1, <3>1, <3>2, <3>3 DEF PubLock, Sets, Sound
  <2>2. CASE PubReturn(p)
    <3> DEFINE s == [r EXCEPT !.pc = "returned"]
    <3>1. /\ s.askers = r.askers /\ s.reached = r.reached /\ s.topic = r.topic
          /\ s.left = r.left /\ s.pc = "returned"
      BY <1>3 DEF PubRecord
    <3>2. r.pc = "send" /\ r.left = {}
      BY <2>2 DEF PubReturn, Publishing
    <3>3. Sound(s)
      BY <1>3, <3>1, <3>2 DEF Sound, Asks, Owes, Paid
    <3> QED
      BY <2>2, <3>3 DEF PubReturn, Sets
  <2>3. ASSUME NEW e \in r.left, PubSend(p, e)
        PROVE  \E s : publisher' = [publisher EXCEPT ![p] = s] /\ Sound(s)
    <3> DEFINE reached == IF HasClosed(e.conn) THEN r.reached ELSE r.reached \cup {e.conn}
               s == [r EXCEPT !.left = r.left \ {e}, !.reached = reached]
    <3>1. /\ s.askers = r.askers /\ s.reached = reached /\ s.topic = r.topic
          /\ s.left = r.left \ {e} /\ s.pc = r.pc
      BY <1>3 DEF PubRecord
    <3>2. r.pc = "send"
      BY <2>3 DEF PubSend, Publishing
    <3>3. Asks(s)
      BY <1>3, <3>1 DEF Sound, Asks
    <3>4. Owes(s)
      BY <1>3, <3>1, <3>2 DEF Sound, Owes, HasClosed
    <3>5. Sound(s)
      BY <3>1, <3>2, <3>3, <3>4 DEF Sound
    <3> QED
      BY <2>3, <3>5 DEF PubSend, Sets
  <2> QED
    BY <1>1, <2>1, <2>2, <2>3 DEF Publish
<1>5. \A q \in Publishers : Sound(publisher'[q])
  BY <1>4 DEF PubInv, TypeOK
<1>6. \A q \in Publishers : Sound(publisher[q])'
  BY <1>2, <1>5 DEF Sound, Asks, Owes, Paid, WasAsked
<1> QED
  BY <1>2, <1>6 DEF PubInv, AskedUsed, EntryKept, EntryAsked, TokenKept, WasAsked

LEMMA StutterPub ==
    ASSUME PubInv, UNCHANGED <<conn, sub_map, token_list, publisher, asked>>
    PROVE  PubInv'
BY DEF PubInv, AskedUsed, EntryKept, EntryAsked, TokenKept, WasAsked, Sound, Asks, Owes, Paid

LEMMA PubInvariant == Spec => []PubInv
<1>1. Init => PubInv
  BY InitPub
<1>2. TypeOK /\ PubInv /\ [Live /\ Next]_vars => PubInv'
  <2> SUFFICES ASSUME TypeOK, PubInv, [Live /\ Next]_vars PROVE PubInv'
    OBVIOUS
  <2>1. CASE Clean
    <3>1. UNCHANGED <<conn, sub_map, token_list, publisher, asked>>
      BY <2>1 DEF Clean, CleanEnd, CleanWake, CleanUnlock, CleanVisit, subVars
    <3> QED
      BY <3>1, StutterPub
  <2>2. CASE StopStart
    <3>1. UNCHANGED <<conn, sub_map, token_list, publisher, asked>>
      BY <2>2 DEF StopStart, StopBegin, Stop, StopCheck, StopJoinCheck, StopSub,
                  StopJoinSub, StopPool, StopJoinPool, StopLeave, connVars, subVars
    <3> QED
      BY <3>1, StutterPub
  <2>3. CASE UNCHANGED vars
    BY <2>3, StutterPub DEF vars, connVars, subVars
  <2> QED
    BY <2>1, <2>2, <2>3, NextSteps, ConnPub, SubscribePub, CleanSubPub, CallPub, PubPub
<1> QED
  BY <1>1, <1>2, TypeCorrect, PTL DEF Spec

\* For any number of publishing threads, subscribers and topics: who subscribed
\* before a publication and stays open is sent it, and nobody else is.
THEOREM PublicationsReach == Spec => []PublishReaches
<1>1. PubInv => PublishReaches
  BY DEF PubInv, PublishReaches, Sound, Asks, Paid, WasAsked, Publishing, IsOpen
<1> QED
  BY <1>1, PubInvariant, PTL

\* No token stays in token_list when every subscription that has it is erased.
THEOREM TokensAreUsed == Spec => []TokensUsed
<1>1. PubInv => TokensUsed
  BY DEF PubInv, TokenKept, TokensUsed
<1> QED
  BY <1>1, PubInvariant, PTL

-----------------------------------------------------------------------------
(* stop() returns when nothing of the server is left to run                  *)

\* How far s has come in stop(): what it has joined and stopped lies behind it.
PastCheck(s) == stopper[s] \in {"sub", "join_sub", "pool", "join_pool", "leave", "returned"}
PastSub(s)   == stopper[s] \in {"pool", "join_pool", "leave", "returned"}
PastPool(s)  == stopper[s] \in {"join_pool", "leave", "returned"}

\* What is behind a caller of stop() has ended.
BehindDone == \A s \in Stoppers :
    /\ PastCheck(s) => cleaner = Ended
    /\ PastSub(s)   => sub_cleaner = Ended
    /\ PastPool(s)  => pool = "stopped"

\* A thread that was joined was joined by a caller that has gone past it.
JoinedBy ==
    /\ "check" \in joined => \E s \in Stoppers : PastCheck(s)
    /\ "sub" \in joined   => \E s \in Stoppers : PastSub(s)
    /\ "thd" \in joined   => \E s \in Stoppers : stopper[s] \in {"leave", "returned"}

\* Under run() main comes when the signal handler is done and finds has_stoped_
\* set; after async_run() the handler waits for ever for the thread it runs on.
TurnsTaken ==
    /\ mode = "run" => stopper["main"] \in {"none", "returned"}
    /\ mode = "run" /\ pool = "stopped" => stopper["signal"] \in {"leave", "returned"}
    /\ mode = "async_run" => stopper["signal"] \notin {"leave", "returned"}
    /\ stopper["signal"] = "returned" => flag["stopped"]
    /\ flag["stopped"] => \E s \in Stoppers : stopper[s] = "returned"
    /\ stopper["main"] \in {"leave", "returned"} => PoolDone

StopInv == BehindDone /\ JoinedBy /\ TurnsTaken /\ (aborted => Overlap)

\* A step of stop() by s leaves the other caller where it is.
LEMMA StopMoves ==
    ASSUME TypeOK, StopStart
    PROVE  \E s \in Stoppers : /\ StopBegin(s) \/ Stop(s)
                               /\ \A r \in Stoppers \ {s} : stopper'[r] = stopper[r]
                               /\ UNCHANGED <<mode, cleaner, sub_cleaner, accepting>>
<1>1. PICK s \in Stoppers : StopBegin(s) \/ Stop(s)
  BY DEF StopStart
<1>2. \A r \in Stoppers \ {s} : stopper'[r] = stopper[r]
  BY <1>1 DEF StopBegin, Stop, StopCheck, StopJoinCheck, StopSub, StopJoinSub, StopPool,
       StopJoinPool, StopLeave, StopStep, TypeOK
<1>3. UNCHANGED <<mode, cleaner, sub_cleaner, accepting>>
  BY <1>1 DEF StopBegin, Stop, StopCheck, StopJoinCheck, StopSub, StopJoinSub, StopPool,
       StopJoinPool, StopLeave, connVars, subVars
<1> QED
  BY <1>1, <1>2, <1>3

LEMMA StopStopInv ==
    ASSUME TypeOK, StopInv, Live, StopStart,
           cleaner.pc = "done" => cleaner = Ended,
           sub_cleaner.pc = "done" => sub_cleaner = Ended
    PROVE  StopInv'
<1>1. PICK s \in Stoppers :
        /\ StopBegin(s) \/ Stop(s)
        /\ \A r \in Stoppers \ {s} : stopper'[r] = stopper[r]
        /\ UNCHANGED <<mode, cleaner, sub_cleaner, accepting>>
  BY StopMoves
<1> USE DEF Stoppers, Ended
<1>2. CASE StopBegin(s)
  <2>1. /\ stopper[s] = "none" /\ MayStop(s)
        /\ stopper'[s] = IF HasStopped THEN "returned" ELSE "check"
        /\ UNCHANGED <<pool, flag, joined, aborted>>
    BY <1>2 DEF StopBegin, StopStep, TypeOK
  <2>2. CASE s = "signal"
    <3>1. pool = "running" /\ stopper'["main"] = stopper["main"]
      BY <1>1, <2>1, <2>2 DEF MayStop
    <3>2. ~HasStopped
      BY <2>1, <2>2, <3>1 DEF StopInv, TurnsTaken, BehindDone, PastPool, HasStopped
    <3>3. stopper'["signal"] = "check"
      BY <2>1, <2>2, <3>2
    <3>4. BehindDone'
      BY <1>1, <2>1, <3>1, <3>3 DEF StopInv, BehindDone, PastCheck, PastSub, PastPool
    <3>5. JoinedBy'
      BY <2>1, <2>2, <3>1, <3>3 DEF StopInv, JoinedBy, PastCheck, PastSub
    <3>6. TurnsTaken'
      BY <1>1, <2>1, <2>2, <3>1, <3>2, <3>3 DEF StopInv, TurnsTaken, BehindDone, PastPool,
         HasStopped, PoolDone
    <3> QED
      BY <2>1, <3>4, <3>5, <3>6 DEF StopInv, Live
  <2>3. CASE s = "main"
    <3>1. stopper'["signal"] = stopper["signal"] /\ (mode = "async_run" \/ PoolDone)
      BY <1>1, <2>1, <2>3 DEF MayStop
    <3>2. mode \in {"run", "async_run"}
      BY ModeAssumption DEF TypeOK
    <3>3. CASE HasStopped
      <4>1. stopper["signal"] = "returned" /\ stopper'["main"] = "returned"
        BY <2>1, <2>3, <3>3 DEF StopInv, TurnsTaken, HasStopped
      <4>2. PoolDone
        BY <3>1, <4>1 DEF StopInv, TurnsTaken
      <4>3. BehindDone'
        BY <1>1, <2>1, <3>1, <4>1 DEF StopInv, BehindDone, PastCheck, PastSub, PastPool
      <4>4. JoinedBy'
        BY <2>1, <2>3, <3>1, <4>1 DEF StopInv, JoinedBy, PastCheck, PastSub
      <4>5. TurnsTaken'
        BY <1>1, <2>1, <3>1, <4>1, <4>2 DEF StopInv, TurnsTaken, PoolDone
      <4> QED
        BY <2>1, <4>3, <4>4, <4>5 DEF StopInv, Live
    <3>4. CASE ~HasStopped
      <4>1. stopper'["main"] = "check"
        BY <2>1, <2>3, <3>4
      <4>2. mode = "async_run"
        <5> SUFFICES ASSUME mode = "run" PROVE FALSE
          BY <3>2
        <5>1. PoolDone
          BY <3>1
        <5>2. stopper["signal"] = "returned"
          BY <5>1 DEF PoolDone, StopInv, TurnsTaken
        <5> QED
          BY <3>4, <5>2 DEF StopInv, TurnsTaken, HasStopped
      <4>3. BehindDone'
        BY <1>1, <2>1, <3>1, <4>1 DEF StopInv, BehindDone, PastCheck, PastSub, PastPool
      <4>4. JoinedBy'
        BY <2>1, <2>3, <3>1, <4>1 DEF StopInv, JoinedBy, PastCheck, PastSub
      <4>5. TurnsTaken'
        BY <1>1, <2>1, <2>3, <3>1, <3>4, <4>1, <4>2 DEF StopInv, TurnsTaken, PoolDone, HasStopped
      <4> QED
        BY <2>1, <4>3, <4>4, <4>5 DEF StopInv, Live
    <3> QED
      BY <3>3, <3>4
  <2> QED
    BY <2>2, <2>3
\* The second of two callers to join a thread finds the first one past it.
<1>two. ASSUME NEW r \in Stoppers, r # s, stopper[s] \notin {"none", "returned"},
              stopper[r] # "none"
        PROVE  mode = "async_run" /\ (stopper'[s] # "none" => Overlap')
  <2>1. mode = "async_run"
    <3> SUFFICES ASSUME mode = "run" PROVE FALSE
      BY ModeAssumption DEF TypeOK
    <3>1. s = "signal" /\ r = "main" /\ stopper["main"] = "returned"
      BY <1>two DEF StopInv, TurnsTaken
    <3>2. PoolDone
      BY <3>1 DEF StopInv, TurnsTaken
    <3> QED
      BY <1>two, <3>1, <3>2 DEF PoolDone
  <2>2. stopper'[r] # "none"
    BY <1>1, <1>two
  <2> QED
    BY <1>1, <1>two, <2>1, <2>2 DEF Overlap
<1>3. CASE StopCheck(s) \/ StopSub(s)
  <2>1. \/ stopper[s] = "check" /\ stopper'[s] = "join_check"
        \/ stopper[s] = "sub" /\ stopper'[s] = "join_sub"
    BY <1>3 DEF StopCheck, StopSub, StopStep, TypeOK
  <2>2. UNCHANGED <<pool, joined, aborted>> /\ flag'["stopped"] = flag["stopped"]
    BY <1>3 DEF StopCheck, StopSub, Raise, TypeOK
  <2>3. BehindDone'
    BY <1>1, <2>1, <2>2 DEF StopInv, BehindDone, PastCheck, PastSub, PastPool
  <2>4. JoinedBy'
    BY <1>1, <2>1, <2>2 DEF StopInv, JoinedBy, PastCheck, PastSub
  <2>5. TurnsTaken'
    BY <1>1, <2>1, <2>2 DEF StopInv, TurnsTaken, PoolDone
  <2> QED
    BY <2>2, <2>3, <2>4, <2>5 DEF StopInv, Live
<1>4. CASE StopJoinCheck(s)
  <2>1. /\ stopper[s] = "join_check" /\ stopper'[s] = "sub"
        /\ UNCHANGED <<pool, flag>> /\ cleaner = Ended
        /\ joined' = joined \cup {"check"}
        /\ aborted' = (aborted \/ "check" \in joined)
    BY <1>4 DEF StopJoinCheck, StopStep, Join, TypeOK
  <2>2. BehindDone'
    BY <1>1, <2>1 DEF StopInv, BehindDone, PastCheck, PastSub, PastPool
  <2>3. JoinedBy'
    BY <1>1, <2>1 DEF StopInv, JoinedBy, PastCheck, PastSub
  <2>4. TurnsTaken'
    BY <1>1, <2>1 DEF StopInv, TurnsTaken, PoolDone
  <2>5. aborted' => Overlap'
    <3> SUFFICES ASSUME "check" \in joined PROVE Overlap'
      BY <2>1 DEF Live
    <3>1. PICK r \in Stoppers : PastCheck(r)
      BY DEF StopInv, JoinedBy
    <3> QED
      BY <1>two, <2>1, <3>1 DEF PastCheck
  <2> QED
    BY <2>2, <2>3, <2>4, <2>5 DEF StopInv
<1>5. CASE StopJoinSub(s)
  <2>1. /\ stopper[s] = "join_sub" /\ stopper'[s] = "pool"
        /\ UNCHANGED <<pool, flag>> /\ sub_cleaner = Ended
        /\ joined' = joined \cup {"sub"}
        /\ aborted' = (aborted \/ "sub" \in joined)
    BY <1>5 DEF StopJoinSub, StopStep, Join, TypeOK
  <2>2. BehindDone'
    BY <1>1, <2>1 DEF StopInv, BehindDone, PastCheck, PastSub, PastPool
  <2>3. JoinedBy'
    BY <1>1, <2>1 DEF StopInv, JoinedBy, PastCheck, PastSub
  <2>4. TurnsTaken'
    BY <1>1, <2>1 DEF StopInv, TurnsTaken, PoolDone
  <2>5. aborted' => Overlap'
    <3> SUFFICES ASSUME "sub" \in joined PROVE Overlap'
      BY <2>1 DEF Live
    <3>1. PICK r \in Stoppers : PastSub(r)
      BY DEF StopInv, JoinedBy
    <3> QED
      BY <1>two, <2>1, <3>1 DEF PastSub
  <2> QED
    BY <2>2, <2>3, <2>4, <2>5 DEF StopInv
<1>6. CASE StopPool(s)
  <2>1. /\ stopper[s] = "pool" /\ pool' = "stopped"
        /\ stopper'[s] = IF mode = "async_run" THEN "join_pool" ELSE "leave"
        /\ UNCHANGED <<flag, joined, aborted>>
    BY <1>6 DEF StopPool, StopStep, TypeOK
  <2>2. BehindDone'
    BY <1>1, <2>1 DEF StopInv, BehindDone, PastCheck, PastSub, PastPool
  <2>3. JoinedBy'
    BY <1>1, <2>1 DEF StopInv, JoinedBy, PastCheck, PastSub
  <2>4. TurnsTaken'
    <3>1. CASE s = "main"
      BY <1>1, <2>1, <3>1, ModeAssumption DEF StopInv, TurnsTaken, PoolDone, TypeOK
    <3>2. CASE s = "signal"
      BY <1>1, <2>1, <3>2, ModeAssumption DEF StopInv, TurnsTaken, PoolDone, TypeOK
    <3> QED
      BY <3>1, <3>2
  <2> QED
    BY <2>1, <2>2, <2>3, <2>4 DEF StopInv, Live
<1>7. CASE StopJoinPool(s)
  <2>1. /\ stopper[s] = "join_pool" /\ stopper'[s] = "leave"
        /\ UNCHANGED <<pool, flag>> /\ PoolDone
        /\ joined' = joined \cup {"thd"}
        /\ aborted' = (aborted \/ "thd" \in joined)
    BY <1>7 DEF StopJoinPool, StopStep, Join, TypeOK
  <2>main. s = "main" /\ stopper'["signal"] = stopper["signal"]
    BY <1>1, <2>1 DEF PoolDone
  <2>2. BehindDone'
    BY <1>1, <2>1 DEF StopInv, BehindDone, PastCheck, PastSub, PastPool
  <2>3. JoinedBy'
    BY <1>1, <2>1 DEF StopInv, JoinedBy, PastCheck, PastSub
  <2>4. TurnsTaken'
    BY <1>1, <2>1, <2>main DEF StopInv, TurnsTaken, PoolDone
  <2>5. aborted' => Overlap'
    <3> SUFFICES ASSUME "thd" \in joined PROVE Overlap'
      BY <2>1 DEF Live
    <3>1. PICK r \in Stoppers : stopper[r] \in {"leave", "returned"}
      BY DEF StopInv, JoinedBy
    <3> QED
      BY <1>two, <2>1, <3>1
  <2> QED
    BY <2>2, <2>3, <2>4, <2>5 DEF StopInv
<1>8. CASE StopLeave(s)
  <2>1. /\ stopper[s] = "leave" /\ stopper'[s] = "returned"
        /\ flag'["stopped"] = TRUE
        /\ UNCHANGED <<pool, joined, aborted>>
    BY <1>8 DEF StopLeave, StopStep, Raise, TypeOK
  <2>2. BehindDone'
    BY <1>1, <2>1 DEF StopInv, BehindDone, PastCheck, PastSub, PastPool
  <2>3. JoinedBy'
    BY <1>1, <2>1 DEF StopInv, JoinedBy, PastCheck, PastSub
  <2>4. TurnsTaken'
    BY <1>1, <2>1 DEF StopInv, TurnsTaken, PoolDone
  <2> QED
    BY <2>1, <2>2, <2>3, <2>4 DEF StopInv, Live
<1> QED
  BY <1>1, <1>2, <1>3, <1>4, <1>5, <1>6, <1>7, <1>8 DEF Stop

LEMMA KeptStopInv ==
    ASSUME TypeOK, StopInv, UNCHANGED stopVars, accepting' \subseteq accepting \/ pool = "running",
           cleaner = Ended => cleaner' = Ended,
           sub_cleaner = Ended => sub_cleaner' = Ended
    PROVE  StopInv'
<1>1. PoolDone => PoolDone'
  BY DEF stopVars, PoolDone
<1> QED
  BY <1>1 DEF StopInv, BehindDone, JoinedBy, TurnsTaken, PastCheck, PastSub, PastPool,
     Overlap, stopVars

\* A cleaning thread visits nobody before its rounds and after them.
EndedInv == /\ cleaner.pc = "done" => cleaner = Ended
            /\ sub_cleaner.pc = "done" => sub_cleaner = Ended

\* However the signal handler's and the destructor's calls of stop() overlap: who
\* returns from it leaves nothing of the server running, and the process ends in
\* a second join only if both are in it after async_run().
THEOREM StopLeavesNothing == Spec => []StopComplete
<1>1. Init => StopInv /\ EndedInv
  BY DEF Init, StopInv, BehindDone, JoinedBy, TurnsTaken, PastCheck, PastSub, PastPool,
     Stoppers, EndedInv, Idle, PoolDone
<1>2. TypeOK /\ StopInv /\ EndedInv /\ [Live /\ Next]_vars => (StopInv /\ EndedInv)'
  <2> SUFFICES ASSUME TypeOK, StopInv, EndedInv, [Live /\ Next]_vars
               PROVE  StopInv' /\ EndedInv'
    OBVIOUS
  <2>1. CASE ConnStep
    <3>1. /\ UNCHANGED <<stopVars, cleaner, sub_cleaner>>
          /\ accepting' \subseteq accepting \/ pool = "running"
      BY <2>1 DEF ConnStep, Accept, Emplace, Close, subVars
    <3> QED
      BY <3>1, KeptStopInv DEF EndedInv
  <2>2. CASE Clean
    <3>1. UNCHANGED <<stopVars, accepting, sub_cleaner>>
      BY <2>2 DEF Clean, CleanEnd, CleanWake, CleanUnlock, CleanVisit, subVars
    <3>2. cleaner.pc # "done"
      BY <2>2 DEF Clean, CleanEnd, CleanWake, CleanUnlock, CleanVisit
    <3>3. cleaner'.pc = "done" => cleaner' = Ended
      <4>1. CASE \E e \in cleaner.visit : CleanVisit(e)
        <5>1. cleaner'.pc = "visit"
          BY <4>1 DEF CleanVisit, TypeOK, Visitor
        <5> QED
          BY <5>1
      <4> QED
        BY <2>2, <4>1 DEF Clean, CleanEnd, CleanWake, CleanUnlock, Idle
    <3> QED
      BY <3>1, <3>2, <3>3, KeptStopInv DEF EndedInv, Ended
  <2>3. CASE CleanSub
    <3>1. UNCHANGED <<stopVars, accepting, cleaner>>
      BY <2>3 DEF CleanSub, SubEnd, SubWake, SubUnlock, SubVisit, connVars
    <3>2. sub_cleaner.pc # "done"
      BY <2>3 DEF CleanSub, SubEnd, SubWake, SubUnlock, SubVisit
    <3>3. sub_cleaner'.pc = "done" => sub_cleaner' = Ended
      <4>1. CASE \E e \in sub_cleaner.visit : SubVisit(e)
        <5>1. sub_cleaner'.pc = "visit"
          BY <4>1 DEF SubVisit, TypeOK, Visitor
        <5> QED
          BY <5>1
      <4> QED
        BY <2>3, <4>1 DEF CleanSub, SubEnd, SubWake, SubUnlock, Idle
    <3> QED
      BY <3>1, <3>2, <3>3, KeptStopInv DEF EndedInv, Ended
  <2>4. CASE SubscribeStep \/ CallStep \/ PubStep
    <3>1. UNCHANGED <<stopVars, accepting, cleaner, sub_cleaner>>
      BY <2>4 DEF SubscribeStep, Subscribe, CallStep, PubCall, PubStep, Publish, PubLock,
                  PubReturn, PubSend, connVars
    <3> QED
      BY <3>1, KeptStopInv DEF EndedInv
  <2>5. CASE UNCHANGED vars
    <3>1. UNCHANGED <<stopVars, accepting, cleaner, sub_cleaner>>
      BY <2>5 DEF vars, connVars, subVars
    <3> QED
      BY <3>1, KeptStopInv DEF EndedInv
  <2>6. CASE Live /\ StopStart
    <3>1. UNCHANGED <<cleaner, sub_cleaner>>
      BY <2>6, StopMoves
    <3> QED
      BY <2>6, <3>1, StopStopInv DEF EndedInv
  <2> QED
    BY <2>1, <2>2, <2>3, <2>4, <2>5, <2>6, NextSteps
<1>3. StopInv => StopComplete
  BY DEF StopInv, BehindDone, TurnsTaken, PastCheck, PastSub, PastPool, StopComplete
<1> QED
  BY <1>1, <1>2, <1>3, TypeCorrect, PTL DEF Spec

=============================================================================
