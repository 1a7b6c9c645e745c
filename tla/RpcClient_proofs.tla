-------------------------- MODULE RpcClient_proofs --------------------------
(****************************************************************************)
(* What holds of RpcClient for every number of threads, keys and calls and  *)
(* whatever the link and the users do: its types; how its calls are         *)
(* settled; and, by counting what the reactor, the queue and Io's hands     *)
(* hold of the read loops, that a connected client reads, that no connect() *)
(* starts two loops, that a callback is called once for each of them, and   *)
(* that a destroyed client is left alone.                                   *)
(****************************************************************************)
EXTENDS RpcClient, SequenceTheorems, FiniteSetTheorems, TLAPS

USE DEF otherVars, Bounded

-----------------------------------------------------------------------------
(* Messages, steps and completions have the types their names say.         *)

LEMMA Constructors ==
    /\ NoMessage \in Message /\ HeadRead \in Read
    /\ \A id \in CallIds : Request(id) \in Message
    /\ \A k \in Keys : Subscription(k) \in Message
    /\ \A m \in Message : BodyRead(m) \in Read
    /\ \A m \in Message : WriteOf(m) \in Step
    /\ \A k \in Keys : [Do("token") EXCEPT !.msg = Subscription(k)] \in Step
    /\ \A m \in Message, ec \in BOOLEAN : CallBackOf(m, ec) \in Step
    /\ \A op \in {"register", "close", "clear_outbox", "clear_maps",
                  "error_callback", "fail_callbacks", "do_read",
                  "stop", "join"} : Do(op) \in Step
    /\ Poll \in Completion /\ Event \in Completion
    /\ \A op \in {"connect", "write", "head", "body"}, m \in Message,
          ec \in BOOLEAN : Done(op, m, ec) \in Completion
<1>1. NoMessage \in Message
  BY DEF NoMessage, Request, Message
<1> QED
  BY <1>1 DEF HeadRead, BodyRead, Read, Request, Subscription, Message,
     WriteOf, CallBackOf, Do, Step, Done, Poll, Event, Completion

LEMMA ReadDone ==
    ASSUME NEW r \in Read
    PROVE  /\ r.op \in {"head", "body"} /\ r.msg \in Message
           /\ r \in Completion /\ Failed(r) \in Completion
BY DEF Read, Done, Failed, Completion

LEMMA StepParts ==
    ASSUME NEW s \in Seq(Step), s # <<>>
    PROVE  Head(s).msg \in Message /\ Head(s).ec \in BOOLEAN /\ Tail(s) \in Seq(Step)
<1>1. Head(s) \in Step /\ Tail(s) \in Seq(Step)
  BY HeadTailProperties
<1> QED
  BY <1>1, Constructors DEF Step

LEMMA CompletionParts ==
    ASSUME NEW s \in Seq(Completion), s # <<>>
    PROVE  Head(s).msg \in Message /\ Tail(s) \in Seq(Completion)
<1>1. Head(s) \in Completion /\ Tail(s) \in Seq(Completion)
  BY HeadTailProperties
<1> QED
  BY <1>1 DEF Completion

LEMMA SequenceOfOne ==
    ASSUME NEW S, NEW e \in S
    PROVE  <<e>> \in Seq(S)
OBVIOUS

LEMMA WriteFailures ==
    ASSUME NEW s \in Seq(Message)
    PROVE  [i \in DOMAIN s |-> Done("write", s[i], TRUE)] \in Seq(Completion)
<1>1. \A i \in 1 .. Len(s) : Done("write", s[i], TRUE) \in Completion
  BY ElementOfSeq, Constructors
<1> DEFINE failed == [i \in DOMAIN s |-> Done("write", s[i], TRUE)]
           n == Len(s)
<1>2. n \in Nat /\ DOMAIN s = 1 .. n
  BY LenProperties
<1>3. failed \in [1 .. n -> Completion]
  BY <1>1, <1>2
<1> HIDE DEF failed, n
<1>4. failed \in Seq(Completion)
  BY <1>2, <1>3
<1> QED
  BY <1>4 DEF failed

LEMMA ReadFailures ==
    ASSUME NEW s \in Seq(Read)
    PROVE  [i \in DOMAIN s |-> Failed(s[i])] \in Seq(Completion)
<1>1. \A i \in 1 .. Len(s) : Failed(s[i]) \in Completion
  BY ElementOfSeq, ReadDone
<1> DEFINE failed == [i \in DOMAIN s |-> Failed(s[i])]
           n == Len(s)
<1>2. n \in Nat /\ DOMAIN s = 1 .. n
  BY LenProperties
<1>3. failed \in [1 .. n -> Completion]
  BY <1>1, <1>2
<1> HIDE DEF failed, n
<1>4. failed \in Seq(Completion)
  BY <1>2, <1>3
<1> QED
  BY <1>4 DEF failed

LEMMA CancelledType == TypeOK => Cancelled \in Seq(Completion)
<1> SUFFICES ASSUME TypeOK PROVE Cancelled \in Seq(Completion)
  OBVIOUS
<1> DEFINE reads    == [i \in DOMAIN reader |-> Failed(reader[i])]
           connects == IF sock = "connecting"
                       THEN <<Done("connect", NoMessage, TRUE)>> ELSE <<>>
           writes   == [i \in DOMAIN writing |-> Done("write", writing[i], TRUE)]
<1>1. reads \in Seq(Completion)
  BY ReadFailures DEF TypeOK
<1>2. connects \in Seq(Completion)
  <2>1. <<Done("connect", NoMessage, TRUE)>> \in Seq(Completion)
    BY Constructors, SequenceOfOne
  <2>2. CASE sock = "connecting"
    BY <2>1, <2>2
  <2>3. CASE sock # "connecting"
    BY <2>3
  <2> QED
    BY <2>2, <2>3
<1>3. writes \in Seq(Completion)
  BY WriteFailures DEF TypeOK
<1> HIDE DEF reads, connects, writes
<1>4. reads \o connects \in Seq(Completion)
  BY <1>1, <1>2, ConcatProperties
<1>5. (reads \o connects) \o writes \in Seq(Completion)
  BY <1>3, <1>4, ConcatProperties
<1> QED
  BY <1>5 DEF Cancelled, reads, connects, writes

-----------------------------------------------------------------------------
(* The operations on the socket keep its variables typed.                  *)

LEMMA StartWriteType ==
    ASSUME TypeOK, NEW m \in Message, NEW queue \in Seq(Completion),
           StartWrite(m, queue)
    PROVE  writing' \in Seq(Message) /\ ready' \in Seq(Completion)
<1>1. /\ Append(queue, Done("write", m, TRUE)) \in Seq(Completion)
      /\ Append(writing, m) \in Seq(Message)
      /\ writing \in Seq(Message)
  BY Constructors, AppendProperties DEF TypeOK
<1>2. CASE Waits
  BY <1>1, <1>2 DEF StartWrite
<1>3. CASE ~Waits
  BY <1>1, <1>3 DEF StartWrite
<1> QED
  BY <1>2, <1>3

LEMMA ReadResultsType ==
    ASSUME TypeOK, NEW r \in Read, NEW c \in ReadResults(r)
    PROVE  /\ c \in Completion
           /\ Consume(c) => inbound' \in Seq(Message)
<1>1. inbound \in Seq(Message) /\ r.op \in {"head", "body"} /\ r.msg \in Message
  BY DEF TypeOK, Read
<1>2. inbound # <<>> => Head(inbound) \in Message
  BY <1>1, HeadTailProperties
<1>3. c \in Completion
  <2>1. CASE c = Done(r.op, r.msg, TRUE)
    BY <1>1, <2>1, Constructors
  <2>2. CASE c # Done(r.op, r.msg, TRUE)
    <3>1. PICK m \in IF inbound = <<>> THEN {} ELSE {Head(inbound)} :
             c = Done(r.op, IF r.op = "head" THEN m ELSE r.msg, FALSE)
      BY <2>2 DEF ReadResults
    <3>2. m \in Message
      BY <1>2, <3>1
    <3>3. (IF r.op = "head" THEN m ELSE r.msg) \in Message
      BY <1>1, <3>2
    <3> QED
      BY <1>1, <3>1, <3>3, Constructors
  <2> QED
    BY <2>1, <2>2
<1>4. ASSUME Consume(c) PROVE inbound' \in Seq(Message)
  <2>1. CASE c.op = "body" /\ ~c.ec
    <3>1. c # Done(r.op, r.msg, TRUE)
      BY <2>1 DEF Done
    <3>2. inbound # <<>>
      BY <3>1 DEF ReadResults
    <3> QED
      BY <1>1, <1>4, <2>1, <3>2, HeadTailProperties DEF Consume
  <2>2. CASE ~(c.op = "body" /\ ~c.ec)
    BY <1>1, <1>4, <2>2, EmptySeq DEF Consume
  <2> QED
    BY <2>1, <2>2
<1> QED
  BY <1>3, <1>4

LEMMA StartReadType ==
    ASSUME TypeOK, NEW r \in Read, NEW queue \in Seq(Completion),
           StartRead(r, queue)
    PROVE  /\ reader' \in Seq(Read) /\ ready' \in Seq(Completion)
           /\ inbound' \in Seq(Message)
<1>1. /\ Append(queue, Failed(r)) \in Seq(Completion)
      /\ Append(reader, r) \in Seq(Read)
      /\ reader \in Seq(Read) /\ inbound \in Seq(Message)
  BY ReadDone, AppendProperties DEF TypeOK
<1>2. CASE Waits /\ reader' = Append(reader, r) /\ ready' = queue /\ UNCHANGED inbound
  BY <1>1, <1>2
<1>3. ASSUME NEW c \in ReadResults(r), ready' = Append(queue, c), Consume(c),
             UNCHANGED reader
      PROVE  /\ reader' \in Seq(Read) /\ ready' \in Seq(Completion)
             /\ inbound' \in Seq(Message)
  BY <1>1, <1>3, ReadResultsType, AppendProperties
<1>4. CASE /\ ready' = Append(queue, Done(r.op, r.msg, TRUE))
           /\ UNCHANGED <<reader, inbound>>
  BY <1>1, <1>4 DEF Failed
<1> QED
  BY <1>2, <1>3, <1>4 DEF StartRead

LEMMA AbandonSocketType ==
    ASSUME TypeOK, NEW state \in SocketStates, NEW queue \in Seq(Completion),
           AbandonSocket(state, queue)
    PROVE  /\ sock' \in SocketStates /\ reader' \in Seq(Read)
           /\ writing' \in Seq(Message) /\ ready' \in Seq(Completion)
           /\ inbound' \in Seq(Message) /\ peer' \subseteq Message
<1>1. queue \o Cancelled \in Seq(Completion)
  BY CancelledType, ConcatProperties
<1> QED
  BY <1>1, EmptySeq DEF AbandonSocket

\* A thread's remaining steps stay typed when it is given more of them.
LEMMA StartType ==
    ASSUME TypeOK, NEW t \in Threads, NEW steps \in Seq(Step), Start(t, steps)
    PROVE  todo' \in [Threads -> Seq(Step)]
BY DEF TypeOK, Start

LEMMA ContinueType ==
    ASSUME TypeOK, NEW t \in Threads, todo[t] # <<>>, NEW steps \in Seq(Step),
           Continue(t, steps)
    PROVE  todo' \in [Threads -> Seq(Step)]
<1>1. todo[t] \in Seq(Step) /\ Tail(todo[t]) \in Seq(Step)
  BY StepParts DEF TypeOK
<1>2. steps \o Tail(todo[t]) \in Seq(Step)
  BY <1>1, ConcatProperties
<1> QED
  BY <1>2 DEF TypeOK, Continue

-----------------------------------------------------------------------------
(* TypeOK in the parts that actions change together                        *)

CallType  == /\ fu_id \in 0 .. MaxFutures
             /\ callback_id \in {0} \cup CallbackIds
             /\ future_map \subseteq FutureIds
             /\ callback_map \subseteq CallbackIds
             /\ timed_out \subseteq CallbackIds
             /\ answers \in [CallIds -> Seq(Outcomes)]
ConnType  == /\ has_connected \in BOOLEAN /\ reconnect_cnt \in 0 .. ReconnectCount
             /\ life \in {"running", "closing", "stopped", "destroyed"}
SockType  == sock \in SocketStates /\ reader \in Seq(Read) /\ writing \in Seq(Message)
QueueType == ready \in Seq(Completion) /\ outbox \in Seq(Message)
SubType   == sub_map \subseteq Keys /\ key_token_set \subseteq Keys
TodoType  == todo \in [Threads -> Seq(Step)]
PeerType  == inbound \in Seq(Message) /\ peer \subseteq Message
SpentType == /\ aborted \in BOOLEAN
             /\ spent \in [Bounded -> Nat]

AllTypes == /\ CallType /\ ConnType /\ SockType /\ QueueType
            /\ SubType /\ TodoType /\ PeerType /\ SpentType

LEMMA TypeParts == (TypeOK <=> AllTypes) /\ (TypeOK' <=> AllTypes')
BY DEF AllTypes, TypeOK, CallType, ConnType, SockType, QueueType, SubType, TodoType,
       PeerType, SpentType

LEMMA Unchanged ==
    ASSUME TypeOK
    PROVE  /\ UNCHANGED callVars => CallType'
           /\ UNCHANGED connVars => ConnType'
           /\ UNCHANGED sockVars => SockType'
           /\ UNCHANGED <<ready, outbox>> => QueueType'
           /\ UNCHANGED subVars => SubType'
           /\ UNCHANGED todo => TodoType'
           /\ UNCHANGED peerVars => PeerType'
           /\ UNCHANGED <<aborted, spent>> => SpentType'
BY TypeParts DEF AllTypes, CallType, ConnType, SockType, QueueType, SubType,
   TodoType, PeerType, SpentType, callVars, connVars, sockVars, subVars, peerVars

LEMMA SpendType ==
    ASSUME TypeOK,
           NEW what \in Bounded,
           NEW limit, Spend(what, limit), UNCHANGED aborted
    PROVE  SpentType'
BY DEF TypeOK, Spend, SpentType

LEMMA InitType == Init => TypeOK
<1> SUFFICES ASSUME Init PROVE TypeOK
  OBVIOUS
<1>1. CallType
  BY CallAssumption DEF Init, CallType, CallIds
<1>2. /\ ConnType
      /\ SockType
      /\ SpentType
  <2>1. ReconnectCount \in Nat
    BY EnvironmentAssumption
  <2>2. ConnType
    <3>1. has_connected = FALSE /\ reconnect_cnt = ReconnectCount
      BY DEF Init
    <3>2. has_connected \in BOOLEAN
      BY <3>1
    <3>3. reconnect_cnt \in 0 .. ReconnectCount
      BY <2>1, <3>1
    <3>4. life \in {"running", "closing", "stopped", "destroyed"}
      BY DEF Init
    <3> QED
      BY <3>2, <3>3, <3>4 DEF ConnType
  <2>3. SockType
    BY EmptySeq DEF Init, SockType, SocketStates
  <2>4. SpentType
    BY DEF Init, SpentType
  <2> QED
    BY <2>2, <2>3, <2>4
<1>3. QueueType
  BY Constructors, SequenceOfOne, EmptySeq DEF Init, QueueType
<1>4. SubType /\ TodoType /\ PeerType
  BY DEF Init, SubType, TodoType, PeerType
<1> QED
  BY <1>1, <1>2, <1>3, <1>4, TypeParts DEF AllTypes

-----------------------------------------------------------------------------
(* The steps of a user thread                                              *)

LEMMA UserTypes == ASSUME TypeOK, NEW u \in Users, UserNext(u) PROVE TypeOK'
<1>0. u \in Threads
  BY DEF Threads
<1>1. CASE AsyncCallFuture(u)
  <2> DEFINE new == fu_id + 1
  <2>1. new \in FutureIds
    <3>1. fu_id \in 0 .. MaxFutures
      BY DEF TypeOK
    <3> QED
      BY <1>1, <3>1, CallAssumption DEF AsyncCallFuture, NextFutureId, FutureIds
  <2>2. <<WriteOf(Request(new))>> \in Seq(Step)
    BY <2>1, Constructors, SequenceOfOne DEF CallIds
  <2>3. TodoType'
    BY <1>0, <1>1, <2>2, StartType DEF AsyncCallFuture, NextFutureId, TodoType
  <2>4. CallType'
    BY <1>1, <2>1, CallAssumption DEF TypeOK, AsyncCallFuture, NextFutureId, CallType,
       FutureIds
  <2> QED
    BY <1>1, <2>3, <2>4, Unchanged, TypeParts DEF AllTypes, AsyncCallFuture
<1>2. CASE AsyncCallCallback(u)
  <2>1. <<Do("register")>> \in Seq(Step)
    BY Constructors, SequenceOfOne
  <2>2. TodoType' /\ SpentType'
    BY <1>0, <1>2, <2>1, StartType, SpendType DEF AsyncCallCallback, TodoType
  <2> QED
    BY <1>2, <2>2, Unchanged, TypeParts DEF AllTypes, AsyncCallCallback
<1>3. CASE RegisterCallback(u)
  <2>1. NextCallbackId \in CallbackIds
    <3>1. callback_id \in {0} \cup CallbackIds
      BY DEF TypeOK
    <3> QED
      BY <3>1, CallAssumption DEF NextCallbackId, cb_flag, CallbackIds
  <2>2. <<WriteOf(Request(NextCallbackId))>> \in Seq(Step)
    BY <2>1, Constructors, SequenceOfOne DEF CallIds
  <2>3. TodoType'
    BY <1>0, <1>3, <2>2, ContinueType DEF RegisterCallback, At, TodoType
  <2>4. CallType'
    BY <1>3, <2>1, TypeParts DEF AllTypes, RegisterCallback, CallType
  <2> QED
    BY <1>3, <2>3, <2>4, Unchanged, TypeParts DEF AllTypes, RegisterCallback
<1>4. ASSUME NEW k \in Keys, Subscribe(u, k) PROVE TypeOK'
  <2> DEFINE sent == WriteOf(Subscription(k))
             kept == [Do("token") EXCEPT !.msg = Subscription(k)]
  <2>1. sent \in Step /\ kept \in Step
    BY Constructors
  <2> HIDE DEF sent, kept
  <2>2. <<sent, kept>> \in Seq(Step)
    BY <2>1
  <2>3. TodoType'
    BY <1>0, <1>4, <2>2, StartType DEF Subscribe, TodoType, sent, kept
  <2>4. SubType'
    BY <1>4, TypeParts DEF AllTypes, Subscribe, SubType
  <2> QED
    BY <1>4, <2>3, <2>4, Unchanged, TypeParts DEF AllTypes, Subscribe
<1>5. CASE RecordToken(u)
  <2>1. TodoType'
    BY <1>0, <1>5, EmptySeq, ContinueType DEF RecordToken, At, TodoType
  <2>2. Head(todo[u]).msg.key \in Keys
    <3>1. Head(todo[u]) \in Step /\ Head(todo[u]).op = "token"
      BY <1>0, <1>5, HeadTailProperties DEF RecordToken, At, TypeOK
    <3> QED
      BY <3>1 DEF Step, Subscription
  <2>3. SubType'
    BY <1>5, <2>2, TypeParts DEF AllTypes, RecordToken, SubType
  <2> QED
    BY <1>5, <2>1, <2>3, Unchanged, TypeParts DEF AllTypes, RecordToken
<1>6. CASE Connect(u)
  <2>1. Append(ready, Done("connect", NoMessage, TRUE)) \in Seq(Completion)
    BY Constructors, AppendProperties DEF TypeOK
  <2>2. SpentType'
    BY <1>6, SpendType DEF Connect
  <2>3. SockType' /\ QueueType'
    BY <1>6, <2>1, TypeParts DEF AllTypes, Connect, SockType, QueueType, SocketStates
  <2> QED
    BY <1>6, <2>2, <2>3, Unchanged, TypeParts DEF AllTypes, Connect
<1>7. CASE UserClose(u)
  <2>1. <<Do("close")>> \in Seq(Step)
    BY Constructors, SequenceOfOne
  <2>2. TodoType' /\ SpentType'
    BY <1>0, <1>7, <2>1, StartType, SpendType DEF UserClose, TodoType
  <2> QED
    BY <1>7, <2>2, Unchanged, TypeParts DEF AllTypes, UserClose
<1>8. CASE Destroy(u)
  <2>1. <<Do("close"), Do("stop"), Do("join")>> \in Seq(Step)
    <3>1. Do("close") \in Step /\ Do("stop") \in Step /\ Do("join") \in Step
      BY Constructors
    <3> QED
      BY <3>1
  <2>2. TodoType'
    BY <1>0, <1>8, <2>1, StartType DEF Destroy, TodoType
  <2>3. ConnType' /\ QueueType'
    BY <1>8, TypeParts DEF AllTypes, Destroy, ConnType, QueueType
  <2> QED
    BY <1>8, <2>2, <2>3, Unchanged, TypeParts DEF AllTypes, Destroy
<1> QED
  BY <1>1, <1>2, <1>3, <1>4, <1>5, <1>6, <1>7, <1>8 DEF UserNext

\* ForgetCalls tells every pending future that it was dropped.
LEMMA ForgetCallsType ==
    ASSUME TypeOK, ForgetCalls, UNCHANGED <<fu_id, callback_id, timed_out>>
    PROVE  CallType'
BY AppendProperties DEF ForgetCalls, CallType, TypeOK, Outcomes

LEMMA DestructionTypes ==
    ASSUME TypeOK, NEW u \in Users, Stop(u) \/ Join(u)
    PROVE  TypeOK'
<1>0. u \in Threads
  BY DEF Threads
<1>1. TodoType'
  BY <1>0, EmptySeq, ContinueType DEF Stop, Join, At, TodoType
<1>2. ConnType'
  BY TypeParts DEF AllTypes, Stop, Join, ConnType
<1>3. CASE Stop(u)
  <2>1. QueueType'
    BY <1>3, TypeParts DEF AllTypes, Stop, QueueType
  <2> QED
    BY <1>1, <1>2, <1>3, <2>1, Unchanged, TypeParts DEF AllTypes, Stop
<1>4. CASE Join(u)
  <2>1. CallType'
    BY <1>4, ForgetCallsType DEF Join
  <2>2. SockType' /\ QueueType' /\ PeerType'
    BY <1>4, Constructors, EmptySeq DEF Join, SockType, SocketStates, QueueType, PeerType
  <2> QED
    BY <1>1, <1>2, <1>4, <2>1, <2>2, Unchanged, TypeParts DEF AllTypes, Join
<1> QED
  BY <1>3, <1>4

-----------------------------------------------------------------------------
(* The steps that users and handlers share                                 *)

LEMMA SharedTypes == ASSUME TypeOK, NEW t \in Threads, SharedNext(t) PROVE TypeOK'
<1>1. CASE Write(t)
  <2> DEFINE m == Head(todo[t]).msg
  <2>1. m \in Message
    BY <1>1, StepParts DEF Write, At, TypeOK
  <2>2. TodoType'
    BY <1>1, EmptySeq, ContinueType DEF Write, At, TodoType
  <2>3. Append(outbox, m) \in Seq(Message)
    BY <2>1, AppendProperties DEF TypeOK
  <2>4. writing' \in Seq(Message) /\ ready' \in Seq(Completion)
    <3>1. ready \in Seq(Completion) /\ writing \in Seq(Message)
      BY DEF TypeOK
    <3>2. CASE outbox = <<>>
      <4>1. StartWrite(m, ready)
        BY <1>1, <3>2 DEF Write, WriteIfFirst
      <4> QED
        BY <2>1, <3>1, <4>1, StartWriteType
    <3>3. CASE outbox # <<>>
      BY <1>1, <3>1, <3>3 DEF Write, WriteIfFirst
    <3> QED
      BY <3>2, <3>3
  <2>5. SockType' /\ QueueType'
    BY <1>1, <2>3, <2>4, TypeParts DEF AllTypes, Write, SockType, QueueType
  <2> QED
    BY <1>1, <2>2, <2>5, Unchanged, TypeParts DEF AllTypes, Write
<1>2. CASE Close(t)
  <2>1. CASE ~has_connected
    <3>1. TodoType'
      BY <1>2, <2>1, EmptySeq, ContinueType DEF Close, At, TodoType
    <3>2. UNCHANGED <<ready, outbox, aborted, spent>> /\ UNCHANGED connVars
      BY <1>2, <2>1 DEF Close, connVars
    <3> QED
      BY <1>2, <2>1, <3>1, <3>2, Unchanged, TypeParts DEF AllTypes, Close
  <2>2. CASE has_connected
    <3>1. <<Do("clear_outbox"), Do("clear_maps")>> \in Seq(Step)
      <4>1. Do("clear_outbox") \in Step /\ Do("clear_maps") \in Step
        BY Constructors
      <4> QED
        BY <4>1
    <3>2. TodoType'
      BY <1>2, <2>2, <3>1, ContinueType DEF Close, At, TodoType
    <3>3. AbandonSocket("closed", ready) /\ ready \in Seq(Completion)
      BY <1>2, <2>2 DEF Close, TypeOK
    <3>4. SockType' /\ PeerType' /\ ready' \in Seq(Completion)
      BY <3>3, AbandonSocketType DEF SockType, PeerType, SocketStates
    <3>5. ConnType' /\ QueueType'
      <4>1. has_connected' = FALSE /\ UNCHANGED <<reconnect_cnt, outbox>>
        BY <1>2, <2>2 DEF Close
      <4>2. has_connected' \in BOOLEAN
        BY <4>1
      <4> QED
        BY <1>2, <2>2, <3>4, <4>1, <4>2 DEF TypeOK, ConnType, QueueType, Close
    <3> QED
      BY <1>2, <3>2, <3>4, <3>5, Unchanged, TypeParts DEF AllTypes, Close
  <2> QED
    BY <2>1, <2>2
<1>3. CASE ClearOutbox(t)
  <2>1. TodoType'
    BY <1>3, EmptySeq, ContinueType DEF ClearOutbox, At, TodoType
  <2>2. QueueType'
    BY <1>3, EmptySeq DEF ClearOutbox, QueueType, TypeOK
  <2> QED
    BY <1>3, <2>1, <2>2, Unchanged, TypeParts DEF AllTypes, ClearOutbox
<1>4. CASE ClearMaps(t)
  <2>1. TodoType'
    BY <1>4, EmptySeq, ContinueType DEF ClearMaps, At, TodoType
  <2>2. CallType'
    BY <1>4, ForgetCallsType DEF ClearMaps
  <2> QED
    BY <1>4, <2>1, <2>2, Unchanged, TypeParts DEF AllTypes, ClearMaps
<1>5. CASE ErrorCallback(t)
  <2>1. TodoType'
    BY <1>5, EmptySeq, ContinueType DEF ErrorCallback, At, TodoType
  <2>2. SockType' /\ PeerType' /\ QueueType'
    <3>1. CASE EnableReconnect
      <4>1. AbandonSocket("connecting", ready) /\ ready \in Seq(Completion)
        BY <1>5, <3>1 DEF ErrorCallback, AsyncReconnect, TypeOK
      <4>2. SockType' /\ PeerType' /\ ready' \in Seq(Completion)
        BY <4>1, AbandonSocketType DEF SockType, PeerType, SocketStates
      <4> QED
        BY <1>5, <4>2 DEF ErrorCallback, QueueType, TypeOK
    <3>2. CASE ~EnableReconnect
      BY <1>5, <3>2, Unchanged DEF ErrorCallback
    <3> QED
      BY <3>1, <3>2
  <2> QED
    BY <1>5, <2>1, <2>2, Unchanged, TypeParts DEF AllTypes, ErrorCallback
<1> QED
  BY <1>1, <1>2, <1>3, <1>4, <1>5 DEF SharedNext

-----------------------------------------------------------------------------
(* The handlers                                                            *)

\* What a handler knows when it starts
LEMMA HandlesType ==
    ASSUME TypeOK, NEW op, Handles(op)
    PROVE  /\ Io \in Threads /\ todo[Io] = <<>>
           /\ Tail(ready) \in Seq(Completion) /\ Head(ready).msg \in Message
           /\ outbox \in Seq(Message)
BY CompletionParts DEF Handles, Free, Idle, Threads, TypeOK

\* The steps a handler starts with
LEMMA HandlerSteps ==
    /\ <<Do("close"), Do("error_callback")>> \in Seq(Step)
    /\ <<Do("fail_callbacks"), Do("close"), Do("error_callback")>> \in Seq(Step)
    /\ \A m \in Message : /\ <<CallBackOf(m, TRUE)>> \in Seq(Step)
                          /\ <<CallBackOf(m, TRUE), Do("close"),
                               Do("error_callback")>> \in Seq(Step)
                          /\ BodySteps(m) \subseteq Seq(Step)
<1>1. /\ Do("close") \in Step /\ Do("error_callback") \in Step
      /\ Do("fail_callbacks") \in Step /\ Do("do_read") \in Step
  BY Constructors
<1>2. ASSUME NEW m \in Message
      PROVE  CallBackOf(m, TRUE) \in Step /\ CallBackOf(m, FALSE) \in Step
  BY Constructors
<1>3. ASSUME NEW m \in Message, NEW steps \in BodySteps(m)
      PROVE  steps \in Seq(Step)
  <2>1. PICK first \in IF m.type = "req_res" THEN {<<CallBackOf(m, FALSE)>>}
                                            ELSE CallbackSub :
           steps = first \o <<Do("do_read")>>
    BY <1>3 DEF BodySteps
  <2>2. first \in Seq(Step)
    <3>1. <<CallBackOf(m, FALSE)>> \in Seq(Step)
      BY <1>2, SequenceOfOne
    <3>2. <<Do("error_callback")>> \in Seq(Step) /\ <<>> \in Seq(Step)
      BY <1>1, SequenceOfOne, EmptySeq
    <3> QED
      BY <2>1, <3>1, <3>2 DEF CallbackSub
  <2>3. <<Do("do_read")>> \in Seq(Step)
    BY <1>1, SequenceOfOne
  <2> QED
    BY <2>1, <2>2, <2>3, ConcatProperties
<1>4. \A a, b, c \in Step : /\ <<a>> \in Seq(Step) /\ <<a, b>> \in Seq(Step)
                           /\ <<a, b, c>> \in Seq(Step)
  OBVIOUS
<1> QED
  BY <1>1, <1>2, <1>3, <1>4

LEMMA OrderSteps ==
    ASSUME TypeOK, NEW order \in Orders
    PROVE  <<Do("do_read")>> \o [i \in DOMAIN order |-> WriteOf(Subscription(order[i]))]
             \in Seq(Step)
<1> DEFINE n == Cardinality(key_token_set)
           resent == [i \in DOMAIN order |-> WriteOf(Subscription(order[i]))]
<1>1. n \in Nat
  BY KeyAssumption, FS_Subset, FS_CardinalityType DEF TypeOK
<1>2. order \in [1 .. n -> Keys]
  BY DEF Orders, TypeOK
<1>3. \A i \in 1 .. n : WriteOf(Subscription(order[i])) \in Step
  BY <1>2, Constructors
<1>4. resent \in [1 .. n -> Step]
  BY <1>2, <1>3
<1> HIDE DEF n, resent
<1>5. resent \in Seq(Step)
  BY <1>1, <1>4
<1>6. <<Do("do_read")>> \in Seq(Step)
  BY Constructors, SequenceOfOne
<1> QED
  BY <1>5, <1>6, ConcatProperties DEF resent

LEMMA ConnectHandlerTypes ==
    ASSUME TypeOK,
           OnConnectIgnored \/ OnConnectFailed \/ \E o \in Orders : OnConnected(o)
    PROVE  TypeOK'
<1>1. CASE OnConnectIgnored
  <2>1. QueueType'
    BY <1>1, HandlesType DEF OnConnectIgnored, QueueType
  <2> QED
    BY <1>1, <2>1, Unchanged, TypeParts DEF AllTypes, OnConnectIgnored
<1>2. CASE OnConnectFailed
  <2>1. Tail(ready) \in Seq(Completion) /\ outbox \in Seq(Message)
    BY <1>2, HandlesType DEF OnConnectFailed
  <2>2. CASE reconnect_cnt <= 0
    <3>1. reconnect_cnt \in 0 .. ReconnectCount /\ ReconnectCount \in Nat
      BY EnvironmentAssumption DEF TypeOK
    <3>2. /\ ready' = Tail(ready)
          /\ UNCHANGED <<has_connected, reconnect_cnt, life, outbox, todo, aborted, spent>>
          /\ UNCHANGED <<sock, reader, writing>> /\ UNCHANGED peerVars
          /\ UNCHANGED callVars /\ UNCHANGED subVars
      BY <1>2, <2>2, <3>1 DEF OnConnectFailed, sockVars
    <3>3. QueueType'
      BY <2>1, <3>2 DEF QueueType
    <3>4. UNCHANGED connVars /\ UNCHANGED sockVars
      BY <3>2 DEF connVars, sockVars
    <3> QED
      BY <3>2, <3>3, <3>4, Unchanged, TypeParts DEF AllTypes
  <2>3. CASE ~(reconnect_cnt <= 0)
    <3>1. /\ AbandonSocket("connecting", Tail(ready))
          /\ reconnect_cnt' = IF reconnect_cnt = Endless THEN Endless
                              ELSE reconnect_cnt - 1
          /\ UNCHANGED <<has_connected, life, outbox, todo, aborted, spent>>
          /\ UNCHANGED callVars /\ UNCHANGED subVars
      BY <1>2, <2>3 DEF OnConnectFailed, AsyncReconnect
    <3>2. SockType' /\ PeerType' /\ ready' \in Seq(Completion)
      BY <2>1, <3>1, AbandonSocketType DEF SockType, PeerType, SocketStates
    <3>3. QueueType'
      BY <2>1, <3>1, <3>2 DEF QueueType
    <3>4. reconnect_cnt' \in 0 .. ReconnectCount
      <4>1. reconnect_cnt \in 0 .. ReconnectCount /\ ReconnectCount \in Nat
        BY EnvironmentAssumption DEF TypeOK
      <4>2. reconnect_cnt > 0
        BY <2>3, <4>1
      <4> QED
        BY <3>1, <4>1, <4>2
    <3>5. ConnType'
      BY <3>1, <3>4 DEF ConnType, TypeOK
    <3> QED
      BY <3>1, <3>2, <3>3, <3>5, Unchanged, TypeParts DEF AllTypes
  <2> QED
    BY <2>2, <2>3
<1>3. ASSUME NEW o \in Orders, OnConnected(o) PROVE TypeOK'
  <2>1. /\ Io \in Threads /\ Tail(ready) \in Seq(Completion)
        /\ outbox \in Seq(Message)
    BY <1>3, HandlesType DEF OnConnected
  <2>2. TodoType'
    BY <1>3, <2>1, OrderSteps, StartType DEF OnConnected, TodoType
  <2>3. QueueType'
    BY <1>3, <2>1 DEF OnConnected, QueueType
  <2>4. ConnType'
    <3>1. has_connected' = TRUE /\ reconnect_cnt' = reconnect_cnt /\ life' = life
      BY <1>3 DEF OnConnected
    <3>2. has_connected' \in BOOLEAN
      BY <3>1
    <3> QED
      BY <3>1, <3>2 DEF ConnType, TypeOK
  <2> QED
    BY <1>3, <2>2, <2>3, <2>4, Unchanged, TypeParts DEF AllTypes, OnConnected
<1> QED
  BY <1>1, <1>2, <1>3

LEMMA WriteHandlerTypes ==
    ASSUME TypeOK, OnWritten \/ OnWriteFailed
    PROVE  TypeOK'
<1>1. CASE OnWritten
  <2>1. Tail(ready) \in Seq(Completion) /\ outbox \in Seq(Message)
    BY <1>1, HandlesType DEF OnWritten
  <2>2. outbox' \in Seq(Message)
    BY <1>1, <2>1, EmptySeq, HeadTailProperties DEF OnWritten
  <2>3. writing' \in Seq(Message) /\ ready' \in Seq(Completion)
    <3>1. CASE Len(outbox) > 1
      <4>1. outbox[2] \in Message
        BY <2>1, <3>1, ElementOfSeq, LenProperties
      <4>2. StartWrite(outbox[2], Tail(ready))
        BY <1>1, <3>1 DEF OnWritten, WriteNext
      <4> QED
        BY <2>1, <4>1, <4>2, StartWriteType
    <3>2. CASE ~(Len(outbox) > 1)
      BY <1>1, <2>1, <3>2 DEF OnWritten, WriteNext, TypeOK
    <3> QED
      BY <3>1, <3>2
  <2>4. SockType' /\ QueueType'
    BY <1>1, <2>2, <2>3 DEF OnWritten, SockType, QueueType, TypeOK
  <2> QED
    BY <1>1, <2>4, Unchanged, TypeParts DEF AllTypes, OnWritten
<1>2. CASE OnWriteFailed
  <2>1. /\ Io \in Threads /\ Tail(ready) \in Seq(Completion)
        /\ outbox \in Seq(Message)
    BY <1>2, HandlesType DEF OnWriteFailed
  <2>2. TodoType'
    BY <1>2, <2>1, HandlerSteps, StartType DEF OnWriteFailed, TodoType
  <2>3. QueueType'
    BY <1>2, <2>1 DEF OnWriteFailed, QueueType
  <2>4. ConnType'
    <3>1. has_connected' = FALSE /\ reconnect_cnt' = reconnect_cnt /\ life' = life
      BY <1>2 DEF OnWriteFailed
    <3>2. has_connected' \in BOOLEAN
      BY <3>1
    <3> QED
      BY <3>1, <3>2 DEF ConnType, TypeOK
  <2> QED
    BY <1>2, <2>2, <2>3, <2>4, Unchanged, TypeParts DEF AllTypes, OnWriteFailed
<1> QED
  BY <1>1, <1>2

LEMMA HeadHandlerTypes ==
    ASSUME TypeOK, OnHeadClosed \/ OnHead \/ OnHeadFailed
    PROVE  TypeOK'
<1>1. CASE OnHeadClosed
  <2>1. Tail(ready) \in Seq(Completion) /\ outbox \in Seq(Message)
    BY <1>1, HandlesType DEF OnHeadClosed
  <2>2. QueueType'
    BY <1>1, <2>1 DEF OnHeadClosed, QueueType
  <2>3. ConnType'
    <3>1. has_connected' = FALSE /\ reconnect_cnt' = reconnect_cnt /\ life' = life
      BY <1>1 DEF OnHeadClosed
    <3>2. has_connected' \in BOOLEAN
      BY <3>1
    <3> QED
      BY <3>1, <3>2 DEF ConnType, TypeOK
  <2> QED
    BY <1>1, <2>2, <2>3, Unchanged, TypeParts DEF AllTypes, OnHeadClosed
<1>2. CASE OnHead
  <2> DEFINE m == Head(ready).msg
  <2>1. /\ Tail(ready) \in Seq(Completion) /\ m \in Message
        /\ outbox \in Seq(Message)
    BY <1>2, HandlesType DEF OnHead
  <2>2. BodyRead(m) \in Read
    BY <2>1, Constructors
  <2>3. StartRead(BodyRead(m), Tail(ready))
    BY <1>2 DEF OnHead
  <2> HIDE DEF m
  <2>4. /\ reader' \in Seq(Read) /\ ready' \in Seq(Completion)
        /\ inbound' \in Seq(Message)
    BY <2>1, <2>2, <2>3, StartReadType
  <2>5. SockType' /\ QueueType' /\ PeerType'
    BY <1>2, <2>1, <2>4 DEF OnHead, SockType, QueueType, PeerType, TypeOK
  <2> QED
    BY <1>2, <2>5, Unchanged, TypeParts DEF AllTypes, OnHead
<1>3. CASE OnHeadFailed
  <2>1. /\ Io \in Threads /\ Tail(ready) \in Seq(Completion)
        /\ outbox \in Seq(Message)
    BY <1>3, HandlesType DEF OnHeadFailed
  <2>2. TodoType'
    BY <1>3, <2>1, HandlerSteps, StartType DEF OnHeadFailed, TodoType
  <2>3. QueueType'
    BY <1>3, <2>1 DEF OnHeadFailed, QueueType
  <2> QED
    BY <1>3, <2>2, <2>3, Unchanged, TypeParts DEF AllTypes, OnHeadFailed
<1> QED
  BY <1>1, <1>2, <1>3

LEMMA BodyHandlerTypes ==
    ASSUME TypeOK, OnBodyClosed \/ OnBody \/ OnBodyFailed
    PROVE  TypeOK'
<1> DEFINE m == Head(ready).msg
<1>1. /\ Io \in Threads /\ Tail(ready) \in Seq(Completion) /\ m \in Message
      /\ outbox \in Seq(Message)
  BY HandlesType DEF OnBodyClosed, OnBody, OnBodyFailed
<1>2. QueueType'
  BY <1>1 DEF OnBodyClosed, OnBody, OnBodyFailed, QueueType
<1>3. CASE OnBodyClosed
  <2>1. TodoType'
    BY <1>1, <1>3, HandlerSteps, StartType DEF OnBodyClosed, TodoType
  <2> QED
    BY <1>2, <1>3, <2>1, Unchanged, TypeParts DEF AllTypes, OnBodyClosed
<1>4. CASE OnBody
  <2>1. TodoType'
    BY <1>1, <1>4, HandlerSteps, StartType DEF OnBody, TodoType
  <2> QED
    BY <1>2, <1>4, <2>1, Unchanged, TypeParts DEF AllTypes, OnBody
<1>5. CASE OnBodyFailed
  <2>1. TodoType'
    BY <1>1, <1>5, HandlerSteps, StartType DEF OnBodyFailed, TodoType
  <2>2. ConnType'
    <3>1. has_connected' = FALSE /\ reconnect_cnt' = reconnect_cnt /\ life' = life
      BY <1>5 DEF OnBodyFailed
    <3>2. has_connected' \in BOOLEAN
      BY <3>1
    <3> QED
      BY <3>1, <3>2 DEF ConnType, TypeOK
  <2> QED
    BY <1>2, <1>5, <2>1, <2>2, Unchanged, TypeParts DEF AllTypes, OnBodyFailed
<1> QED
  BY <1>3, <1>4, <1>5

LEMMA IoStepTypes ==
    ASSUME TypeOK, DoRead \/ FailCallbacks \/ CallBack
    PROVE  TypeOK'
<1>0. Io \in Threads
  BY DEF Threads
<1>1. TodoType'
  BY <1>0, EmptySeq, ContinueType DEF DoRead, FailCallbacks, CallBack, At, TodoType
<1>2. CASE DoRead
  <2>1. HeadRead \in Read /\ ready \in Seq(Completion)
    BY Constructors DEF TypeOK
  <2>2. /\ reader' \in Seq(Read) /\ ready' \in Seq(Completion)
        /\ inbound' \in Seq(Message)
    BY <1>2, <2>1, StartReadType DEF DoRead
  <2>3. SockType' /\ QueueType' /\ PeerType'
    BY <1>2, <2>2 DEF DoRead, SockType, QueueType, PeerType, TypeOK
  <2> QED
    BY <1>1, <1>2, <2>3, Unchanged, TypeParts DEF AllTypes, DoRead
<1>3. CASE FailCallbacks
  <2>1. CallType'
    BY <1>3, AppendProperties DEF FailCallbacks, CallType, TypeOK, Outcomes
  <2> QED
    BY <1>1, <1>3, <2>1, Unchanged, TypeParts DEF AllTypes, FailCallbacks
<1>4. CASE CallBack
  <2> DEFINE id == Head(todo[Io]).msg.id
             outcome == Answer(id, Head(todo[Io]).ec)
  <2>1. outcome \in Outcomes
    BY DEF Answer, Outcomes
  <2>2. CASE id \in future_map \cup callback_map
    <3>1. /\ answers' = [answers EXCEPT ![id] = Append(@, outcome)]
          /\ future_map' = future_map \ {id}
          /\ callback_map' = callback_map \ {id}
          /\ aborted' = aborted
          /\ UNCHANGED <<fu_id, callback_id, timed_out>>
      BY <1>4, <2>2 DEF CallBack, Erase
    <3> HIDE DEF id, outcome
    <3>2. answers' \in [CallIds -> Seq(Outcomes)]
      <4>1. id \in CallIds
        BY <2>2 DEF TypeOK, CallIds
      <4>2. Append(answers[id], outcome) \in Seq(Outcomes)
        BY <2>1, <4>1, AppendProperties DEF TypeOK
      <4> QED
        BY <3>1, <4>2 DEF TypeOK
    <3>3. CallType' /\ SpentType'
      BY <1>4, <3>1, <3>2 DEF CallType, SpentType, TypeOK, CallBack
    <3> QED
      BY <1>1, <1>4, <3>3, Unchanged, TypeParts DEF AllTypes, CallBack
  <2>3. CASE id \notin future_map \cup callback_map
    <3>1. /\ aborted' = TRUE
          /\ UNCHANGED <<answers, future_map, callback_map, fu_id, callback_id,
                         timed_out, spent>>
      BY <1>4, <2>3 DEF CallBack
    <3>2. aborted' \in BOOLEAN
      BY <3>1
    <3>3. CallType'
      BY <3>1 DEF CallType, TypeOK
    <3>4. SpentType'
      BY <3>1, <3>2 DEF SpentType, TypeOK
    <3> QED
      BY <1>1, <1>4, <3>3, <3>4, Unchanged, TypeParts DEF AllTypes, CallBack
  <2> QED
    BY <2>2, <2>3
<1> QED
  BY <1>2, <1>3, <1>4

-----------------------------------------------------------------------------
(* The timers, the socket and the peer                                     *)

LEMMA TimerTypes == ASSUME TypeOK, TimerNext PROVE TypeOK'
<1>1. ASSUME NEW id \in CallbackIds, OnTimer(id) PROVE TypeOK'
  <2>1. CallType'
    BY <1>1 DEF OnTimer, CallType, TypeOK
  <2> QED
    BY <1>1, <2>1, Unchanged, TypeParts DEF AllTypes, OnTimer
<1>2. CASE OnHeartbeat
  <2>1. <<WriteOf(NoMessage)>> \in Seq(Step)
    BY Constructors, SequenceOfOne
  <2>2. TodoType' /\ SpentType'
    BY <1>2, <2>1, HandlesType, StartType, SpendType DEF OnHeartbeat, TodoType
  <2> QED
    BY <1>2, <2>2, Unchanged, TypeParts DEF AllTypes, OnHeartbeat
<1> QED
  BY <1>1, <1>2 DEF TimerNext

LEMMA CompletesType ==
    ASSUME TypeOK, NEW c \in Completion, Completes(c), UNCHANGED outbox
    PROVE  QueueType'
BY AppendProperties DEF TypeOK, Completes, QueueType

LEMMA ReactorTypes == ASSUME TypeOK, PollNothing \/ PollReports \/ EventStale PROVE TypeOK'
<1>1. Tail(ready) \in Seq(Completion) /\ outbox \in Seq(Message)
  BY HandlesType DEF PollNothing, PollReports, EventStale
<1>2. QueueType'
  <2>1. CASE PollNothing
    BY <1>1, <2>1, Constructors, AppendProperties DEF PollNothing, QueueType
  <2>2. CASE PollReports
    <3>1. <<Event, Poll>> \in Seq(Completion)
      BY Constructors
    <3>2. Tail(ready) \o <<Event, Poll>> \in Seq(Completion)
      BY <1>1, <3>1, ConcatProperties
    <3> QED
      BY <1>1, <2>2, <3>2 DEF PollReports, QueueType
  <2>3. CASE EventStale
    BY <1>1, <2>3 DEF EventStale, QueueType
  <2> QED
    BY <2>1, <2>2, <2>3
<1> QED
  BY <1>2, Unchanged, TypeParts DEF AllTypes, PollNothing, PollReports, EventStale

LEMMA SocketTypes == ASSUME TypeOK, SocketNext PROVE TypeOK'
<1>1. CASE ConnectSucceeds
  <2>1. <<Done("connect", NoMessage, FALSE)>> \in Seq(Completion)
    BY Constructors, SequenceOfOne
  <2>2. QueueType'
    <3>1. Tail(ready) \in Seq(Completion) /\ outbox \in Seq(Message)
      BY <1>1, HandlesType DEF ConnectSucceeds
    <3>2. <<Done("connect", NoMessage, FALSE)>> \o Tail(ready) \in Seq(Completion)
      BY <2>1, <3>1, ConcatProperties
    <3> QED
      BY <1>1, <3>1, <3>2 DEF ConnectSucceeds, QueueType
  <2>3. SockType'
    BY <1>1 DEF ConnectSucceeds, SockType, SocketStates, TypeOK
  <2> QED
    BY <1>1, <2>2, <2>3, Unchanged, TypeParts DEF AllTypes, ConnectSucceeds
<1>2. CASE ConnectFails
  <2> DEFINE connects == <<Done("connect", NoMessage, TRUE)>>
             rest     == Tail(ready)
             writes   == [i \in DOMAIN writing |-> Done("write", writing[i], TRUE)]
             reads    == [i \in DOMAIN reader |-> Failed(reader[i])]
  <2>1. connects \in Seq(Completion) /\ rest \in Seq(Completion)
    BY <1>2, Constructors, SequenceOfOne, HandlesType DEF ConnectFails
  <2>2. writes \in Seq(Completion)
    BY WriteFailures DEF TypeOK
  <2>3. reads \in Seq(Completion)
    BY ReadFailures DEF TypeOK
  <2>4. ready' = ((connects \o rest) \o writes) \o reads
    BY <1>2 DEF ConnectFails
  <2> HIDE DEF connects, rest, writes, reads
  <2>5. connects \o rest \in Seq(Completion)
    BY <2>1, ConcatProperties
  <2>6. (connects \o rest) \o writes \in Seq(Completion)
    BY <2>2, <2>5, ConcatProperties
  <2>7. ready' \in Seq(Completion)
    BY <2>3, <2>4, <2>6, ConcatProperties
  <2>8. QueueType'
    BY <1>2, <2>7 DEF ConnectFails, QueueType, TypeOK
  <2>9. SockType'
    BY <1>2, EmptySeq, Constructors DEF ConnectFails, SockType, SocketStates
  <2>10. SpentType'
    BY <1>2, SpendType DEF ConnectFails
  <2> QED
    BY <1>2, <2>8, <2>9, <2>10, Unchanged, TypeParts DEF AllTypes, ConnectFails
<1>3. CASE LinkDrops
  <2>1. SpentType'
    BY <1>3, SpendType DEF LinkDrops
  <2>2. SockType' /\ PeerType'
    BY <1>3 DEF LinkDrops, SockType, PeerType, SocketStates, TypeOK
  <2> QED
    BY <1>3, <2>1, <2>2, Unchanged, TypeParts DEF AllTypes, LinkDrops
<1>4. ASSUME NEW ec \in BOOLEAN, WriteCompletes(ec) PROVE TypeOK'
  <2>1. Head(writing) \in Message /\ Tail(writing) \in Seq(Message)
    BY <1>4, HeadTailProperties DEF WriteCompletes, TypeOK
  <2>2. QueueType'
    BY <1>4, <2>1, Constructors, CompletesType DEF WriteCompletes
  <2>3. SockType' /\ PeerType'
    BY <1>4, <2>1 DEF WriteCompletes, SockType, PeerType, TypeOK
  <2> QED
    BY <1>4, <2>2, <2>3, Unchanged, TypeParts DEF AllTypes, WriteCompletes
<1>5. CASE ReadCompletes
  <2>1. PICK c \in ReadResults(Head(reader)) : ready' = <<c>> \o Tail(ready) /\ Consume(c)
    BY <1>5 DEF ReadCompletes
  <2>2. /\ Tail(ready) \in Seq(Completion) /\ outbox \in Seq(Message)
        /\ Head(reader) \in Read /\ Tail(reader) \in Seq(Read)
    BY <1>5, HandlesType, HeadTailProperties DEF ReadCompletes, TypeOK
  <2>3. c \in Completion /\ inbound' \in Seq(Message)
    BY <2>1, <2>2, ReadResultsType
  <2>4. ready' \in Seq(Completion)
    <3>1. <<c>> \in Seq(Completion)
      BY <2>3
    <3> QED
      BY <2>1, <2>2, <3>1, ConcatProperties
  <2>5. QueueType' /\ SockType' /\ PeerType'
    BY <1>5, <2>2, <2>3, <2>4
       DEF ReadCompletes, QueueType, SockType, PeerType, TypeOK
  <2> QED
    BY <1>5, <2>5, Unchanged, TypeParts DEF AllTypes, ReadCompletes
<1>6. CASE PollNothing \/ PollReports \/ EventStale
  BY <1>6, ReactorTypes
<1> QED
  BY <1>1, <1>2, <1>3, <1>4, <1>5, <1>6 DEF SocketNext

LEMMA PeerTypes ==
    ASSUME TypeOK, NEW m \in peer,
           PeerAnswers(m) \/ PeerRepeats(m) \/ PeerPublishes(m)
    PROVE  TypeOK'
<1>1. m \in Message
  BY DEF TypeOK
<1>2. PeerType'
  <2>1. Append(inbound, m) \in Seq(Message)
    BY <1>1, AppendProperties DEF TypeOK
  <2>2. inbound' = Append(inbound, m) /\ peer' \subseteq peer
    BY DEF PeerAnswers, PeerRepeats, PeerPublishes
  <2> QED
    BY <2>1, <2>2 DEF PeerType, TypeOK
<1>3. CASE PeerAnswers(m)
  BY <1>2, <1>3, Unchanged, TypeParts DEF AllTypes, PeerAnswers
<1>4. CASE PeerRepeats(m)
  <2>1. SpentType'
    BY <1>4, SpendType DEF PeerRepeats
  <2> QED
    BY <1>2, <1>4, <2>1, Unchanged, TypeParts DEF AllTypes, PeerRepeats
<1>5. CASE PeerPublishes(m)
  <2>1. SpentType'
    BY <1>5, SpendType DEF PeerPublishes
  <2> QED
    BY <1>2, <1>5, <2>1, Unchanged, TypeParts DEF AllTypes, PeerPublishes
<1> QED
  BY <1>3, <1>4, <1>5

-----------------------------------------------------------------------------
LEMMA NextTypes == TypeOK /\ [Next]_vars => TypeOK'
<1> SUFFICES ASSUME TypeOK, [Next]_vars PROVE TypeOK'
  OBVIOUS
<1>1. CASE UNCHANGED vars
  BY <1>1, Unchanged, TypeParts DEF AllTypes, vars
<1>2. CASE \E u \in Users : UserNext(u)
  BY <1>2, UserTypes
<1>3. CASE \E t \in Threads : SharedNext(t)
  BY <1>3, SharedTypes
<1>4. CASE HandlerNext
  BY <1>4, ConnectHandlerTypes, WriteHandlerTypes, HeadHandlerTypes,
     BodyHandlerTypes, IoStepTypes DEF HandlerNext
<1>5. CASE TimerNext
  BY <1>5, TimerTypes
<1>6. CASE SocketNext
  BY <1>6, SocketTypes
<1>7. CASE PeerNext
  BY <1>7, PeerTypes DEF PeerNext
<1>8. CASE \E u \in Users : Stop(u) \/ Join(u)
  BY <1>8, DestructionTypes
<1> QED
  BY <1>1, <1>2, <1>3, <1>4, <1>5, <1>6, <1>7, <1>8 DEF Next

(***************************************************************************)
(* Type correctness: in particular the two id counters stay in their        *)
(* ranges, so callback ids keep the top bit that call_back dispatches on.   *)
(***************************************************************************)
THEOREM TypeCorrect == Spec => []TypeOK
BY InitType, NextTypes, PTL DEF Spec

-----------------------------------------------------------------------------
(* How calls are settled                                                   *)

USE DEF FutureIds, CallbackIds, CallIds

\* The state that decides how calls are settled
settling == <<fu_id, callback_id, future_map, callback_map, answers>>

(***************************************************************************)
(* Only these actions touch the calls; every other one leaves them alone.   *)
(***************************************************************************)
LEMMA CallSteps ==
    ASSUME [Next]_vars
    PROVE  \/ UNCHANGED settling
           \/ \E u \in Users : AsyncCallFuture(u) \/ RegisterCallback(u)
           \/ ForgetCalls /\ UNCHANGED <<fu_id, callback_id>>
           \/ FailCallbacks
           \/ CallBack
<1> USE DEF settling, callVars
<1>1. CASE UNCHANGED vars
  BY <1>1 DEF vars
<1>2. CASE \E u \in Users : UserNext(u)
  BY <1>2 DEF UserNext, AsyncCallCallback, Subscribe, RecordToken, Connect,
     UserClose, Destroy
<1>3. CASE \E t \in Threads : SharedNext(t)
  BY <1>3 DEF SharedNext, Write, Close, ClearOutbox, ClearMaps, ErrorCallback
<1>4. CASE HandlerNext
  BY <1>4 DEF HandlerNext, OnConnectIgnored, OnConnectFailed, OnConnected,
     OnWritten, OnWriteFailed, OnHeadClosed, OnHead, OnHeadFailed,
     OnBodyClosed, OnBody, OnBodyFailed, DoRead
<1>5. CASE TimerNext
  BY <1>5 DEF TimerNext, OnTimer, OnHeartbeat
<1>6. CASE SocketNext
  BY <1>6 DEF SocketNext, PollNothing, PollReports, EventStale,
     ConnectSucceeds, ConnectFails, ReadCompletes, LinkDrops, WriteCompletes
<1>7. CASE PeerNext
  BY <1>7 DEF PeerNext, PeerAnswers, PeerRepeats, PeerPublishes
<1>8. CASE \E u \in Users : Stop(u) \/ Join(u)
  BY <1>8 DEF Stop, Join
<1> QED
  BY <1>1, <1>2, <1>3, <1>4, <1>5, <1>6, <1>7, <1>8 DEF Next

-----------------------------------------------------------------------------
(* The invariant behind the theorems.  FutureOnce alone is not inductive:  *)
(* that a promise still in future_map_ has not been set is what keeps the  *)
(* next response, error or close from setting it twice.                    *)

CallTypes ==
    /\ fu_id \in 0 .. MaxFutures
    /\ callback_id \in {0} \cup CallbackIds
    /\ future_map \subseteq FutureIds
    /\ callback_map \subseteq CallbackIds
    /\ answers \in [CallIds -> Seq(Outcomes)]

PendingIssued   == \A id \in future_map : id <= fu_id
PendingUnset    == \A id \in future_map : answers[id] = <<>>
UnissuedUnset   == \A id \in FutureIds : id > fu_id => answers[id] = <<>>
IssuedAccounted == \A id \in FutureIds :
                     id <= fu_id => id \in future_map \/ answers[id] # <<>>

CallInv == /\ CallTypes
           /\ PendingIssued /\ PendingUnset
           /\ UnissuedUnset /\ IssuedAccounted
           /\ FutureOnce

\* Future ids and callback ids never meet: the top bit tells them apart.
LEMMA IdsApart == FutureIds \cap CallbackIds = {}
BY CallAssumption

LEMMA AppendFacts ==
    ASSUME NEW s \in Seq(Outcomes), NEW o \in Outcomes
    PROVE  /\ Append(s, o) \in Seq(Outcomes)
           /\ Append(s, o) # <<>>
           /\ Len(Append(s, o)) = Len(s) + 1
           /\ Append(s, o)[Len(Append(s, o))] = o
OBVIOUS

LEMMA CallInvInit == Init => CallInv
<1> SUFFICES ASSUME Init PROVE CallInv
  OBVIOUS
<1>1. CallTypes
  BY CallAssumption DEF Init, CallTypes
<1> QED
  BY <1>1, CallAssumption DEF Init, CallInv, PendingIssued, PendingUnset,
     UnissuedUnset, IssuedAccounted, FutureOnce

LEMMA CallInvNext == CallInv /\ [Next]_vars => CallInv'
<1> SUFFICES ASSUME CallInv, [Next]_vars PROVE CallInv'
  OBVIOUS
<1> USE CallAssumption DEF CallInv, CallTypes, PendingIssued, PendingUnset,
        UnissuedUnset, IssuedAccounted, FutureOnce
<1>1. CASE UNCHANGED settling
  BY <1>1 DEF settling
<1>2. ASSUME NEW u \in Users, AsyncCallFuture(u) PROVE CallInv'
  BY <1>2, IdsApart DEF AsyncCallFuture, NextFutureId
<1>3. ASSUME NEW u \in Users, RegisterCallback(u) PROVE CallInv'
  <2>1. callback_id' \in CallbackIds
    BY <1>3 DEF RegisterCallback, NextCallbackId, cb_flag
  <2> QED
    BY <1>3, <2>1 DEF RegisterCallback
<1>4. CASE ForgetCalls /\ UNCHANGED <<fu_id, callback_id>>
  <2>1. \A id \in CallIds : answers'[id] = IF id \in future_map
                                           THEN Append(answers[id], "dropped")
                                           ELSE answers[id]
    BY <1>4 DEF ForgetCalls
  <2>2. answers' \in [CallIds -> Seq(Outcomes)]
    BY <1>4, AppendFacts DEF ForgetCalls, Outcomes
  <2>3. \A id \in future_map : answers'[id] # <<>> /\ Len(answers'[id]) = 1
    <3> TAKE id \in future_map
    <3>1. answers'[id] = Append(<<>>, "dropped")
      BY <2>1
    <3>2. Len(Append(<<>>, "dropped")) = 1 /\ Append(<<>>, "dropped") # <<>>
      OBVIOUS
    <3> QED
      BY <3>1, <3>2
  <2>4. /\ future_map' = {} /\ callback_map' = {}
        /\ UNCHANGED <<fu_id, callback_id>>
    BY <1>4 DEF ForgetCalls
  <2>5. CallTypes'
    BY <2>2, <2>4
  <2>6. PendingIssued' /\ PendingUnset'
    BY <2>4
  <2>7. UnissuedUnset' /\ IssuedAccounted'
    BY <2>1, <2>3, <2>4
  <2>8. FutureOnce'
    <3> SUFFICES ASSUME NEW id \in FutureIds PROVE Len(answers'[id]) <= 1
      BY DEF FutureOnce
    <3>1. id \in CallIds
      BY DEF CallIds
    <3> HIDE DEF CallInv, CallTypes, PendingIssued, PendingUnset, UnissuedUnset,
                 IssuedAccounted
    <3>2. CASE id \in future_map
      <4>1. Len(answers'[id]) = 1
        BY ONLY <2>3, <3>2
      <4> QED
        BY ONLY <4>1
    <3>3. CASE id \notin future_map
      <4>1. answers'[id] = answers[id]
        BY <2>1, <3>1, <3>3
      <4>2. Len(answers[id]) <= 1
        BY DEF CallInv
      <4> QED
        BY ONLY <4>1, <4>2
    <3> QED
      BY <3>2, <3>3
  <2> QED
    BY <2>5, <2>6, <2>7, <2>8
<1>5. CASE FailCallbacks
  <2>1. \A id \in FutureIds : answers'[id] = answers[id]
    BY <1>5, IdsApart DEF FailCallbacks
  <2>2. answers' \in [CallIds -> Seq(Outcomes)]
    BY <1>5, AppendFacts DEF FailCallbacks, Outcomes
  <2> QED
    BY <1>5, <2>1, <2>2 DEF FailCallbacks
<1>6. CASE CallBack
  <2> DEFINE id == Head(todo[Io]).msg.id
             ec == Head(todo[Io]).ec
  <2>1. CASE id \notin future_map \cup callback_map
    BY <1>6, <2>1 DEF CallBack
  <2>2. CASE id \in future_map \cup callback_map
    <3>1. /\ answers' = [answers EXCEPT ![id] = Append(@, Answer(id, ec))]
          /\ future_map' = future_map \ {id}
          /\ callback_map' = callback_map \ {id}
          /\ UNCHANGED <<fu_id, callback_id>>
      BY <1>6, <2>2 DEF CallBack, Erase
    <3>2. Answer(id, ec) \in Outcomes
      BY DEF Answer, Outcomes
    <3>3. answers' \in [CallIds -> Seq(Outcomes)]
      BY <2>2, <3>1, <3>2, AppendFacts
    <3>4. /\ answers'[id] # <<>>
          /\ Len(answers'[id]) = Len(answers[id]) + 1
      <4> HIDE DEF id, ec
      <4>1. answers[id] \in Seq(Outcomes) /\ answers'[id] = Append(answers[id], Answer(id, ec))
        BY <2>2, <3>1
      <4>2. /\ Append(answers[id], Answer(id, ec)) # <<>>
            /\ Len(Append(answers[id], Answer(id, ec))) = Len(answers[id]) + 1
        BY ONLY <4>1, <3>2, AppendFacts
      <4> QED
        BY ONLY <4>1, <4>2
    <3>5. \A other \in CallIds \ {id} : answers'[other] = answers[other]
      BY <3>1
    <3> HIDE DEF id, ec
    <3>6. CASE id \in future_map
      BY <3>1, <3>3, <3>4, <3>5, <3>6
    <3>7. CASE id \in callback_map
      BY <3>1, <3>3, <3>5, <3>7, IdsApart
    <3> QED
      BY <2>2, <3>6, <3>7
  <2> QED
    BY <2>1, <2>2
<1> QED
  BY <1>1, <1>2, <1>3, <1>4, <1>5, <1>6, CallSteps

THEOREM CallInvariant == Spec => []CallInv
BY CallInvInit, CallInvNext, PTL DEF Spec

-----------------------------------------------------------------------------
(***************************************************************************)
(* A promise is set or destroyed at most once, whatever drops, reconnects,  *)
(* closes and interleavings there are: set_value of rpc_client.hpp:533 and  *)
(* :541 never throws.                                                       *)
(***************************************************************************)
THEOREM FutureSettledOnce == Spec => []FutureOnce
BY CallInvariant, PTL DEF CallInv

-----------------------------------------------------------------------------
(* RpcClient implements PendingCalls under the mapping Status.             *)

LEMMA LastOutcome ==
    ASSUME NEW s \in Seq(Outcomes), s # <<>>
    PROVE  s[Len(s)] \in Outcomes
OBVIOUS

LEMMA StatusUnused ==
    ASSUME CallInv
    PROVE  \A id \in FutureIds : Status[id] = "unused" <=> id > fu_id
<1> SUFFICES ASSUME NEW id \in FutureIds
             PROVE  Status[id] = "unused" <=> id > fu_id
  OBVIOUS
<1> USE CallAssumption DEF CallInv, CallTypes
<1>1. answers[id] \in Seq(Outcomes)
  OBVIOUS
<1>2. CASE id \in future_map
  BY <1>2 DEF Status, PendingIssued
<1>3. CASE id \notin future_map /\ answers[id] = <<>>
  BY <1>3 DEF Status, IssuedAccounted
<1>4. CASE id \notin future_map /\ answers[id] # <<>>
  <2>1. Status[id] \in Outcomes
    BY <1>1, <1>4, LastOutcome DEF Status
  <2> QED
    BY <2>1, <1>4 DEF Outcomes, UnissuedUnset
<1> QED
  BY <1>2, <1>3, <1>4

LEMMA CallsInit == Init => Calls!Init
BY DEF Init, Calls!Init, Status

LEMMA CallsStep == CallInv /\ CallInv' /\ [Next]_vars => [Calls!Next]_Status
<1> SUFFICES ASSUME CallInv, CallInv', [Next]_vars
             PROVE  [Calls!Next]_Status
  OBVIOUS
<1> USE CallAssumption
<1>1. CASE UNCHANGED settling
  BY <1>1 DEF settling, Status
<1>2. ASSUME NEW u \in Users, AsyncCallFuture(u) PROVE Calls!Next
  <2> DEFINE new == fu_id + 1
  <2>1. /\ new \in FutureIds
        /\ future_map' = future_map \cup {new}
        /\ answers' = answers
    BY <1>2 DEF AsyncCallFuture, NextFutureId, CallInv, CallTypes
  <2>2. \A other \in FutureIds : Status[other] = "unused" <=> new <= other
    BY StatusUnused DEF CallInv, CallTypes
  <2>3. Status' = [Status EXCEPT ![new] = "pending"]
    BY <2>1 DEF Status
  <2> QED
    BY <2>1, <2>2, <2>3 DEF Calls!Next, Calls!Issue
<1>3. ASSUME NEW u \in Users, RegisterCallback(u) PROVE UNCHANGED Status
  BY <1>3 DEF RegisterCallback, Status
<1>4. CASE ForgetCalls /\ UNCHANGED <<fu_id, callback_id>>
  <2>1. \A id \in FutureIds :
          Status'[id] = IF Status[id] = "pending" THEN "dropped" ELSE Status[id]
    <3> SUFFICES ASSUME NEW id \in FutureIds
                 PROVE  Status'[id] = IF Status[id] = "pending" THEN "dropped"
                                                               ELSE Status[id]
      OBVIOUS
    <3>1. /\ future_map' = {}
          /\ answers'[id] = IF id \in future_map THEN Append(answers[id], "dropped")
                                                ELSE answers[id]
      BY <1>4 DEF ForgetCalls
    <3>2. answers[id] \in Seq(Outcomes)
      BY DEF CallInv, CallTypes
    <3>3. CASE id \in future_map
      <4>1. answers'[id] = Append(answers[id], "dropped") /\ "dropped" \in Outcomes
        BY <3>1, <3>3 DEF Outcomes
      <4>2. answers'[id] # <<>> /\ answers'[id][Len(answers'[id])] = "dropped"
        BY <3>2, <4>1, AppendFacts
      <4> QED
        BY <3>1, <3>3, <4>2 DEF Status
    <3>4. CASE id \notin future_map
      <4>1. Status'[id] = Status[id]
        BY <3>1, <3>4 DEF Status
      <4>2. Status[id] # "pending"
        BY <3>2, <3>4, LastOutcome DEF Status, Outcomes
      <4> QED
        BY <4>1, <4>2
    <3> QED
      BY <3>3, <3>4
  <2> QED
    BY <2>1 DEF Status, Calls!Next, Calls!Abandon
<1>5. CASE FailCallbacks
  <2>1. /\ future_map' = future_map
        /\ \A id \in FutureIds : answers'[id] = answers[id]
    BY <1>5, IdsApart DEF FailCallbacks, CallInv, CallTypes
  <2> QED
    BY <2>1 DEF Status
<1>6. CASE CallBack
  <2> DEFINE id == Head(todo[Io]).msg.id
             outcome == Answer(id, Head(todo[Io]).ec)
  <2>1. outcome \in Outcomes
    BY DEF Answer, Outcomes
  <2>2. CASE id \in future_map
    <3>1. /\ id \in FutureIds
          /\ answers[id] \in Seq(Outcomes)
          /\ answers' = [answers EXCEPT ![id] = Append(@, outcome)]
          /\ future_map' = future_map \ {id}
          /\ answers \in [CallIds -> Seq(Outcomes)]
      BY <1>6, <2>2 DEF CallBack, Erase, CallInv, CallTypes
    <3> HIDE DEF id, outcome
    <3>2. answers'[id] = Append(answers[id], outcome)
      BY <3>1
    <3>3. answers'[id] # <<>> /\ answers'[id][Len(answers'[id])] = outcome
      BY <2>1, <3>1, <3>2, AppendFacts
    <3>4. Status[id] = "pending"
      BY <2>2, <3>1 DEF Status
    <3>5. Status' = [Status EXCEPT ![id] = outcome]
      BY <3>1, <3>3 DEF Status
    <3> QED
      BY <2>1, <3>1, <3>4, <3>5 DEF Calls!Next, Calls!Settle
  <2>3. CASE id \notin future_map
    <3>1. future_map' = future_map
      BY <1>6, <2>3 DEF CallBack, Erase
    <3>2. \A other \in FutureIds : answers'[other] = answers[other]
      <4>1. CASE id \notin callback_map
        BY <1>6, <2>3, <4>1 DEF CallBack
      <4>2. CASE id \in callback_map
        <5>1. answers' = [answers EXCEPT ![id] = Append(@, outcome)]
          BY <1>6, <4>2 DEF CallBack
        <5>2. id \notin FutureIds
          BY <4>2, IdsApart DEF CallInv, CallTypes
        <5> HIDE DEF id, outcome
        <5> QED
          BY <5>1, <5>2 DEF CallInv, CallTypes
      <4> QED
        BY <4>1, <4>2
    <3> QED
      BY <3>1, <3>2 DEF Status
  <2> QED
    BY <2>2, <2>3
<1> QED
  BY <1>1, <1>2, <1>3, <1>4, <1>5, <1>6, CallSteps DEF Calls!Next

(***************************************************************************)
(* Every future call goes through unused, pending and one outcome, and ids  *)
(* are given out in order: the client implements PendingCalls.             *)
(***************************************************************************)
THEOREM FutureCallsRefine == Spec => CallsRefined
<1>1. Init => Calls!Init
  BY CallsInit
<1>2. CallInv /\ CallInv' /\ [Next]_vars => [Calls!Next]_Status
  BY CallsStep
<1> QED
  BY <1>1, <1>2, CallInvariant, PTL DEF Spec, CallsRefined, Calls!Spec

-----------------------------------------------------------------------------
(* Counting the elements of a sequence that are in K.                      *)

One(e, K)   == IF e \in K THEN 1 ELSE 0
Places(s, K) == {i \in DOMAIN s : s[i] \in K}
Count(s, K) == Cardinality(Places(s, K))

LEMMA CountType ==
    ASSUME NEW S, NEW s \in Seq(S), NEW K
    PROVE  /\ IsFiniteSet(Places(s, K)) /\ Count(s, K) \in Nat
           /\ Count(s, K) = 0 <=> \A i \in DOMAIN s : s[i] \notin K
           /\ Count(s, K) > 0 <=> \E i \in DOMAIN s : s[i] \in K
<1>1. Len(s) \in Nat /\ DOMAIN s = 1 .. Len(s)
  BY LenProperties
<1>2. IsFiniteSet(Places(s, K))
  <2>1. IsFiniteSet(DOMAIN s)
    BY <1>1, FS_Interval
  <2>2. Places(s, K) \in SUBSET DOMAIN s
    BY DEF Places
  <2> QED
    BY ONLY <2>1, <2>2, FS_Subset
<1>3. Count(s, K) \in Nat /\ (Count(s, K) = 0 <=> Places(s, K) = {})
  BY <1>2, FS_CardinalityType, FS_EmptySet DEF Count
<1>4. Places(s, K) = {} <=> \A i \in DOMAIN s : s[i] \notin K
  BY DEF Places
<1> HIDE DEF Count, Places
<1>5. Count(s, K) > 0 <=> Count(s, K) # 0
  BY ONLY <1>3
<1>6. Count(s, K) = 0 <=> \A i \in DOMAIN s : s[i] \notin K
  BY ONLY <1>3, <1>4
<1> QED
  BY ONLY <1>2, <1>3, <1>5, <1>6

LEMMA CountEmpty == \A K : Count(<<>>, K) = 0
<1> TAKE K
<1>1. Places(<<>>, K) = {}
  BY DEF Places
<1> QED
  BY <1>1, FS_EmptySet DEF Count

LEMMA CountAppend ==
    ASSUME NEW S, NEW s \in Seq(S), NEW e \in S, NEW K
    PROVE  Count(Append(s, e), K) = Count(s, K) + One(e, K)
<1> DEFINE a == Append(s, e)
           n == Len(s) + 1
<1>1. /\ Len(s) \in Nat /\ DOMAIN s = 1 .. Len(s)
      /\ DOMAIN a = 1 .. n /\ a[n] = e /\ \A i \in 1 .. Len(s) : a[i] = s[i]
  BY AppendProperties, LenProperties
<1>2. IsFiniteSet(Places(s, K)) /\ Count(s, K) \in Nat
  BY CountType
<1> HIDE DEF a
<1>3. CASE e \in K
  <2>1. Places(a, K) = Places(s, K) \cup {n} /\ n \notin Places(s, K)
    BY <1>1, <1>3 DEF Places
  <2> QED
    BY <1>2, <1>3, <2>1, FS_AddElement DEF Count, One, a
<1>4. CASE e \notin K
  <2>1. Places(a, K) = Places(s, K)
    BY <1>1, <1>4 DEF Places
  <2> QED
    BY <1>2, <1>4, <2>1 DEF Count, One, a
<1> QED
  BY <1>3, <1>4

LEMMA CountOne ==
    ASSUME NEW e, NEW K
    PROVE  Count(<<e>>, K) = One(e, K)
<1>1. DOMAIN <<e>> = {1} /\ <<e>>[1] = e
  OBVIOUS
<1>2. CASE e \in K
  <2>1. Places(<<e>>, K) = {1}
    BY <1>1, <1>2 DEF Places
  <2> QED
    BY <1>2, <2>1, FS_Singleton DEF Count, One
<1>3. CASE e \notin K
  <2>1. Places(<<e>>, K) = {}
    BY <1>1, <1>3 DEF Places
  <2> QED
    BY <1>3, <2>1, FS_EmptySet DEF Count, One
<1> QED
  BY <1>2, <1>3

LEMMA CountConcat ==
    ASSUME NEW S, NEW s \in Seq(S), NEW t \in Seq(S), NEW K
    PROVE  Count(s \o t, K) = Count(s, K) + Count(t, K)
<1> DEFINE c == s \o t
           m == Len(s)
           P == Places(s, K)
           Q == {i \in DOMAIN c : i > m /\ c[i] \in K}
           f == [i \in Places(t, K) |-> i + m]
<1>1. /\ m \in Nat /\ Len(t) \in Nat
      /\ DOMAIN s = 1 .. m /\ DOMAIN t = 1 .. Len(t)
  BY LenProperties
<1>2. /\ DOMAIN c = 1 .. (m + Len(t))
      /\ \A i \in 1 .. m : c[i] = s[i]
      /\ \A i \in DOMAIN c : i > m => c[i] = t[i - m]
  <2>1. c \in Seq(S) /\ Len(c) = m + Len(t)
        /\ \A i \in 1 .. (m + Len(t)) : c[i] = IF i <= m THEN s[i] ELSE t[i - m]
    BY ConcatProperties
  <2>2. DOMAIN c = 1 .. Len(c)
    BY <2>1, LenProperties
  <2> HIDE DEF c, m
  <2>3. \A i \in 1 .. m : i \in 1 .. (m + Len(t)) /\ i <= m
    BY <1>1
  <2>4. \A i \in 1 .. (m + Len(t)) : i > m => ~(i <= m)
    BY <1>1
  <2> QED
    BY <2>1, <2>2, <2>3, <2>4
<1>3. IsFiniteSet(P) /\ IsFiniteSet(Places(t, K))
      /\ Count(s, K) \in Nat /\ Count(t, K) \in Nat
  BY CountType
<1> HIDE DEF c, m
<1>4. Places(c, K) = P \cup Q /\ P \cap Q = {}
  BY <1>1, <1>2 DEF Places
<1> DEFINE T == Places(t, K)
<1>5. ExistsBijection(T, Q)
  <2>1. f \in [Places(t, K) -> Q]
    BY <1>1, <1>2 DEF Places
  <2>2. \A i, j \in Places(t, K) : f[i] = f[j] => i = j
    BY <1>1 DEF Places
  <2>3. \A q \in Q : \E i \in Places(t, K) : f[i] = q
    <3> TAKE q \in Q
    <3>1. q - m \in Places(t, K) /\ (q - m) + m = q
      BY <1>1, <1>2 DEF Places
    <3> QED
      BY <3>1
  <2> QED
    <3> HIDE DEF f, Q, T
    <3>1. f \in Injection(T, Q) /\ f \in Surjection(T, Q)
      BY <2>1, <2>2, <2>3 DEF Injection, IsInjective, Surjection, T
    <3> QED
      BY <3>1 DEF ExistsBijection, Bijection
<1>6. IsFiniteSet(Q) /\ Cardinality(Q) = Count(t, K)
  <2> HIDE DEF Q
  <2>1. IsFiniteSet(T)
    BY <1>3
  <2> HIDE DEF T
  <2>2. IsFiniteSet(Q) /\ Cardinality(Q) = Cardinality(T)
    BY <1>5, <2>1, FS_Bijection
  <2> QED
    BY <2>2 DEF Count, T
<1> HIDE DEF P, Q
<1>7. Cardinality(P \cup Q) = Cardinality(P) + Cardinality(Q)
  <2>1. /\ IsFiniteSet(P) /\ IsFiniteSet(Q) /\ Cardinality({}) = 0
        /\ Cardinality(P) \in Nat /\ Cardinality(Q) \in Nat
    BY <1>3, <1>6, FS_EmptySet, FS_CardinalityType
  <2>2. Cardinality(P \cup Q) = Cardinality(P) + Cardinality(Q) - Cardinality(P \cap Q)
    BY ONLY <2>1, FS_Union
  <2>3. Cardinality(P \cap Q) = 0
    BY <1>4, FS_EmptySet
  <2> QED
    BY ONLY <2>1, <2>2, <2>3
<1> QED
  BY <1>4, <1>6, <1>7 DEF Count, P, c

LEMMA CountTail ==
    ASSUME NEW S, NEW s \in Seq(S), s # <<>>, NEW K
    PROVE  Count(s, K) = One(Head(s), K) + Count(Tail(s), K)
<1>1. Head(s) \in S /\ Tail(s) \in Seq(S) /\ Len(Tail(s)) = Len(s) - 1
      /\ \A i \in 1 .. Len(Tail(s)) : Tail(s)[i] = s[i + 1]
  BY HeadTailProperties
<1>2. <<Head(s)>> \in Seq(S)
  BY <1>1, SequenceOfOne
<1>3. s = <<Head(s)>> \o Tail(s)
  <2>1. Len(<<Head(s)>> \o Tail(s)) = Len(s) /\ <<Head(s)>> \o Tail(s) \in Seq(S)
        /\ \A i \in 1 .. (1 + Len(Tail(s))) : (<<Head(s)>> \o Tail(s))[i] =
             IF i <= 1 THEN Head(s) ELSE Tail(s)[i - 1]
    <3>1. Len(<<Head(s)>>) = 1 /\ <<Head(s)>>[1] = Head(s)
      OBVIOUS
    <3>2. \A i \in 1 .. (1 + Len(Tail(s))) : i <= 1 => i = 1
      BY <1>1, LenProperties
    <3> QED
      BY <1>1, <1>2, <3>1, <3>2, ConcatProperties, LenProperties
  <2>2. \A i \in 1 .. Len(s) : (<<Head(s)>> \o Tail(s))[i] = s[i]
    <3> TAKE i \in 1 .. Len(s)
    <3>1. i \in 1 .. (1 + Len(Tail(s))) /\ Len(s) \in Nat
      BY <1>1, LenProperties
    <3>2. CASE i = 1
      BY <2>1, <3>1, <3>2
    <3>3. CASE i # 1
      <4>1. i - 1 \in 1 .. Len(Tail(s)) /\ ~(i <= 1) /\ (i - 1) + 1 = i
        BY <1>1, <3>1, <3>3, LenProperties
      <4> QED
        BY <1>1, <2>1, <3>1, <4>1
    <3> QED
      BY <3>2, <3>3
  <2> QED
    BY <2>1, <2>2, SeqEqual
<1>4. Count(<<Head(s)>> \o Tail(s), K) = Count(<<Head(s)>>, K) + Count(Tail(s), K)
  BY <1>1, <1>2, CountConcat
<1> QED
  BY <1>3, <1>4, CountOne

\* The handlers of the operations that are cancelled or fail
LEMMA CountNone ==
    ASSUME NEW S, NEW s \in Seq(S), NEW K, \A i \in DOMAIN s : s[i] \notin K
    PROVE  Count(s, K) = 0
BY CountType

-----------------------------------------------------------------------------
(* Steps and completions are counted by what they do.                      *)

OpNames == {"poll", "event", "connect", "write", "head", "body", "register",
            "close", "clear_outbox", "clear_maps", "error_callback",
            "fail_callbacks", "call_back", "do_read", "stop", "join", "token"}
Item == [op : OpNames, msg : Message, ec : BOOLEAN]
Ops(ops) == [op : ops, msg : Message, ec : BOOLEAN]
Num(s, ops) == Count(s, Ops(ops))
Is(c, ops) == IF c.op \in ops THEN 1 ELSE 0

LEMMA Items == Completion \subseteq Item /\ Step \subseteq Item
<1>1. Completion \subseteq Item
  BY DEF Completion, Item, OpNames
<1>2. \A k \in Keys : Subscription(k) \in Message
  BY Constructors
<1>3. Step \subseteq Item
  BY <1>2 DEF Step, Item, OpNames
<1> QED
  BY <1>1, <1>3

LEMMA SeqItems ==
    /\ \A s \in Seq(Completion) : s \in Seq(Item)
    /\ \A s \in Seq(Step) : s \in Seq(Item)
    /\ \A s \in Seq(Read) : s \in Seq(Item)
<1>1. ASSUME NEW S, S \subseteq Item, NEW s \in Seq(S) PROVE s \in Seq(Item)
  <2>1. Len(s) \in Nat /\ DOMAIN s = 1 .. Len(s) /\ s \in [1 .. Len(s) -> S]
    BY LenProperties
  <2>2. s \in [1 .. Len(s) -> Item]
    BY <1>1, <2>1
  <2> QED
    BY <2>1, <2>2
<1>2. Read \subseteq Item
  BY ReadDone, Items
<1> QED
  BY <1>1, <1>2, Items

LEMMA OneIs ==
    ASSUME NEW c \in Item, NEW ops PROVE One(c, Ops(ops)) = Is(c, ops) /\ Is(c, ops) \in 0 .. 1
BY DEF Item, Ops, One, Is

LEMMA NumType ==
    ASSUME NEW s \in Seq(Item), NEW ops
    PROVE  /\ Num(s, ops) \in Nat
           /\ Num(s, ops) = 0 <=> \A i \in DOMAIN s : s[i].op \notin ops
           /\ Num(s, ops) > 0 <=> \E i \in DOMAIN s : s[i].op \in ops
<1>1. \A i \in DOMAIN s : s[i] \in Item
  BY ElementOfSeq, LenProperties
<1>2. \A i \in DOMAIN s : s[i] \in Ops(ops) <=> s[i].op \in ops
  BY <1>1 DEF Item, Ops
<1>3. /\ Count(s, Ops(ops)) \in Nat
      /\ Count(s, Ops(ops)) = 0 <=> \A i \in DOMAIN s : s[i] \notin Ops(ops)
      /\ Count(s, Ops(ops)) > 0 <=> \E i \in DOMAIN s : s[i] \in Ops(ops)
  BY CountType
<1> QED
  BY ONLY <1>2, <1>3 DEF Num

LEMMA NumEmpty == \A ops : Num(<<>>, ops) = 0
BY CountEmpty DEF Num

LEMMA NumAppend ==
    ASSUME NEW s \in Seq(Item), NEW c \in Item, NEW ops
    PROVE  /\ Append(s, c) \in Seq(Item)
           /\ Num(Append(s, c), ops) = Num(s, ops) + Is(c, ops)
BY CountAppend, OneIs, AppendProperties DEF Num

LEMMA NumConcat ==
    ASSUME NEW s \in Seq(Item), NEW t \in Seq(Item), NEW ops
    PROVE  s \o t \in Seq(Item) /\ Num(s \o t, ops) = Num(s, ops) + Num(t, ops)
BY CountConcat, ConcatProperties DEF Num

LEMMA NumTail ==
    ASSUME NEW s \in Seq(Item), s # <<>>, NEW ops
    PROVE  /\ Head(s) \in Item /\ Tail(s) \in Seq(Item)
           /\ Num(Tail(s), ops) \in Nat
           /\ Num(s, ops) = Is(Head(s), ops) + Num(Tail(s), ops)
<1>1. Head(s) \in Item /\ Tail(s) \in Seq(Item)
  BY HeadTailProperties
<1>2. Num(Tail(s), ops) \in Nat
  BY <1>1, NumType
<1>3. Num(s, ops) = One(Head(s), Ops(ops)) + Num(Tail(s), ops)
  BY CountTail DEF Num
<1> QED
  BY <1>1, <1>2, <1>3, OneIs

LEMMA NumOne ==
    ASSUME NEW c \in Item, NEW ops
    PROVE  <<c>> \in Seq(Item) /\ Num(<<c>>, ops) = Is(c, ops)
BY CountOne, OneIs DEF Num

\* One more at the front
LEMMA NumFront ==
    ASSUME NEW s \in Seq(Item), NEW c \in Item, NEW ops
    PROVE  <<c>> \o s \in Seq(Item) /\ Num(<<c>> \o s, ops) = Is(c, ops) + Num(s, ops)
<1> DEFINE t == <<c>>
<1>1. t \in Seq(Item) /\ Num(t, ops) = Is(c, ops)
  BY NumOne
<1> HIDE DEF t
<1>2. t \o s \in Seq(Item) /\ Num(t \o s, ops) = Num(t, ops) + Num(s, ops)
  BY <1>1, NumConcat
<1>3. t \o s \in Seq(Item) /\ Num(t \o s, ops) = Is(c, ops) + Num(s, ops)
  BY ONLY <1>1, <1>2
<1> QED
  BY <1>3 DEF t

LEMMA NumTwo ==
    ASSUME NEW c \in Item, NEW d \in Item, NEW ops
    PROVE  <<c, d>> \in Seq(Item) /\ Num(<<c, d>>, ops) = Is(c, ops) + Is(d, ops)
<1> DEFINE one == <<c>>
           two == <<c, d>>
<1>1. two = Append(one, d)
  OBVIOUS
<1>2. one \in Seq(Item) /\ Num(one, ops) = Is(c, ops)
  BY NumOne
<1> HIDE DEF one, two
<1>3. two \in Seq(Item) /\ Num(two, ops) = Is(c, ops) + Is(d, ops)
  BY <1>1, <1>2, NumAppend
<1> QED
  BY <1>3 DEF two

LEMMA NumThree ==
    ASSUME NEW c \in Item, NEW d \in Item, NEW e \in Item, NEW ops
    PROVE  /\ <<c, d, e>> \in Seq(Item)
           /\ Num(<<c, d, e>>, ops) = Is(c, ops) + Is(d, ops) + Is(e, ops)
<1> DEFINE two == <<c, d>>
           three == <<c, d, e>>
<1>1. three = Append(two, e)
  OBVIOUS
<1>2. two \in Seq(Item) /\ Num(two, ops) = Is(c, ops) + Is(d, ops)
  BY NumTwo
<1> HIDE DEF two, three
<1>3. three \in Seq(Item) /\ Num(three, ops) = Is(c, ops) + Is(d, ops) + Is(e, ops)
  BY <1>1, <1>2, NumAppend
<1> QED
  BY <1>3 DEF three

\* The write completions of operations that fail together
LEMMA NumWrites ==
    ASSUME NEW s \in Seq(Message), NEW ops, "write" \notin ops
    PROVE  LET failed == [i \in DOMAIN s |-> Done("write", s[i], TRUE)]
           IN  failed \in Seq(Item) /\ Num(failed, ops) = 0
<1> DEFINE failed == [i \in DOMAIN s |-> Done("write", s[i], TRUE)]
<1>1. failed \in Seq(Item)
  BY WriteFailures, SeqItems
<1>2. \A i \in DOMAIN failed : failed[i].op \notin ops
  BY DEF Done
<1> HIDE DEF failed
<1>3. Num(failed, ops) = 0
  BY <1>1, <1>2, NumType
<1> QED
  BY <1>1, <1>3 DEF failed

LEMMA NumFailures ==
    ASSUME NEW s \in Seq(Read), NEW ops
    PROVE  LET failed == [i \in DOMAIN s |-> Failed(s[i])]
           IN  failed \in Seq(Item) /\ Num(failed, ops) = Num(s, ops)
<1> DEFINE failed == [i \in DOMAIN s |-> Failed(s[i])]
<1>1. failed \in Seq(Item) /\ s \in Seq(Item)
  BY ReadFailures, SeqItems
<1>2. DOMAIN failed = DOMAIN s /\ \A i \in DOMAIN s : failed[i].op = s[i].op
  BY DEF Failed, Done
<1> HIDE DEF failed
<1>3. \A t \in Seq(Item) : \A i \in DOMAIN t : t[i] \in Ops(ops) <=> t[i].op \in ops
  <2>1. \A t \in Seq(Item) : \A i \in DOMAIN t : t[i] \in Item
    BY ElementOfSeq, LenProperties
  <2> QED
    BY <2>1 DEF Item, Ops
<1>4. Places(failed, Ops(ops)) = Places(s, Ops(ops))
  BY <1>1, <1>2, <1>3 DEF Places
<1> QED
  BY <1>1, <1>4 DEF Num, Count, failed

\* What closing a socket adds to the queue
Ended(ops) == Num(reader, ops)
              + (IF sock = "connecting" /\ "connect" \in ops THEN 1 ELSE 0)

LEMMA EndedType ==
    ASSUME TypeOK, NEW ops
    PROVE  reader \in Seq(Item) /\ Num(reader, ops) \in Nat /\ Ended(ops) \in Nat
<1>1. reader \in Seq(Item)
  BY SeqItems DEF TypeOK
<1>2. Num(reader, ops) \in Nat
  BY <1>1, NumType
<1> QED
  BY <1>1, <1>2 DEF Ended

LEMMA EndedNext ==
    ASSUME TypeOK', NEW ops
    PROVE  /\ reader' \in Seq(Item) /\ Num(reader', ops) \in Nat
           /\ Ended(ops)' \in Nat
<1>1. reader' \in Seq(Item)
  BY SeqItems DEF TypeOK
<1>2. Num(reader', ops) \in Nat
  BY <1>1, NumType
<1> QED
  BY <1>1, <1>2 DEF Ended

\* A pending header is a pending read.
LEMMA EndedHead ==
    ASSUME TypeOK
    PROVE  Ended({"head"}) > 0 => Ended({"head", "body"}) > 0
<1>1. \A ops : reader \in Seq(Item) /\ Num(reader, ops) \in Nat
  BY EndedType
<1>2. Num(reader, {"head"}) > 0 => Num(reader, {"head", "body"}) > 0
  BY <1>1, NumType
<1> QED
  BY <1>1, <1>2 DEF Ended

LEMMA NumCancelled ==
    ASSUME TypeOK, NEW ops, "write" \notin ops
    PROVE  Cancelled \in Seq(Item) /\ Num(Cancelled, ops) = Ended(ops)
<1> DEFINE reads    == [i \in DOMAIN reader |-> Failed(reader[i])]
           connects == IF sock = "connecting"
                       THEN <<Done("connect", NoMessage, TRUE)>> ELSE <<>>
           writes   == [i \in DOMAIN writing |-> Done("write", writing[i], TRUE)]
<1>1. reads \in Seq(Item) /\ Num(reads, ops) = Num(reader, ops)
  BY NumFailures DEF TypeOK
<1>2. connects \in Seq(Item)
      /\ Num(connects, ops) = IF sock = "connecting" /\ "connect" \in ops THEN 1 ELSE 0
  <2>1. Done("connect", NoMessage, TRUE) \in Item
    BY Constructors, Items
  <2>2. Is(Done("connect", NoMessage, TRUE), ops) = IF "connect" \in ops THEN 1 ELSE 0
    BY DEF Is, Done
  <2>3. CASE sock = "connecting"
    BY <2>1, <2>2, <2>3, NumOne
  <2>4. CASE sock # "connecting"
    BY <2>4, NumEmpty
  <2> QED
    BY <2>3, <2>4
<1>3. writes \in Seq(Item) /\ Num(writes, ops) = 0
  BY NumWrites DEF TypeOK
<1> HIDE DEF reads, connects, writes
<1>4. reads \o connects \in Seq(Item)
      /\ Num(reads \o connects, ops) = Num(reads, ops) + Num(connects, ops)
  BY <1>1, <1>2, NumConcat
<1>5. (reads \o connects) \o writes \in Seq(Item)
      /\ Num((reads \o connects) \o writes, ops) = Num(reads \o connects, ops) + 0
  BY <1>3, <1>4, NumConcat
<1>6. Cancelled = (reads \o connects) \o writes
  BY DEF Cancelled, reads, connects, writes
<1> QED
  BY <1>1, <1>2, <1>4, <1>5, <1>6, EndedType DEF Ended

-----------------------------------------------------------------------------
(* The operations of the connection's loop: those that are pending and     *)
(* those whose handlers are queued.  Most steps only move them.            *)

LoopOps == {"connect", "head", "body"}
Loop(ops) == Num(ready, ops) + Ended(ops)

LEMMA QueueParts ==
    ASSUME TypeOK, NEW ops \in SUBSET LoopOps
    PROVE  /\ ready \in Seq(Item) /\ Num(ready, ops) \in Nat
           /\ Ended(ops) \in Nat /\ Loop(ops) \in Nat
           /\ ready # <<>> => /\ Head(ready) \in Item /\ Tail(ready) \in Seq(Item)
                              /\ Num(Tail(ready), ops) \in Nat
                              /\ Num(ready, ops) = Is(Head(ready), ops) + Num(Tail(ready), ops)
<1>1. ready \in Seq(Item)
  BY SeqItems DEF TypeOK
<1>2. Num(ready, ops) \in Nat
  BY <1>1, NumType
<1>3. Ended(ops) \in Nat
  BY EndedType
<1> QED
  BY <1>1, <1>2, <1>3, NumTail DEF Loop

LEMMA NotQueued ==
    ASSUME TypeOK, NEW ops \in SUBSET LoopOps, NEW c \in Completion,
           c.op \notin LoopOps, NEW q \in Seq(Item)
    PROVE  Append(q, c) \in Seq(Item) /\ Num(Append(q, c), ops) = Num(q, ops)
<1>1. c \in Item /\ Is(c, ops) = 0 /\ Num(q, ops) \in Nat
  BY Items, NumType DEF Is
<1> QED
  BY <1>1, NumAppend

LEMMA StartWriteQueue ==
    ASSUME TypeOK, NEW ops \in SUBSET LoopOps, NEW m \in Message,
           NEW q \in Seq(Item), StartWrite(m, q)
    PROVE  Num(ready', ops) = Num(q, ops)
<1>1. Num(Append(q, Done("write", m, TRUE)), ops) = Num(q, ops)
  <2>1. Done("write", m, TRUE) \in Completion /\ Done("write", m, TRUE).op \notin LoopOps
    BY Constructors DEF Done, LoopOps
  <2> QED
    BY <2>1, NotQueued
<1> QED
  BY <1>1 DEF StartWrite

LEMMA AbandonQueue ==
    ASSUME TypeOK, NEW ops \in SUBSET LoopOps, NEW q \in Seq(Item), NEW state,
           AbandonSocket(state, q)
    PROVE  Loop(ops)' = Num(q, ops) + Ended(ops)
                        + IF state = "connecting" /\ "connect" \in ops THEN 1 ELSE 0
<1>1. Num(q \o Cancelled, ops) = Num(q, ops) + Ended(ops)
  BY NumCancelled, NumConcat DEF LoopOps
<1>2. Ended(ops)' = IF state = "connecting" /\ "connect" \in ops THEN 1 ELSE 0
  BY NumEmpty DEF AbandonSocket, Ended
<1>3. Loop(ops)' = Num(ready', ops) + Ended(ops)' /\ ready' = q \o Cancelled
  BY DEF Loop, AbandonSocket
<1> QED
  BY <1>1, <1>2, <1>3

\* What a read that is tried completes as
LEMMA ReadResultOp ==
    ASSUME TypeOK, NEW r \in Read, NEW c \in ReadResults(r)
    PROVE  c \in Item /\ c.op = r.op
<1>1. c \in Item
  BY ReadResultsType, Items
<1> QED
  BY <1>1 DEF ReadResults, Done

LEMMA StartReadQueue ==
    ASSUME TypeOK, NEW ops \in SUBSET LoopOps, NEW r \in Read,
           NEW q \in Seq(Item), StartRead(r, q), UNCHANGED sock
    PROVE  /\ Loop(ops)' <= Num(q, ops) + Ended(ops) + 1
           /\ r.op \in ops => Loop(ops)' >= 1
           /\ Loop(ops)' \in Nat
<1>0. /\ Num(q, ops) \in Nat /\ Ended(ops) \in Nat
      /\ reader \in Seq(Item) /\ Num(reader, ops) \in Nat
  BY NumType, EndedType
<1>1. CASE Waits /\ reader' = Append(reader, r) /\ ready' = q /\ UNCHANGED inbound
  <2>1. r \in Item
    BY ReadDone, Items
  <2>2. Num(reader', ops) = Num(reader, ops) + Is(r, ops)
    BY <1>0, <1>1, <2>1, NumAppend
  <2>3. /\ Ended(ops)' <= Ended(ops) + 1 /\ Ended(ops)' \in Nat
        /\ r.op \in ops => Ended(ops)' >= 1
    BY <1>0, <2>2 DEF Ended, Is
  <2>4. Loop(ops)' = Num(q, ops) + Ended(ops)'
    BY <1>1 DEF Loop
  <2> QED
    BY ONLY <1>0, <2>3, <2>4
<1>2. ASSUME NEW c \in Item, c.op = r.op, ready' = Append(q, c), UNCHANGED reader
      PROVE  /\ Loop(ops)' = Num(q, ops) + Is(c, ops) + Ended(ops)
  <2>1. Ended(ops)' = Ended(ops)
    BY <1>2 DEF Ended
  <2>2. Num(ready', ops) = Num(q, ops) + Is(c, ops)
    BY <1>2, NumAppend
  <2> QED
    BY <2>1, <2>2, <1>0 DEF Loop, Is
<1>3. ASSUME NEW c \in Item, c.op = r.op, ready' = Append(q, c), UNCHANGED reader
      PROVE  /\ Loop(ops)' <= Num(q, ops) + Ended(ops) + 1
             /\ r.op \in ops => Loop(ops)' >= 1
             /\ Loop(ops)' \in Nat
  <2>1. Loop(ops)' = Num(q, ops) + Is(c, ops) + Ended(ops)
    BY <1>2, <1>3
  <2>2. Is(c, ops) \in 0 .. 1 /\ (r.op \in ops => Is(c, ops) = 1)
    BY <1>3 DEF Is
  <2> QED
    BY ONLY <1>0, <2>1, <2>2
<1>4. CASE \E c \in ReadResults(r) : ready' = Append(q, c) /\ Consume(c) /\ UNCHANGED reader
  BY <1>3, <1>4, ReadResultOp
<1>5. CASE ready' = Append(q, Done(r.op, r.msg, TRUE)) /\ UNCHANGED reader
  <2>1. Done(r.op, r.msg, TRUE) \in Item /\ Done(r.op, r.msg, TRUE).op = r.op
    BY ReadDone, Items DEF Done, Failed
  <2> QED
    BY <1>3, <1>5, <2>1
<1> QED
  BY <1>1, <1>4, <1>5 DEF StartRead

-----------------------------------------------------------------------------
(* The steps that leave the loop as it is                                  *)

LEMMA SameLoop ==
    ASSUME NEW ops, UNCHANGED <<ready, sock, reader>>
    PROVE  Loop(ops)' = Loop(ops)
BY DEF Loop, Ended, Num, Count, Places

LEMMA QuietUser ==
    ASSUME TypeOK, NEW ops \in SUBSET LoopOps, NEW u \in Users,
           UserNext(u), ~Connect(u)
    PROVE  Loop(ops)' = Loop(ops)
BY SameLoop DEF UserNext, AsyncCallFuture, AsyncCallCallback, RegisterCallback,
   Subscribe, RecordToken, UserClose, Destroy, sockVars

LEMMA QuietShared ==
    ASSUME TypeOK, NEW ops \in SUBSET LoopOps, NEW t \in Threads,
           \/ Write(t) \/ Close(t) \/ ClearOutbox(t) \/ ClearMaps(t)
           \/ ErrorCallback(t) /\ ~EnableReconnect
    PROVE  Loop(ops)' = Loop(ops)
<1>0. ready \in Seq(Item)
  BY QueueParts
<1>1. CASE Write(t)
  <2>1. Head(todo[t]).msg \in Message
    BY <1>1, StepParts DEF Write, At, TypeOK
  <2>2. Num(ready', ops) = Num(ready, ops)
    BY <1>0, <1>1, <2>1, StartWriteQueue DEF Write, WriteIfFirst
  <2> QED
    BY <1>1, <2>2 DEF Loop, Ended, Write
<1>2. CASE Close(t)
  <2>1. CASE UNCHANGED <<sockVars, ready>>
    BY <2>1, SameLoop DEF sockVars
  <2>2. CASE AbandonSocket("closed", ready)
    <3>1. Loop(ops)' = Num(ready, ops) + Ended(ops) + 0
      BY <1>0, <2>2, AbandonQueue
    <3> QED
      BY <3>1, QueueParts DEF Loop
  <2> QED
    BY <1>2, <2>1, <2>2 DEF Close
<1>3. CASE ClearOutbox(t) \/ ClearMaps(t)
  BY <1>3, SameLoop DEF ClearOutbox, ClearMaps, sockVars
<1>4. CASE ErrorCallback(t) /\ ~EnableReconnect
  BY <1>4, SameLoop DEF ErrorCallback, sockVars
<1> QED
  BY ONLY <1>1, <1>2, <1>3, <1>4,
     \/ Write(t) \/ Close(t) \/ ClearOutbox(t) \/ ClearMaps(t)
     \/ ErrorCallback(t) /\ ~EnableReconnect

LEMMA QuietWrites ==
    ASSUME TypeOK, NEW ops \in SUBSET LoopOps, OnWritten \/ OnWriteFailed
    PROVE  Loop(ops)' = Loop(ops)
<1>0. /\ Num(Tail(ready), ops) = Num(ready, ops) /\ Tail(ready) \in Seq(Item)
  BY QueueParts DEF OnWritten, OnWriteFailed, Handles, Is, LoopOps
<1>1. CASE OnWritten
  <2>1. Num(ready', ops) = Num(Tail(ready), ops)
    <3>1. CASE Len(outbox) > 1
      <4>1. outbox[2] \in Message
        <5>1. outbox \in Seq(Message) /\ 2 \in 1 .. Len(outbox)
          BY <3>1, LenProperties DEF TypeOK
        <5> QED
          BY <5>1, ElementOfSeq
      <4> QED
        BY <1>0, <1>1, <3>1, <4>1, StartWriteQueue DEF OnWritten, WriteNext
    <3>2. CASE ~(Len(outbox) > 1)
      BY <1>1, <3>2 DEF OnWritten, WriteNext
    <3> QED
      BY <3>1, <3>2
  <2> QED
    BY <1>0, <1>1, <2>1 DEF Loop, Ended, OnWritten
<1>2. CASE OnWriteFailed
  BY <1>0, <1>2 DEF Loop, Ended, OnWriteFailed, sockVars
<1> QED
  BY <1>1, <1>2

LEMMA QuietReactor ==
    ASSUME TypeOK, NEW ops \in SUBSET LoopOps, PollNothing \/ PollReports \/ EventStale
    PROVE  Loop(ops)' = Loop(ops)
<1>0. /\ Num(Tail(ready), ops) = Num(ready, ops) /\ Tail(ready) \in Seq(Item)
  BY QueueParts DEF PollNothing, PollReports, EventStale, Handles, Is, LoopOps
<1>1. /\ Poll \in Completion /\ Poll.op \notin LoopOps
      /\ Event \in Completion /\ Event.op \notin LoopOps
  BY Constructors DEF Poll, Event, Done, LoopOps
<1>2. Num(ready', ops) = Num(ready, ops)
  <2>1. CASE PollNothing
    BY <1>0, <1>1, <2>1, NotQueued DEF PollNothing
  <2>2. CASE PollReports
    <3>1. <<Event, Poll>> \in Seq(Item) /\ Num(<<Event, Poll>>, ops) = 0
      BY <1>1, Items, NumTwo DEF Is
    <3>2. Num(Tail(ready) \o <<Event, Poll>>, ops) = Num(Tail(ready), ops) + Num(<<Event, Poll>>, ops)
      BY ONLY <1>0, <3>1, NumConcat
    <3>3. ready' = Tail(ready) \o <<Event, Poll>>
      BY <2>2 DEF PollReports
    <3>4. Num(ready, ops) \in Nat
      BY QueueParts
    <3> QED
      BY ONLY <1>0, <3>1, <3>2, <3>3, <3>4
  <2>3. CASE EventStale
    BY <1>0, <2>3 DEF EventStale
  <2> QED
    BY <2>1, <2>2, <2>3
<1>3. UNCHANGED <<sock, reader>>
  BY DEF PollNothing, PollReports, EventStale, sockVars
<1> QED
  BY <1>2, <1>3 DEF Loop, Ended

LEMMA QuietConnects ==
    ASSUME TypeOK, NEW ops \in SUBSET LoopOps, ConnectSucceeds \/ ConnectFails
    PROVE  Loop(ops)' = Loop(ops)
<1>0. /\ Num(Tail(ready), ops) = Num(ready, ops) /\ Tail(ready) \in Seq(Item)
      /\ Num(ready, ops) \in Nat
  <2>1. ready # <<>> /\ Head(ready).op = "event"
    BY DEF ConnectSucceeds, ConnectFails, Handles
  <2>2. Is(Head(ready), ops) = 0
    BY <2>1 DEF Is, LoopOps
  <2> QED
    BY <2>1, <2>2, QueueParts
<1> DEFINE c(ec) == Done("connect", NoMessage, ec)
<1>1. \A ec \in BOOLEAN : c(ec) \in Item /\ Is(c(ec), ops) = IF "connect" \in ops THEN 1 ELSE 0
  BY Constructors, Items DEF Done, Is
<1> DEFINE q(ec) == <<c(ec)>> \o Tail(ready)
<1>2. \A ec \in BOOLEAN : q(ec) \in Seq(Item)
                          /\ Num(q(ec), ops) = Num(ready, ops) + IF "connect" \in ops THEN 1 ELSE 0
  <2> TAKE ec \in BOOLEAN
  <2> DEFINE e == c(ec)
             one == IF "connect" \in ops THEN 1 ELSE 0
  <2>1. e \in Item /\ Is(e, ops) = one /\ one \in Nat
    BY <1>1
  <2> HIDE DEF e, one
  <2>2. <<e>> \o Tail(ready) \in Seq(Item)
        /\ Num(<<e>> \o Tail(ready), ops) = one + Num(ready, ops)
    BY <1>0, <2>1, NumFront
  <2>3. Num(<<e>> \o Tail(ready), ops) = Num(ready, ops) + one
    BY ONLY <1>0, <2>1, <2>2
  <2> QED
    BY ONLY <2>2, <2>3 DEF e, one
<1>3. CASE ConnectSucceeds
  <2>1. ready' = q(FALSE) /\ sock = "connecting" /\ sock' = "connected" /\ reader' = reader
    BY <1>3 DEF ConnectSucceeds
  <2> HIDE DEF q, c
  <2>2. Ended(ops) = Ended(ops)' + (IF "connect" \in ops THEN 1 ELSE 0) /\ Ended(ops)' \in Nat
    BY <2>1, EndedType DEF Ended
  <2>3. Num(ready', ops) = Num(ready, ops) + IF "connect" \in ops THEN 1 ELSE 0
    BY <1>2, <2>1
  <2> QED
    BY <1>0, <2>2, <2>3 DEF Loop
<1>4. CASE ConnectFails
  <2> DEFINE writes == [i \in DOMAIN writing |-> Done("write", writing[i], TRUE)]
             reads  == [i \in DOMAIN reader |-> Failed(reader[i])]
  <2>1. writes \in Seq(Item) /\ Num(writes, ops) = 0
    BY NumWrites DEF TypeOK, LoopOps
  <2>2. reads \in Seq(Item) /\ Num(reads, ops) = Num(reader, ops)
    BY NumFailures DEF TypeOK
  <2>3. /\ ready' = (q(TRUE) \o writes) \o reads
        /\ sock = "connecting" /\ sock' = "opened" /\ reader' = <<>>
    BY <1>4 DEF ConnectFails
  <2> HIDE DEF q, c, writes, reads
  <2>4. q(TRUE) \o writes \in Seq(Item)
        /\ Num(q(TRUE) \o writes, ops) = Num(q(TRUE), ops) + 0
    BY <1>2, <2>1, NumConcat
  <2>5. Num(ready', ops) = Num(q(TRUE) \o writes, ops) + Num(reads, ops)
    BY <2>2, <2>3, <2>4, NumConcat
  <2>6. Ended(ops) = Num(reader, ops) + (IF "connect" \in ops THEN 1 ELSE 0)
        /\ Ended(ops)' = 0
    BY <2>3, NumEmpty DEF Ended
  <2>7. Num(q(TRUE), ops) = Num(ready, ops) + IF "connect" \in ops THEN 1 ELSE 0
    BY <1>2
  <2>8. Loop(ops)' = Num(ready', ops) /\ Loop(ops) = Num(ready, ops) + Ended(ops)
    <3>1. Num(ready', ops) \in Nat
      BY <1>2, <2>2, <2>3, <2>4, NumConcat, NumType
    <3> QED
      BY <2>6, <3>1 DEF Loop
  <2>9. Num(ready', ops) = Num(ready, ops) + Ended(ops)
    <3> DEFINE one == IF "connect" \in ops THEN 1 ELSE 0
               two == Num(reader, ops)
    <3>1. one \in Nat /\ two \in Nat /\ Num(ready, ops) \in Nat
      BY <1>0, EndedType
    <3>2. Num(q(TRUE), ops) = Num(ready, ops) + one
      BY <2>7
    <3>3. Num(q(TRUE) \o writes, ops) = Num(q(TRUE), ops) + 0
      BY <2>4
    <3>4. Num(ready', ops) = Num(q(TRUE) \o writes, ops) + two
      BY <2>2, <2>5
    <3> HIDE DEF q, writes
    <3>5. Ended(ops) = two + one
      <4> DEFINE cc == IF sock = "connecting" /\ "connect" \in ops THEN 1 ELSE 0
      <4>1. Ended(ops) = two + cc
        BY DEF Ended
      <4>2. cc = one
        BY <2>3
      <4> HIDE DEF cc, one, two
      <4> QED
        BY <4>1, <4>2
    <3> HIDE DEF one, two
    <3> QED
      <4> DEFINE A == Num(ready, ops)
                 B == Num(q(TRUE), ops)
                 C == Num(q(TRUE) \o writes, ops)
                 D == Num(ready', ops)
                 E == Ended(ops)
      <4>1. A \in Nat /\ one \in Nat /\ two \in Nat
        BY ONLY <3>1
      <4>2. B = A + one
        BY ONLY <3>2
      <4>3. C = B + 0
        BY ONLY <3>3
      <4>4. D = C + two
        BY ONLY <3>4
      <4>5. E = two + one
        BY ONLY <3>5
      <4> HIDE DEF A, B, C, D, E
      <4>6. D = A + E
        BY ONLY <4>1, <4>2, <4>3, <4>4, <4>5
      <4> QED
        BY ONLY <4>6 DEF D, A, E
  <2> QED
    BY ONLY <2>8, <2>9
<1> QED
  BY <1>3, <1>4

LEMMA QuietSocket ==
    ASSUME TypeOK, NEW ops \in SUBSET LoopOps,
           ReadCompletes \/ LinkDrops \/ \E ec \in BOOLEAN : WriteCompletes(ec)
    PROVE  Loop(ops)' = Loop(ops)
<1>0. ready \in Seq(Item) /\ Num(ready, ops) \in Nat
  BY QueueParts
<1>1. CASE ReadCompletes
  <2>0. /\ Num(Tail(ready), ops) = Num(ready, ops) /\ Tail(ready) \in Seq(Item)
    BY <1>1, QueueParts DEF ReadCompletes, Handles, Is, LoopOps
  <2>1. /\ reader # <<>> /\ reader' = Tail(reader) /\ sock' = sock
        /\ Head(reader) \in Read
    BY <1>1, HeadTailProperties DEF ReadCompletes, TypeOK
  <2>2. PICK c \in ReadResults(Head(reader)) : ready' = <<c>> \o Tail(ready)
    BY <1>1 DEF ReadCompletes
  <2>3. c \in Item /\ c.op = Head(reader).op
    BY <2>1, ReadResultOp
  <2>4. Num(ready', ops) = Is(c, ops) + Num(ready, ops)
    <3>1. Num(<<c>> \o Tail(ready), ops) = Is(c, ops) + Num(Tail(ready), ops)
      BY <2>0, <2>3, NumFront
    <3> QED
      BY <2>0, <2>2, <3>1
  <2>5. Ended(ops) = Ended(ops)' + Is(c, ops) /\ Ended(ops)' \in Nat /\ Is(c, ops) \in Nat
    <3>1. /\ Num(reader', ops) \in Nat
          /\ Num(reader, ops) = Is(Head(reader), ops) + Num(reader', ops)
      BY <2>1, EndedType, NumTail
    <3>2. Is(c, ops) = Is(Head(reader), ops) /\ Is(c, ops) \in Nat
      BY <2>3 DEF Is
    <3> QED
      BY <2>1, <3>1, <3>2 DEF Ended
  <2> QED
    BY <1>0, <2>4, <2>5 DEF Loop
<1>2. CASE LinkDrops
  <2>1. Num(ready', ops) = Num(ready, ops) /\ Ended(ops)' = Ended(ops)
    BY <1>2 DEF LinkDrops, Ended
  <2> QED
    BY <2>1 DEF Loop
<1>3. ASSUME NEW ec \in BOOLEAN, WriteCompletes(ec) PROVE Loop(ops)' = Loop(ops)
  <2>1. Head(writing) \in Message
    BY <1>3, HeadTailProperties DEF WriteCompletes, TypeOK
  <2>2. Done("write", Head(writing), ec) \in Completion
        /\ Done("write", Head(writing), ec).op \notin LoopOps
    BY <2>1, Constructors DEF Done, LoopOps
  <2>3. Num(ready', ops) = Num(ready, ops)
    BY <1>0, <1>3, <2>2, NotQueued DEF WriteCompletes, Completes
  <2> QED
    BY <1>3, <2>3 DEF Loop, Ended, WriteCompletes
<1> QED
  BY <1>1, <1>2, <1>3

LEMMA QuietOthers ==
    ASSUME TypeOK, NEW ops \in SUBSET LoopOps,
           \/ UNCHANGED vars \/ FailCallbacks \/ CallBack \/ TimerNext \/ PeerNext
           \/ \E u \in Users : Stop(u)
    PROVE  Loop(ops)' = Loop(ops)
BY SameLoop DEF vars, FailCallbacks, CallBack, TimerNext, OnTimer, OnHeartbeat, PeerNext,
   PeerAnswers, PeerRepeats, PeerPublishes, Stop, sockVars

-----------------------------------------------------------------------------
(* The steps that Io has left                                              *)

Left(ops) == Num(todo[Io], ops)
Hand == {"do_read", "call_back", "fail_callbacks"}

LEMMA LeftType ==
    ASSUME TypeOK, NEW ops
    PROVE  /\ todo[Io] \in Seq(Item) /\ Left(ops) \in Nat
           /\ Idle(Io) => Left(ops) = 0
           /\ todo[Io] # <<>> =>
                /\ Head(todo[Io]) \in Item /\ Tail(todo[Io]) \in Seq(Item)
                /\ Num(Tail(todo[Io]), ops) \in Nat
                /\ Left(ops) = Is(Head(todo[Io]), ops) + Num(Tail(todo[Io]), ops)
<1>1. todo[Io] \in Seq(Item)
  BY SeqItems DEF TypeOK, Threads
<1>2. Left(ops) \in Nat
  BY <1>1, NumType DEF Left
<1> QED
  BY <1>1, <1>2, NumTail, NumEmpty DEF Idle, Left

LEMMA Items1 ==
    /\ \A op \in {"close", "clear_outbox", "clear_maps", "error_callback",
                  "fail_callbacks", "do_read"} :
          Do(op) \in Item /\ Do(op).op = op
    /\ \A m \in Message : WriteOf(m) \in Item /\ WriteOf(m).op = "write"
    /\ \A m \in Message, ec \in BOOLEAN :
          CallBackOf(m, ec) \in Item /\ CallBackOf(m, ec).op = "call_back"
<1>1. NoMessage \in Message
  BY Constructors
<1> QED
  BY <1>1 DEF Item, OpNames, Do, WriteOf, CallBackOf

\* What Io starts with: the loop is carried on by one of the steps, and by no
\* other than the first but for the reading that comes last.
Script(s) ==
    /\ s \in Seq(Item)
    /\ Num(s, {"do_read", "fail_callbacks"}) <= 1
    /\ s # <<>> => Num(Tail(s), {"call_back", "fail_callbacks"}) = 0

LEMMA ScriptTail ==
    ASSUME NEW s \in Seq(Item), s # <<>>, NEW ops,
           Num(s, ops) = Is(Head(s), ops)
    PROVE  Num(Tail(s), ops) = 0
<1>1. Is(Head(s), ops) \in Nat
  BY DEF Is
<1> QED
  BY <1>1, NumTail

LEMMA ScriptOne ==
    ASSUME NEW a \in Item
    PROVE  /\ Script(<<a>>)
           /\ \A ops : Num(<<a>>, ops) = Is(a, ops)
<1> DEFINE s == <<a>>
<1>1. s \in Seq(Item) /\ s # <<>> /\ Head(s) = a /\ \A ops : Num(s, ops) = Is(a, ops)
  BY NumOne
<1> HIDE DEF s
<1>2. Num(Tail(s), {"call_back", "fail_callbacks"}) = 0
  BY <1>1, ScriptTail
<1>3. Num(s, {"do_read", "fail_callbacks"}) <= 1
  BY <1>1 DEF Is
<1>4. Script(s)
  BY <1>1, <1>2, <1>3 DEF Script
<1> QED
  BY <1>1, <1>4 DEF s

LEMMA ScriptTwo ==
    ASSUME NEW a \in Item, NEW b \in Item,
           a.op \in {"call_back", "close", "error_callback"},
           b.op \in {"do_read", "error_callback"}
    PROVE  /\ Script(<<a, b>>)
           /\ \A ops : Num(<<a, b>>, ops) = Is(a, ops) + Is(b, ops)
<1> DEFINE s == <<a, b>>
<1>1. s \in Seq(Item) /\ s # <<>> /\ Head(s) = a
      /\ \A ops : Num(s, ops) = Is(a, ops) + Is(b, ops)
  BY NumTwo
<1> HIDE DEF s
<1>2. Num(Tail(s), {"call_back", "fail_callbacks"}) = 0
  BY <1>1, ScriptTail DEF Is
<1>3. Num(s, {"do_read", "fail_callbacks"}) <= 1
  BY <1>1 DEF Is
<1>4. Script(s)
  BY <1>1, <1>2, <1>3 DEF Script
<1> QED
  BY <1>1, <1>4 DEF s

LEMMA ScriptThree ==
    ASSUME NEW a \in Item, NEW b \in Item, NEW c \in Item,
           a.op \in {"call_back", "fail_callbacks"},
           b.op = "close", c.op = "error_callback"
    PROVE  /\ Script(<<a, b, c>>)
           /\ \A ops : Num(<<a, b, c>>, ops) = Is(a, ops) + Is(b, ops) + Is(c, ops)
<1> DEFINE s == <<a, b, c>>
<1>1. s \in Seq(Item) /\ s # <<>> /\ Head(s) = a
      /\ \A ops : Num(s, ops) = Is(a, ops) + Is(b, ops) + Is(c, ops)
  BY NumThree
<1> HIDE DEF s
<1>2. Num(Tail(s), {"call_back", "fail_callbacks"}) = 0
  BY <1>1, ScriptTail DEF Is
<1>3. Num(s, {"do_read", "fail_callbacks"}) <= 1
  BY <1>1 DEF Is
<1>4. Script(s)
  BY <1>1, <1>2, <1>3 DEF Script
<1> QED
  BY <1>1, <1>4 DEF s

\* What a new connection starts with
LEMMA ScriptConnected ==
    ASSUME TypeOK, NEW order \in Orders
    PROVE  LET s == <<Do("do_read")>>
                    \o [i \in DOMAIN order |-> WriteOf(Subscription(order[i]))]
           IN  Script(s) /\ \A ops : "write" \notin ops => Num(s, ops) = Is(Do("do_read"), ops)
<1> DEFINE r == Do("do_read")
           w == [i \in DOMAIN order |-> WriteOf(Subscription(order[i]))]
           s == <<r>> \o w
<1>1. r \in Item /\ r.op = "do_read"
  BY Items1
<1>2. w \in Seq(Item) /\ \A i \in DOMAIN w : w[i].op = "write"
  <2> DEFINE n == Cardinality(key_token_set)
  <2>1. n \in Nat
    BY KeyAssumption, FS_Subset, FS_CardinalityType DEF TypeOK
  <2>2. order \in [1 .. n -> Keys]
    BY DEF Orders, TypeOK
  <2>3. \A i \in 1 .. n : WriteOf(Subscription(order[i])) \in Item
    BY <2>2, Constructors, Items1
  <2>4. w \in [1 .. n -> Item]
    BY <2>2, <2>3
  <2>5. \A i \in DOMAIN w : w[i].op = "write"
    BY DEF WriteOf
  <2> HIDE DEF n, w
  <2>6. w \in Seq(Item)
    BY <2>1, <2>4
  <2> QED
    BY <2>5, <2>6
<1>3. ASSUME NEW ops, "write" \notin ops PROVE Num(s, ops) = Is(r, ops)
  <2> HIDE DEF r, w
  <2>1. \A i \in DOMAIN w : w[i].op \notin ops
    BY <1>2, <1>3
  <2>2. Num(w, ops) = 0
    BY <1>2, <2>1, NumType
  <2>3. Num(s, ops) = Is(r, ops) + Num(w, ops)
    BY <1>1, <1>2, NumFront
  <2> QED
    BY <2>2, <2>3 DEF Is
<1>4. s \in Seq(Item) /\ s # <<>> /\ Head(s) = r
  <2> HIDE DEF r, w
  <2>1. s \in Seq(Item)
    BY <1>1, <1>2, NumFront
  <2>2. Len(<<r>>) = 1 /\ <<r>> \in Seq(Item) /\ <<r>>[1] = r
    BY <1>1
  <2>3. s[1] = r /\ Len(s) = 1 + Len(w) /\ Len(w) \in Nat
    BY <1>2, <2>2, ConcatProperties, LenProperties
  <2>4. s # <<>>
    BY <2>1, <2>3, LenProperties
  <2> QED
    BY <2>1, <2>3, <2>4, HeadTailProperties
<1> HIDE DEF s, r
<1>5. Num(Tail(s), {"call_back", "fail_callbacks"}) = 0
  BY <1>3, <1>4, ScriptTail
<1>6. Num(s, {"do_read", "fail_callbacks"}) <= 1
  BY <1>3 DEF Is
<1>7. Script(s)
  BY <1>4, <1>5, <1>6 DEF Script
<1> QED
  BY <1>3, <1>7 DEF s, r

LEMMA OneThenOne ==
    ASSUME NEW a \in Item, NEW b \in Item PROVE <<a>> \o <<b>> = <<a, b>>
<1> DEFINE s == <<a>>
           t == <<b>>
           st == <<a, b>>
<1>1. /\ s \in Seq(Item) /\ t \in Seq(Item) /\ st \in Seq(Item)
      /\ Len(s) = 1 /\ Len(t) = 1 /\ Len(st) = 2
      /\ s[1] = a /\ t[1] = b /\ st[1] = a /\ st[2] = b
  OBVIOUS
<1> HIDE DEF s, t, st
<1>2. /\ s \o t \in Seq(Item) /\ Len(s \o t) = 2
      /\ \A i \in 1 .. (1 + 1) : (s \o t)[i] = IF i <= 1 THEN s[i] ELSE t[i - 1]
  BY <1>1, ConcatProperties
<1>3. (s \o t)[1] = a /\ (s \o t)[2] = b
  BY <1>1, <1>2
<1>4. s \o t = st
  <2>1. \A i \in 1 .. Len(s \o t) : (s \o t)[i] = st[i]
    BY <1>1, <1>2, <1>3
  <2> QED
    BY <1>1, <1>2, <2>1, SeqEqual
<1> QED
  BY <1>4 DEF s, t, st

\* What a body starts
LEMMA ScriptBody ==
    ASSUME TypeOK, NEW m \in Message, NEW s \in BodySteps(m)
    PROVE  /\ Script(s) /\ Num(s, {"do_read"}) = 1 /\ Num(s, Hand) >= 1
<1> DEFINE a == CallBackOf(m, FALSE)
           b == Do("error_callback")
           r == Do("do_read")
<1>1. /\ a \in Item /\ a.op = "call_back" /\ b \in Item /\ b.op = "error_callback"
      /\ r \in Item /\ r.op = "do_read"
  BY Items1
<1>2. s = <<a>> \o <<r>> \/ s = <<>> \o <<r>> \/ s = <<b>> \o <<r>>
  BY DEF BodySteps, CallbackSub
<1> HIDE DEF a, b, r
<1>3. s = <<a, r>> \/ s = <<r>> \/ s = <<b, r>>
  <2>1. <<a>> \o <<r>> = <<a, r>> /\ <<b>> \o <<r>> = <<b, r>>
    BY <1>1, OneThenOne
  <2>2. <<>> \o <<r>> = <<r>>
    <3>1. <<r>> \in Seq({r})
      OBVIOUS
    <3> QED
      BY <3>1, ConcatEmptySeq
  <2> QED
    BY <1>2, <2>1, <2>2, Zenon
<1>4. Is(r, {"do_read"}) = 1 /\ Is(r, Hand) = 1
      /\ Is(a, {"do_read"}) = 0 /\ Is(b, {"do_read"}) = 0
      /\ Is(a, Hand) \in Nat /\ Is(b, Hand) \in Nat
  BY <1>1 DEF Is, Hand
<1>5. CASE s = <<a, r>>
  BY <1>1, <1>4, <1>5, ScriptTwo
<1>6. CASE s = <<r>>
  BY <1>1, <1>4, <1>6, ScriptOne
<1>7. CASE s = <<b, r>>
  BY <1>1, <1>4, <1>7, ScriptTwo
<1> QED
  BY <1>3, <1>5, <1>6, <1>7

-----------------------------------------------------------------------------
(* How a thread's step leaves what Io has left                             *)

LEMMA TodoFacts ==
    /\ Io \in Threads
    /\ \A u \in Users : u \in Threads /\ u # Io
BY ThreadAssumption DEF Threads

LEMMA StartLeft ==
    ASSUME TypeOK, NEW t \in Threads, NEW steps, Start(t, steps)
    PROVE  todo'[Io] = IF t = Io THEN steps ELSE todo[Io]
BY TodoFacts DEF Start, TypeOK

LEMMA ContinueLeft ==
    ASSUME TypeOK, NEW t \in Threads, NEW steps, Continue(t, steps)
    PROVE  todo'[Io] = IF t = Io THEN steps \o Tail(todo[Io]) ELSE todo[Io]
BY TodoFacts DEF Continue, TypeOK

\* A step of Io ends and its function goes on to the next one.
LEMMA ContinueNothing ==
    ASSUME TypeOK, NEW t \in Threads, todo[t] # <<>>, Continue(t, <<>>)
    PROVE  todo'[Io] = IF t = Io THEN Tail(todo[Io]) ELSE todo[Io]
<1>1. todo'[Io] = IF t = Io THEN <<>> \o Tail(todo[Io]) ELSE todo[Io]
  BY ContinueLeft
<1>2. CASE t = Io
  <2>1. Tail(todo[Io]) \in Seq(Item)
    BY <1>2, LeftType
  <2> QED
    BY <1>1, <1>2, <2>1, ConcatEmptySeq
<1> QED
  BY <1>1, <1>2

Clearing == <<Do("clear_outbox"), Do("clear_maps")>>

LEMMA NumClearing ==
    /\ Clearing \in Seq(Item)
    /\ \A ops : {"clear_outbox", "clear_maps"} \cap ops = {} => Num(Clearing, ops) = 0
<1>1. Do("clear_outbox") \in Item /\ Do("clear_outbox").op = "clear_outbox"
      /\ Do("clear_maps") \in Item /\ Do("clear_maps").op = "clear_maps"
  BY Items1
<1>2. ASSUME NEW ops PROVE Num(Clearing, ops) = Is(Do("clear_outbox"), ops) + Is(Do("clear_maps"), ops)
  BY <1>1, NumTwo DEF Clearing
<1>3. Clearing \in Seq(Item)
  BY <1>1, NumTwo DEF Clearing
<1> QED
  BY <1>1, <1>2, <1>3 DEF Is

\* What a step of Io leaves of the steps it does not itself take
LEMMA LeftAfter ==
    ASSUME TypeOK, NEW ops, {"clear_outbox", "clear_maps"} \cap ops = {},
           todo[Io] # <<>>,
           \/ todo'[Io] = Tail(todo[Io])
           \/ todo'[Io] = Clearing \o Tail(todo[Io])
    PROVE  Left(ops)' = Left(ops) - Is(Head(todo[Io]), ops)
<1>1. /\ Tail(todo[Io]) \in Seq(Item) /\ Num(Tail(todo[Io]), ops) \in Nat
      /\ Left(ops) = Is(Head(todo[Io]), ops) + Num(Tail(todo[Io]), ops)
  BY LeftType
<1>2. Num(todo'[Io], ops) = Num(Tail(todo[Io]), ops)
  <2>1. Num(Clearing \o Tail(todo[Io]), ops) = Num(Clearing, ops) + Num(Tail(todo[Io]), ops)
    BY <1>1, NumClearing, NumConcat
  <2>2. Num(Clearing, ops) = 0
    BY NumClearing
  <2>3. Num(Clearing \o Tail(todo[Io]), ops) = Num(Tail(todo[Io]), ops)
    BY ONLY <1>1, <2>1, <2>2
  <2> QED
    BY <2>3
<1>3. Left(ops)' = Num(todo'[Io], ops)
  BY DEF Left
<1>4. Is(Head(todo[Io]), ops) \in Nat
  BY DEF Is
<1> QED
  BY ONLY <1>1, <1>2, <1>3, <1>4

LEMMA LeftSame ==
    ASSUME NEW ops, todo'[Io] = todo[Io]
    PROVE  Left(ops)' = Left(ops)
BY DEF Left

\* Io starts a function with the steps of a script.
Starts == Idle(Io) /\ Script(todo'[Io])

LEMMA HandledMessage == ASSUME TypeOK, ready # <<>> PROVE Head(ready).msg \in Message
BY CompletionParts DEF TypeOK

LEMMA IoScripts ==
    ASSUME TypeOK
    PROVE  /\ \A o \in Orders : OnConnected(o) => Starts /\ Left({"do_read"})' >= 1
           /\ OnWriteFailed => Starts /\ Left(Hand)' = 0
           /\ OnHeadFailed => Starts /\ Left({"close"})' >= 1
           /\ OnBodyClosed => Starts
           /\ OnBody => Starts /\ Left({"do_read"})' >= 1
           /\ OnBodyFailed => Starts
           /\ OnHeartbeat => Starts /\ Left(Hand)' = 0
<1> DEFINE ec == Do("error_callback")
           cl == Do("close")
           fc == Do("fail_callbacks")
           rd == Do("do_read")
<1>1. /\ ec \in Item /\ ec.op = "error_callback" /\ cl \in Item /\ cl.op = "close"
      /\ fc \in Item /\ fc.op = "fail_callbacks" /\ rd \in Item /\ rd.op = "do_read"
  BY Items1
<1>2. \A m \in Message : CallBackOf(m, TRUE) \in Item /\ CallBackOf(m, TRUE).op = "call_back"
  BY Items1
<1>3. WriteOf(NoMessage) \in Item /\ WriteOf(NoMessage).op = "write"
  BY Constructors, Items1
<1>4. \A ops : Left(ops)' = Num(todo'[Io], ops)
  BY DEF Left
<1>5. ASSUME NEW o \in Orders, OnConnected(o) PROVE Starts /\ Left({"do_read"})' >= 1
  <2> DEFINE s == <<Do("do_read")>>
                  \o [i \in DOMAIN o |-> WriteOf(Subscription(o[i]))]
  <2>1. Idle(Io) /\ todo'[Io] = s
    BY <1>5, TodoFacts DEF OnConnected, Handles, Free, Start, TypeOK
  <2>2. Script(s) /\ Num(s, {"do_read"}) = Is(rd, {"do_read"})
    BY ScriptConnected
  <2> HIDE DEF s, rd
  <2>3. Is(rd, {"do_read"}) = 1
    BY <1>1 DEF Is
  <2> QED
    BY <1>4, <2>1, <2>2, <2>3 DEF Starts
<1>6. ASSUME OnWriteFailed PROVE Starts /\ Left(Hand)' = 0
  <2>1. Idle(Io) /\ todo'[Io] = <<cl, ec>>
    BY <1>6, TodoFacts DEF OnWriteFailed, Handles, Free, Start, TypeOK
  <2> HIDE DEF cl, ec
  <2>2. Script(<<cl, ec>>) /\ Num(<<cl, ec>>, Hand) = Is(cl, Hand) + Is(ec, Hand)
    BY <1>1, ScriptTwo
  <2>3. Is(cl, Hand) = 0 /\ Is(ec, Hand) = 0
    BY <1>1 DEF Is, Hand
  <2> QED
    BY <1>4, <2>1, <2>2, <2>3 DEF Starts
<1>7. ASSUME OnHeadFailed PROVE Starts /\ Left({"close"})' >= 1
  <2>1. Idle(Io) /\ todo'[Io] = <<fc, cl, ec>>
    BY <1>7, TodoFacts DEF OnHeadFailed, Handles, Free, Start, TypeOK
  <2> HIDE DEF cl, ec, fc
  <2>2. Script(<<fc, cl, ec>>)
        /\ Num(<<fc, cl, ec>>, {"close"}) = Is(fc, {"close"}) + Is(cl, {"close"}) + Is(ec, {"close"})
    BY <1>1, ScriptThree
  <2>3. Is(fc, {"close"}) = 0 /\ Is(cl, {"close"}) = 1 /\ Is(ec, {"close"}) = 0
    BY <1>1 DEF Is
  <2> QED
    BY <1>4, <2>1, <2>2, <2>3 DEF Starts
<1>8. ASSUME OnBodyClosed PROVE Starts
  <2> DEFINE cb == CallBackOf(Head(ready).msg, TRUE)
  <2>1. Idle(Io) /\ ready # <<>> /\ todo'[Io] = <<cb>>
    BY <1>8, TodoFacts DEF OnBodyClosed, Handles, Free, Start, TypeOK
  <2>2. cb \in Item
    BY <1>2, <2>1, HandledMessage
  <2> HIDE DEF cb
  <2>3. Script(<<cb>>)
    BY <2>2, ScriptOne
  <2> QED
    BY <2>1, <2>3 DEF Starts
<1>9. ASSUME OnBody PROVE Starts /\ Left({"do_read"})' >= 1
  <2>1. ready # <<>> /\ Idle(Io)
    BY <1>9 DEF OnBody, Handles, Free
  <2>2. PICK s \in BodySteps(Head(ready).msg) : Start(Io, s)
    BY <1>9 DEF OnBody
  <2>3. todo'[Io] = s
    BY <2>2, TodoFacts DEF Start, TypeOK
  <2>4. Script(s) /\ Num(s, {"do_read"}) = 1
    BY <2>1, HandledMessage, ScriptBody
  <2> QED
    BY <1>4, <2>1, <2>3, <2>4 DEF Starts
<1>10. ASSUME OnBodyFailed PROVE Starts
  <2> DEFINE cb == CallBackOf(Head(ready).msg, TRUE)
  <2>1. Idle(Io) /\ ready # <<>> /\ todo'[Io] = <<cb, cl, ec>>
    BY <1>10, TodoFacts DEF OnBodyFailed, Handles, Free, Start, TypeOK
  <2>2. cb \in Item /\ cb.op = "call_back"
    BY <1>2, <2>1, HandledMessage
  <2> HIDE DEF cb, cl, ec
  <2>3. Script(<<cb, cl, ec>>)
    BY <1>1, <2>2, ScriptThree
  <2> QED
    BY <2>1, <2>3 DEF Starts
<1>11. ASSUME OnHeartbeat PROVE Starts /\ Left(Hand)' = 0
  <2> DEFINE w == WriteOf(NoMessage)
  <2>1. Idle(Io) /\ todo'[Io] = <<w>>
    BY <1>11, TodoFacts DEF OnHeartbeat, Handles, Free, Start, TypeOK
  <2>2. w \in Item /\ Is(w, Hand) = 0
    BY <1>3 DEF Is, Hand
  <2> HIDE DEF w
  <2>3. Script(<<w>>) /\ Num(<<w>>, Hand) = 0
    BY <2>2, ScriptOne
  <2> QED
    BY <1>4, <2>1, <2>3 DEF Starts
<1> QED
  BY <1>5, <1>6, <1>7, <1>8, <1>9, <1>10, <1>11

\* The step that Io takes is its next one, and leaves those behind it; the
\* steps of a user's thread leave Io's alone.
Goes(op) == /\ At(Io, op)
            /\ \/ todo'[Io] = Tail(todo[Io])
               \/ op = "close" /\ todo'[Io] = Clearing \o Tail(todo[Io])

LEMMA IoGoes ==
    ASSUME TypeOK
    PROVE  /\ DoRead => Goes("do_read")
           /\ FailCallbacks => Goes("fail_callbacks")
           /\ CallBack => Goes("call_back")
           /\ Write(Io) => Goes("write")
           /\ Close(Io) => Goes("close")
           /\ ClearOutbox(Io) => Goes("clear_outbox")
           /\ ClearMaps(Io) => Goes("clear_maps")
           /\ ErrorCallback(Io) => Goes("error_callback")
<1>1. ASSUME NEW op, At(Io, op), Continue(Io, <<>>)
      PROVE  Goes(op)
  BY <1>1, TodoFacts, ContinueNothing DEF Goes, At
<1>2. ASSUME Close(Io) PROVE Goes("close")
  <2>1. At(Io, "close") /\ (Continue(Io, <<>>) \/ Continue(Io, Clearing))
    BY <1>2 DEF Close, Clearing
  <2>2. CASE Continue(Io, Clearing)
    BY <2>1, <2>2, TodoFacts, ContinueLeft DEF Goes
  <2> QED
    BY <1>1, <2>1, <2>2
<1> QED
  BY <1>1, <1>2 DEF DoRead, FailCallbacks, CallBack, Write, ClearOutbox, ClearMaps,
     ErrorCallback

LEMMA UserLeaves ==
    ASSUME TypeOK, NEW u \in Users, UserNext(u) \/ SharedNext(u) \/ Stop(u) \/ Join(u)
    PROVE  todo'[Io] = todo[Io]
<1>1. \A steps : Start(u, steps) \/ Continue(u, steps) => todo'[Io] = todo[Io]
  BY TodoFacts, StartLeft, ContinueLeft
<1>2. CASE UserNext(u)
  BY <1>1, <1>2 DEF UserNext, AsyncCallFuture, AsyncCallCallback, RegisterCallback,
     Subscribe, RecordToken, Connect, UserClose, Destroy
<1>3. CASE SharedNext(u)
  BY <1>1, <1>3 DEF SharedNext, Write, Close, ClearOutbox, ClearMaps, ErrorCallback
<1>4. CASE Stop(u) \/ Join(u)
  BY <1>1, <1>4 DEF Stop, Join
<1> QED
  BY <1>2, <1>3, <1>4

LEMMA OthersLeave ==
    ASSUME \/ OnConnectIgnored \/ OnConnectFailed \/ OnWritten \/ OnHeadClosed \/ OnHead
           \/ \E id \in CallbackIds : OnTimer(id)
           \/ SocketNext \/ PeerNext \/ UNCHANGED vars
    PROVE  todo'[Io] = todo[Io]
BY DEF OnConnectIgnored, OnConnectFailed, OnWritten, OnHeadClosed, OnHead, OnTimer,
   SocketNext, PollNothing, PollReports, EventStale, ConnectSucceeds, ConnectFails,
   ReadCompletes, LinkDrops, WriteCompletes, PeerNext, PeerAnswers, PeerRepeats, PeerPublishes, vars

-----------------------------------------------------------------------------
\* The loop is in one hand at a time: a reading that Io is to start and a
\* failure to be told exclude each other, and what calls back comes first.
CarryInv == Script(todo[Io])

LEMMA CarryNext == TypeOK /\ CarryInv /\ [Next]_vars => CarryInv'
<1> SUFFICES ASSUME TypeOK, CarryInv, [Next]_vars PROVE Script(todo'[Io])
  BY DEF CarryInv
<1> DEFINE D == {"do_read", "fail_callbacks"}
           F == {"call_back", "fail_callbacks"}
<1>1. CASE todo'[Io] = todo[Io]
  BY <1>1 DEF CarryInv
<1>2. ASSUME NEW op, Goes(op) PROVE Script(todo'[Io])
  <2>1. /\ todo[Io] # <<>> /\ Tail(todo[Io]) \in Seq(Item)
        /\ \A ops : Num(Tail(todo[Io]), ops) \in Nat
        /\ \A ops : Num(todo[Io], ops) = Is(Head(todo[Io]), ops) + Num(Tail(todo[Io]), ops)
    BY <1>2, LeftType DEF Goes, At, Left
  <2>2. Num(Tail(todo[Io]), D) <= 1
    <3>1. Is(Head(todo[Io]), D) \in Nat /\ Num(todo[Io], D) <= 1
      BY DEF Is, CarryInv, Script
    <3> QED
      BY <2>1, <3>1
  <2>3. Num(Tail(todo[Io]), F) = 0
    BY <2>1 DEF CarryInv, Script
  <2>4. todo'[Io] \in Seq(Item) /\ Num(todo'[Io], D) = Num(Tail(todo[Io]), D)
        /\ Num(todo'[Io], F) = Num(Tail(todo[Io]), F)
    <3>1. CASE todo'[Io] = Tail(todo[Io])
      BY <2>1, <3>1
    <3>2. CASE todo'[Io] = Clearing \o Tail(todo[Io])
      <4>1. /\ Num(Clearing, D) = 0 /\ Num(Clearing, F) = 0 /\ Clearing \in Seq(Item)
        BY NumClearing
      <4>2. /\ Clearing \o Tail(todo[Io]) \in Seq(Item)
            /\ \A ops : Num(Clearing \o Tail(todo[Io]), ops)
                          = Num(Clearing, ops) + Num(Tail(todo[Io]), ops)
        BY <2>1, <4>1, NumConcat
      <4> QED
        BY <2>1, <3>2, <4>1, <4>2
    <3> QED
      BY <1>2, <3>1, <3>2 DEF Goes
  <2>5. ASSUME todo'[Io] # <<>> PROVE Num(Tail(todo'[Io]), F) = 0
    <3>1. /\ Num(todo'[Io], F) = Is(Head(todo'[Io]), F) + Num(Tail(todo'[Io]), F)
          /\ Num(Tail(todo'[Io]), F) \in Nat /\ Is(Head(todo'[Io]), F) \in Nat
      BY <2>4, <2>5, NumTail DEF Is
    <3> QED
      BY <2>3, <2>4, <3>1
  <2> QED
    BY <2>2, <2>4, <2>5 DEF Script
<1>3. CASE \E u \in Users : UserNext(u) \/ SharedNext(u) \/ Stop(u) \/ Join(u)
  BY <1>1, <1>3, UserLeaves
<1>4. CASE SharedNext(Io)
  BY <1>2, <1>4, IoGoes DEF SharedNext
<1>5. CASE HandlerNext
  <2>1. CASE \/ OnConnectIgnored \/ OnConnectFailed \/ OnWritten \/ OnHeadClosed \/ OnHead
    BY <1>1, <2>1, OthersLeave
  <2>2. CASE DoRead \/ FailCallbacks \/ CallBack
    BY <1>2, <2>2, IoGoes
  <2>3. CASE \/ \E o \in Orders : OnConnected(o)
             \/ OnWriteFailed \/ OnHeadFailed \/ OnBodyClosed \/ OnBody \/ OnBodyFailed
    BY <2>3, IoScripts DEF Starts
  <2> QED
    BY <1>5, <2>1, <2>2, <2>3 DEF HandlerNext
<1>6. CASE TimerNext
  <2>1. CASE OnHeartbeat
    BY <2>1, IoScripts DEF Starts
  <2>2. CASE \E id \in CallbackIds : OnTimer(id)
    BY <1>1, <2>2, OthersLeave
  <2> QED
    BY <1>6, <2>1, <2>2 DEF TimerNext
<1>7. CASE SocketNext \/ PeerNext \/ UNCHANGED vars
  BY <1>1, <1>7, OthersLeave
<1> QED
  BY <1>3, <1>4, <1>5, <1>6, <1>7, TodoFacts DEF Next, Threads

LEMMA CarryInit == Init => CarryInv
<1> SUFFICES ASSUME Init PROVE Script(todo[Io])
  BY DEF CarryInv
<1>1. todo[Io] = <<>>
  BY TodoFacts DEF Init
<1> QED
  BY <1>1, NumEmpty DEF Script

-----------------------------------------------------------------------------
(* How a user's thread goes through its steps                              *)

\* The first of a call's steps, or the one that takes its place
UserStarts(u) ==
    \/ \E w \in Item : w.op \in {"write", "register", "close"} /\ todo'[u] = <<w>>
    \/ \E w, k \in Item : w.op = "write" /\ k.op = "token" /\ todo'[u] = <<w, k>>
UserContinues(u) ==
    \/ todo'[u] = Tail(todo[u])
    \/ todo'[u] = Clearing \o Tail(todo[u])
    \/ At(u, "register") /\ \E w \in Item : w.op = "write" /\ todo'[u] = <<w>> \o Tail(todo[u])

LEMMA TodoOf ==
    ASSUME TypeOK, NEW t \in Threads
    PROVE  /\ todo[t] \in Seq(Item)
           /\ todo[t] # <<>> => Tail(todo[t]) \in Seq(Item)
           /\ \A steps : /\ Start(t, steps) => todo'[t] = steps
                         /\ Continue(t, steps) => todo'[t] = steps \o Tail(todo[t])
                         /\ Start(t, steps) \/ Continue(t, steps) =>
                              \A other \in Threads \ {t} : todo'[other] = todo[other]
<1>1. todo[t] \in Seq(Item)
  BY SeqItems DEF TypeOK
<1>2. todo[t] # <<>> => Tail(todo[t]) \in Seq(Item)
  BY <1>1, NumTail
<1> QED
  BY <1>1, <1>2 DEF TypeOK, Start, Continue

LEMMA UserGoes ==
    ASSUME TypeOK, NEW u \in Users, UserNext(u) \/ SharedNext(u)
    PROVE  /\ \A v \in Threads \ {u} : todo'[v] = todo[v]
           /\ \/ Connect(u) /\ todo'[u] = todo[u]
              \/ Destroy(u)
              \/ UserNext(u) /\ Idle(u) /\ UserStarts(u)
              \/ todo[u] # <<>> /\ UserContinues(u)
<1>0. u \in Threads
  BY TodoFacts
<1>1. ASSUME todo[u] # <<>>, Continue(u, <<>>)
      PROVE  /\ todo'[u] = Tail(todo[u])
             /\ \A v \in Threads \ {u} : todo'[v] = todo[v]
  <2>1. todo'[u] = <<>> \o Tail(todo[u]) /\ Tail(todo[u]) \in Seq(Item)
    BY <1>0, <1>1, TodoOf
  <2>2. <<>> \o Tail(todo[u]) = Tail(todo[u])
    BY <2>1, ConcatEmptySeq
  <2> QED
    BY <1>0, <1>1, <2>1, <2>2, TodoOf
<1>2. CASE AsyncCallFuture(u)
  <2> DEFINE w == WriteOf(Request(fu_id'))
  <2>1. fu_id' \in CallIds
    BY <1>2, CallAssumption DEF AsyncCallFuture, NextFutureId, TypeOK, CallIds, FutureIds
  <2>2. w \in Item /\ w.op = "write"
    BY <2>1, Constructors, Items1
  <2>3. Idle(u) /\ Start(u, <<w>>)
    BY <1>2 DEF AsyncCallFuture
  <2> HIDE DEF w
  <2> QED
    BY <1>0, <1>2, <2>2, <2>3, TodoOf DEF UserStarts, UserNext
<1>3. CASE AsyncCallCallback(u)
  <2> DEFINE w == Do("register")
  <2>1. w \in Item /\ w.op = "register"
    BY Constructors DEF Do, Item, OpNames
  <2>2. Idle(u) /\ Start(u, <<w>>)
    BY <1>3 DEF AsyncCallCallback
  <2> HIDE DEF w
  <2> QED
    BY <1>0, <1>3, <2>1, <2>2, TodoOf DEF UserStarts, UserNext
<1>4. CASE RegisterCallback(u)
  <2> DEFINE w == WriteOf(Request(callback_id'))
  <2>1. callback_id' \in CallIds
    <3>1. callback_id \in {0} \cup CallbackIds
      BY DEF TypeOK
    <3> QED
      BY <1>4, <3>1, CallAssumption DEF RegisterCallback, NextCallbackId, cb_flag,
         CallbackIds, CallIds
  <2>2. w \in Item /\ w.op = "write"
    BY <2>1, Constructors, Items1
  <2>3. At(u, "register") /\ Continue(u, <<w>>)
    BY <1>4 DEF RegisterCallback
  <2> HIDE DEF w
  <2> QED
    BY <1>0, <2>2, <2>3, TodoOf DEF UserContinues, At
<1>5. ASSUME NEW k \in Keys, Subscribe(u, k)
      PROVE  /\ \A v \in Threads \ {u} : todo'[v] = todo[v]
             /\ UserNext(u) /\ Idle(u) /\ UserStarts(u)
  <2> DEFINE w == WriteOf(Subscription(k))
             token == [Do("token") EXCEPT !.msg = Subscription(k)]
  <2>1. w \in Item /\ w.op = "write"
    BY Constructors, Items1
  <2>2. token \in Item /\ token.op = "token"
    BY Constructors DEF Do, Item, OpNames
  <2>3. Idle(u) /\ Start(u, <<w, token>>)
    BY <1>5 DEF Subscribe
  <2> HIDE DEF w, token
  <2> QED
    BY <1>0, <1>5, <2>1, <2>2, <2>3, TodoOf DEF UserStarts, UserNext
<1>6. CASE RecordToken(u)
  BY <1>1, <1>6 DEF RecordToken, At, UserContinues
<1>7. CASE Connect(u)
  BY <1>7 DEF Connect
<1>8. CASE UserClose(u)
  <2> DEFINE w == Do("close")
  <2>1. w \in Item /\ w.op = "close"
    BY Items1
  <2>2. Idle(u) /\ Start(u, <<w>>)
    BY <1>8 DEF UserClose
  <2> HIDE DEF w
  <2> QED
    BY <1>0, <1>8, <2>1, <2>2, TodoOf DEF UserStarts, UserNext
<1>9. CASE Destroy(u)
  BY <1>0, <1>9, TodoOf DEF Destroy
<1>10. CASE SharedNext(u)
  <2>1. todo[u] # <<>> /\ (Continue(u, <<>>) \/ Continue(u, Clearing))
    BY <1>10 DEF SharedNext, Write, Close, ClearOutbox, ClearMaps, ErrorCallback, At, Clearing
  <2>2. CASE Continue(u, Clearing)
    BY <1>0, <2>1, <2>2, TodoOf DEF UserContinues
  <2> QED
    BY <1>1, <2>1, <2>2 DEF UserContinues
<1> QED
  BY <1>2, <1>3, <1>4, <1>5, <1>6, <1>7, <1>8, <1>9, <1>10 DEF UserNext

\* The steps that a user's thread does not take add nothing to it.
LEMMA UserKeeps ==
    ASSUME TypeOK,
           \/ UNCHANGED vars \/ SharedNext(Io) \/ HandlerNext \/ TimerNext
           \/ SocketNext \/ PeerNext
    PROVE  \A u \in Users : todo'[u] = todo[u]
<1> SUFFICES ASSUME NEW u \in Users PROVE todo'[u] = todo[u]
  OBVIOUS
<1>1. u \in Threads \ {Io} /\ Io \in Threads
  BY TodoFacts
<1>2. \A steps : Start(Io, steps) \/ Continue(Io, steps) => todo'[u] = todo[u]
  BY <1>1, TodoOf
<1>3. CASE SharedNext(Io)
  BY <1>2, <1>3 DEF SharedNext, Write, Close, ClearOutbox, ClearMaps, ErrorCallback
<1>4. CASE HandlerNext
  BY <1>2, <1>4 DEF HandlerNext, OnConnectIgnored, OnConnectFailed, OnConnected,
     OnWritten, OnWriteFailed, OnHeadClosed, OnHead, OnHeadFailed,
     OnBodyClosed, OnBody, OnBodyFailed, DoRead, FailCallbacks, CallBack
<1>5. CASE TimerNext
  BY <1>2, <1>5 DEF TimerNext, OnTimer, OnHeartbeat
<1>6. CASE SocketNext \/ PeerNext \/ UNCHANGED vars
  BY <1>6, OthersLeave DEF SocketNext, PollNothing, PollReports, EventStale,
     ConnectSucceeds, ConnectFails, ReadCompletes, LinkDrops, WriteCompletes,
     PeerNext, PeerAnswers, PeerRepeats, PeerPublishes, vars
<1> QED
  BY <1>3, <1>4, <1>5, <1>6

-----------------------------------------------------------------------------
(* The destruction.  One thread goes through close(), stop() and the join  *)
(* while no other is in a function of the client.                          *)

Closes  == <<Do("close"), Do("stop"), Do("join")>>
Stops   == <<Do("stop"), Do("join")>>
Joins   == <<Do("join")>>
Clears1 == <<Do("clear_outbox"), Do("clear_maps"), Do("stop"), Do("join")>>
Clears2 == <<Do("clear_maps"), Do("stop"), Do("join")>>

\* The steps the destroying thread may have left, by how far it has come
EndSteps(l) == IF l = "closing" THEN {Closes, Clears1, Clears2, Stops}
               ELSE IF l = "stopped" THEN {Joins} ELSE {<<>>}

EndInv ==
    /\ life = "running" => \A u \in Users : Num(todo[u], {"stop", "join"}) = 0
    /\ life # "running" => \E d \in Users : /\ \A u \in Users \ {d} : Idle(u)
                                            /\ todo[d] \in EndSteps(life)
    /\ life = "destroyed" => /\ Idle(Io)
                             /\ sock = "closed" /\ writing = <<>> /\ peer = {}

LEMMA EndTails ==
    /\ Head(Closes).op = "close" /\ Tail(Closes) = Stops /\ Closes # <<>>
    /\ Head(Stops).op = "stop" /\ Tail(Stops) = Joins /\ Stops # <<>>
    /\ Head(Joins).op = "join" /\ Tail(Joins) = <<>> /\ Joins # <<>>
    /\ Head(Clears1).op = "clear_outbox" /\ Tail(Clears1) = Clears2 /\ Clears1 # <<>>
    /\ Head(Clears2).op = "clear_maps" /\ Tail(Clears2) = Stops /\ Clears2 # <<>>
    /\ Clearing \o Stops = Clears1
<1> DEFINE a == Do("close")
           b == Do("stop")
           c == Do("join")
           d == Do("clear_outbox")
           e == Do("clear_maps")
<1>1. /\ a.op = "close" /\ b.op = "stop" /\ c.op = "join"
      /\ d.op = "clear_outbox" /\ e.op = "clear_maps"
  BY DEF Do
<1>2. /\ Closes = <<a, b, c>> /\ Stops = <<b, c>> /\ Joins = <<c>>
      /\ Clears1 = <<d, e, b, c>> /\ Clears2 = <<e, b, c>> /\ Clearing = <<d, e>>
  BY DEF Closes, Stops, Joins, Clears1, Clears2, Clearing
<1> HIDE DEF a, b, c, d, e
<1>3. Head(Closes) = a /\ Tail(Closes) = Stops /\ Closes # <<>>
  BY <1>2
<1>4. Head(Stops) = b /\ Tail(Stops) = Joins /\ Stops # <<>>
  BY <1>2
<1>5. Head(Joins) = c /\ Tail(Joins) = <<>> /\ Joins # <<>>
  BY <1>2
<1>6. Head(Clears1) = d /\ Tail(Clears1) = Clears2 /\ Clears1 # <<>>
  BY <1>2
<1>7. Head(Clears2) = e /\ Tail(Clears2) = Stops /\ Clears2 # <<>>
  BY <1>2
<1>8. Clearing \o Stops = Clears1
  <2> DEFINE S == {a, b, c, d, e}
  <2>1. /\ Clearing \in Seq(S) /\ Stops \in Seq(S) /\ Clears1 \in Seq(S)
        /\ Len(Clearing) = 2 /\ Len(Stops) = 2 /\ Len(Clears1) = 4
        /\ Clearing[1] = d /\ Clearing[2] = e /\ Stops[1] = b /\ Stops[2] = c
        /\ Clears1[1] = d /\ Clears1[2] = e /\ Clears1[3] = b /\ Clears1[4] = c
    BY <1>2
  <2> HIDE DEF S
  <2>2. /\ Clearing \o Stops \in Seq(S) /\ Len(Clearing \o Stops) = 4
        /\ \A i \in 1 .. (2 + 2) : (Clearing \o Stops)[i]
                                    = IF i <= 2 THEN Clearing[i] ELSE Stops[i - 2]
    <3>1. /\ Clearing \o Stops \in Seq(S)
          /\ Len(Clearing \o Stops) = Len(Clearing) + Len(Stops)
          /\ \A i \in 1 .. (Len(Clearing) + Len(Stops)) :
               (Clearing \o Stops)[i]
                 = IF i <= Len(Clearing) THEN Clearing[i] ELSE Stops[i - Len(Clearing)]
      BY <2>1, ConcatProperties, Zenon
    <3> QED
      BY <2>1, <3>1
  <2>3. \A i \in 1 .. 4 : (Clearing \o Stops)[i] = Clears1[i]
    <3> DEFINE cs == Clearing \o Stops
    <3>1. \A i \in 1 .. 4 : cs[i] = IF i <= 2 THEN Clearing[i] ELSE Stops[i - 2]
      BY <2>2
    <3> HIDE DEF cs
    <3>2. cs[1] = d /\ cs[2] = e
      BY <2>1, <3>1
    <3>3. cs[3] = Stops[1] /\ cs[4] = Stops[2]
      <4>1. 3 \in 1 .. 4 /\ ~(3 <= 2) /\ 3 - 2 = 1 /\ 4 \in 1 .. 4 /\ ~(4 <= 2) /\ 4 - 2 = 2
        OBVIOUS
      <4> QED
        BY <3>1, <4>1
    <3>4. \A i \in 1 .. 4 : i = 1 \/ i = 2 \/ i = 3 \/ i = 4
      OBVIOUS
    <3>5. \A i \in 1 .. 4 : cs[i] = Clears1[i]
      BY ONLY <2>1, <3>2, <3>3, <3>4
    <3> QED
      BY <3>5 DEF cs
  <2> QED
    BY <2>1, <2>2, <2>3, SeqEqual
<1> QED
  BY <1>1, <1>3, <1>4, <1>5, <1>6, <1>7, <1>8

LEMMA EndInit == Init => EndInv
<1> SUFFICES ASSUME Init PROVE EndInv
  OBVIOUS
<1>1. life = "running" /\ \A u \in Users : todo[u] = <<>>
  BY TodoFacts DEF Init
<1> QED
  BY <1>1, NumEmpty DEF EndInv

\* While the client runs, no thread has come to stop() or the join.
LEMMA EndRunning ==
    ASSUME TypeOK, EndInv, life = "running", NEW u \in Users, UserNext(u) \/ SharedNext(u)
    PROVE  EndInv'
<1> DEFINE SJ == {"stop", "join"}
<1>0. /\ u \in Threads /\ todo[u] \in Seq(Item) /\ Num(todo[u], SJ) = 0
      /\ \A v \in Users \ {u} : v \in Threads \ {u}
  BY TodoFacts, TodoOf DEF EndInv
<1>1. \A v \in Users \ {u} : todo'[v] = todo[v]
  BY <1>0, UserGoes
<1>2. ASSUME Num(todo'[u], SJ) = 0, life' = life PROVE EndInv'
  BY <1>1, <1>2 DEF EndInv
<1>3. CASE Destroy(u)
  <2>1. life' = "closing" /\ todo'[u] = Closes
    BY <1>0, <1>3, TodoOf DEF Destroy, Closes
  <2>2. \A v \in Users \ {u} : todo'[v] = <<>>
    BY <1>1, <1>3 DEF Destroy, Idle
  <2> QED
    BY <2>1, <2>2 DEF EndInv, EndSteps, Idle
<1>4. CASE ~Destroy(u)
  <2>1. life' = life
    BY <1>4 DEF UserNext, SharedNext, AsyncCallFuture, AsyncCallCallback, RegisterCallback,
       Subscribe, RecordToken, Connect, UserClose, Write, Close, ClearOutbox, ClearMaps,
       ErrorCallback, connVars
  <2>2. CASE todo'[u] = todo[u]
    BY <1>0, <1>2, <2>1, <2>2
  <2>3. CASE UserStarts(u)
    <3>1. Num(todo'[u], SJ) = 0
      BY <2>3, NumOne, NumTwo DEF UserStarts, Is
    <3> QED
      BY <1>2, <2>1, <3>1
  <2>4. CASE todo[u] # <<>> /\ UserContinues(u)
    <3>1. Tail(todo[u]) \in Seq(Item) /\ Num(Tail(todo[u]), SJ) = 0
      <4>1. /\ Num(todo[u], SJ) = Is(Head(todo[u]), SJ) + Num(Tail(todo[u]), SJ)
            /\ Num(Tail(todo[u]), SJ) \in Nat /\ Is(Head(todo[u]), SJ) \in Nat
            /\ Tail(todo[u]) \in Seq(Item)
        BY <1>0, <2>4, NumTail DEF Is
      <4> QED
        BY <1>0, <4>1
    <3>2. CASE todo'[u] = Clearing \o Tail(todo[u])
      <4>1. Num(Clearing \o Tail(todo[u]), SJ) = Num(Clearing, SJ) + Num(Tail(todo[u]), SJ)
        BY <3>1, NumClearing, NumConcat
      <4>2. Num(Clearing, SJ) = 0
        BY NumClearing
      <4> QED
        BY <1>2, <2>1, <3>1, <3>2, <4>1, <4>2
    <3>3. ASSUME NEW w \in Item, w.op = "write", todo'[u] = <<w>> \o Tail(todo[u])
          PROVE  EndInv'
      <4>1. Num(<<w>> \o Tail(todo[u]), SJ) = Is(w, SJ) + Num(Tail(todo[u]), SJ)
        BY <3>1, NumFront
      <4>2. Is(w, SJ) = 0
        BY <3>3 DEF Is
      <4> QED
        BY <1>2, <2>1, <3>1, <3>3, <4>1, <4>2
    <3> QED
      BY <1>2, <2>1, <2>4, <3>1, <3>2, <3>3 DEF UserContinues
  <2> QED
    BY <1>4, <2>2, <2>3, <2>4, UserGoes
<1> QED
  BY <1>3, <1>4

\* A step of the destroying thread
LEMMA EndGoesOn ==
    ASSUME TypeOK, EndInv, life # "running", NEW u \in Users,
           SharedNext(u) \/ Stop(u) \/ Join(u)
    PROVE  EndInv'
<1>0. u \in Threads
  BY TodoFacts
<1>1. PICK d \in Users : (\A v \in Users \ {d} : Idle(v)) /\ todo[d] \in EndSteps(life)
  BY DEF EndInv
<1>2. todo[u] # <<>>
  BY DEF SharedNext, Write, Close, ClearOutbox, ClearMaps, ErrorCallback, Stop, Join, At
<1>3. u = d
  BY <1>1, <1>2 DEF Idle
<1>4. Continue(u, <<>>) \/ (Continue(u, Clearing) /\ Close(u))
  BY DEF SharedNext, Write, Close, ClearOutbox, ClearMaps, ErrorCallback, Stop, Join, Clearing
<1>5. \/ todo'[u] = Tail(todo[u])
      \/ Close(u) /\ todo'[u] = Clearing \o Tail(todo[u])
  <2>1. Tail(todo[u]) \in Seq(Item)
    BY <1>0, <1>2, TodoOf
  <2>2. <<>> \o Tail(todo[u]) = Tail(todo[u])
    BY <2>1, ConcatEmptySeq
  <2> QED
    BY <1>0, <1>4, <2>2, TodoOf
<1>6. \A v \in Users \ {u} : todo'[v] = <<>>
  <2>1. \A v \in Users \ {u} : v \in Threads \ {u}
    BY TodoFacts
  <2> QED
    BY <1>0, <1>1, <1>3, <1>4, <2>1, TodoOf DEF Idle
<1>7. life \in {"closing", "stopped", "destroyed"}
  BY DEF TypeOK
<1>8. life # "destroyed"
  BY <1>1, <1>2, <1>3 DEF EndSteps
<1>9. CASE SharedNext(u)
  <2>1. life' = life
    BY <1>9 DEF SharedNext, Write, Close, ClearOutbox, ClearMaps, ErrorCallback, connVars
  <2>2. Head(todo[u]).op \in {"write", "close", "clear_outbox", "clear_maps", "error_callback"}
        /\ (Close(u) => Head(todo[u]).op = "close")
    BY <1>9 DEF SharedNext, Write, Close, ClearOutbox, ClearMaps, ErrorCallback, At
  <2>3. CASE life = "closing"
    <3>1. todo[u] \in {Closes, Clears1, Clears2, Stops}
      BY <1>1, <1>3, <2>3 DEF EndSteps
    <3>2. todo'[u] \in {Closes, Clears1, Clears2, Stops}
      BY <1>5, <2>2, <3>1, EndTails
    <3>3. todo'[u] \in EndSteps(life')
      BY <2>1, <2>3, <3>2 DEF EndSteps
    <3> QED
      BY <1>6, <2>1, <2>3, <3>3 DEF EndInv, Idle
  <2>4. CASE life = "stopped"
    <3>1. todo[u] = Joins
      BY <1>1, <1>3, <2>4 DEF EndSteps
    <3> QED
      BY <2>2, <3>1, EndTails
  <2> QED
    BY <1>7, <1>8, <2>3, <2>4
<1>10. CASE Stop(u)
  <2>1. life' = "stopped" /\ Head(todo[u]).op = "stop" /\ ~Close(u)
    BY <1>10 DEF Stop, At, Close
  <2>2. todo[u] = Stops
    BY <1>1, <1>3, <1>7, <1>8, <2>1, EndTails DEF EndSteps
  <2>3. todo'[u] \in EndSteps(life')
    BY <1>5, <2>1, <2>2, EndTails DEF EndSteps
  <2> QED
    BY <1>6, <2>1, <2>3 DEF EndInv, Idle
<1>11. CASE Join(u)
  <2>1. /\ life' = "destroyed" /\ Head(todo[u]).op = "join" /\ ~Close(u)
        /\ sock' = "closed" /\ writing' = <<>> /\ peer' = {} /\ Idle(Io)
    BY <1>11 DEF Join, Joined, At, Close
  <2>2. todo[u] = Joins
    BY <1>1, <1>3, <1>7, <1>8, <2>1, EndTails DEF EndSteps
  <2>3. todo'[u] \in EndSteps(life')
    BY <1>5, <2>1, <2>2, EndTails DEF EndSteps
  <2>4. todo'[Io] = <<>>
    BY <1>11, <2>1, UserLeaves DEF Idle
  <2> QED
    BY <1>6, <2>1, <2>3, <2>4 DEF EndInv, Idle
<1> QED
  BY <1>9, <1>10, <1>11

\* No step is left to a client that was destroyed.
LEMMA DeadIsStill == TypeOK /\ EndInv /\ life = "destroyed" => ~Next
<1> SUFFICES ASSUME TypeOK, EndInv, life = "destroyed", Next PROVE FALSE
  OBVIOUS
<1>1. \A t \in Threads : Idle(t)
  <2>1. PICK d \in Users : (\A u \in Users \ {d} : Idle(u)) /\ todo[d] \in EndSteps(life)
    BY DEF EndInv
  <2>2. Idle(d)
    BY <2>1 DEF EndSteps, Idle
  <2> QED
    BY <2>1, <2>2 DEF EndInv, Threads
<1>2. ~Free /\ sock = "closed" /\ writing = <<>> /\ peer = {}
  BY DEF EndInv, Free
<1>3. \A u \in Users : ~(Stop(u) \/ Join(u))
  BY <1>1 DEF Stop, Join, At, Idle, Threads
<1>4. \A t \in Threads : ~SharedNext(t)
  BY <1>1 DEF SharedNext, Write, Close, ClearOutbox, ClearMaps, ErrorCallback, At, Idle
<1>5. ~HandlerNext
  BY <1>1, <1>2, TodoFacts DEF HandlerNext, OnConnectIgnored, OnConnectFailed, OnConnected,
     OnWritten, OnWriteFailed, OnHeadClosed, OnHead, OnHeadFailed,
     OnBodyClosed, OnBody, OnBodyFailed, DoRead, FailCallbacks, CallBack, Handles, At, Idle
<1>6. ~TimerNext
  BY <1>2 DEF TimerNext, OnTimer, OnHeartbeat, Handles
<1>7. ~SocketNext
  BY <1>2 DEF SocketNext, PollNothing, PollReports, EventStale, ConnectSucceeds, ConnectFails,
     ReadCompletes, LinkDrops, WriteCompletes, Handles
<1>8. ~PeerNext
  BY <1>2 DEF PeerNext
<1> QED
  BY <1>3, <1>4, <1>5, <1>6, <1>7, <1>8 DEF Next

LEMMA EndNext == TypeOK /\ EndInv /\ [Next]_vars => EndInv'
<1> SUFFICES ASSUME TypeOK, EndInv, [Next]_vars PROVE EndInv'
  OBVIOUS
<1>1. ASSUME life' = life, \A u \in Users : todo'[u] = todo[u], life # "destroyed"
      PROVE  EndInv'
  BY <1>1 DEF EndInv, Idle
<1>2. CASE UNCHANGED vars
  <2>1. UNCHANGED <<life, todo, sock, writing, peer>>
    <3>1. UNCHANGED <<connVars, sockVars, todo, peerVars>>
      BY <1>2 DEF vars, otherVars
    <3> QED
      BY <3>1 DEF connVars, sockVars, peerVars
  <2>2. CASE life # "destroyed"
    BY <1>1, <2>1, <2>2
  <2>3. CASE life = "destroyed"
    BY <2>1, <2>3 DEF EndInv, Idle
  <2> QED
    BY <2>2, <2>3
<1>3. CASE ~UNCHANGED vars
  <2>0. life # "destroyed" /\ Next
    BY <1>3, DeadIsStill
  <2>1. CASE life = "running" /\ \E u \in Users : UserNext(u)
    BY <2>1, EndRunning
  <2>2. ASSUME NEW u \in Users, Stop(u) \/ Join(u) PROVE EndInv'
    <3>1. life # "running"
      <4> SUFFICES ASSUME life = "running" PROVE FALSE
        OBVIOUS
      <4>1. todo[u] # <<>> /\ Head(todo[u]).op \in {"stop", "join"}
        BY <2>2 DEF Stop, Join, At
      <4>2. /\ todo[u] \in Seq(Item) /\ Num(todo[u], {"stop", "join"}) = 0
        BY TodoFacts, TodoOf DEF EndInv
      <4>3. Is(Head(todo[u]), {"stop", "join"}) = 1
        BY <4>1 DEF Is
      <4> QED
        BY <4>1, <4>2, <4>3, NumTail
    <3> QED
      BY <2>2, <3>1, EndGoesOn
  <2>3. ASSUME NEW u \in Users, SharedNext(u) PROVE EndInv'
    BY <2>3, EndRunning, EndGoesOn
  <2>4. CASE SharedNext(Io)
    <3>1. life' = life
      BY <2>4 DEF SharedNext, Write, Close, ClearOutbox, ClearMaps, ErrorCallback, connVars
    <3> QED
      BY <1>1, <2>0, <2>4, <3>1, UserKeeps
  <2>5. CASE HandlerNext
    <3>1. life' = life
      BY <2>5 DEF HandlerNext, OnConnectIgnored, OnConnectFailed, OnConnected,
         OnWritten, OnWriteFailed, OnHeadClosed, OnHead, OnHeadFailed,
         OnBodyClosed, OnBody, OnBodyFailed, DoRead, FailCallbacks, CallBack, connVars
    <3> QED
      BY <1>1, <2>0, <2>5, <3>1, UserKeeps
  <2>6. CASE TimerNext \/ SocketNext \/ PeerNext
    <3>1. life' = life
      BY <2>6 DEF TimerNext, OnTimer, OnHeartbeat, SocketNext, PollNothing, PollReports,
         EventStale, ConnectSucceeds, ConnectFails, ReadCompletes, LinkDrops, WriteCompletes,
         PeerNext, PeerAnswers, PeerRepeats, PeerPublishes, connVars
    <3> QED
      BY <1>1, <2>0, <2>6, <3>1, UserKeeps
  <2> QED
    BY <2>0, <2>1, <2>2, <2>3, <2>4, <2>5, <2>6 DEF Next, Threads
<1> QED
  BY <1>2, <1>3

LEMMA EndInvariant == Spec => []EndInv
BY EndInit, EndNext, TypeCorrect, PTL DEF Spec

(***************************************************************************)
(* Nothing runs in a client that was destroyed: stop() and the join of     *)
(* ~rpc_client leave no handler, operation or timer that could run after   *)
(* its members are gone (rpc_client.hpp:46 and :251).                      *)
(***************************************************************************)
THEOREM DestroyedUntouched == Spec => Untouched
<1>1. TypeOK /\ EndInv /\ [Next]_vars => [life # "destroyed"]_vars
  BY DeadIsStill
<1> QED
  BY <1>1, EndInvariant, TypeCorrect, PTL DEF Spec, Untouched

-----------------------------------------------------------------------------
(* A connected client reads.                                               *)

ReadOps == {"head", "body"}
Resumes == {"do_read", "close"}     \* what starts a read, or disconnects

ReaderInv == has_connected /\ life # "destroyed" =>
    /\ Loop(ReadOps) + Left(Resumes) >= 1
    /\ sock = "closed" => Loop({"head"}) + Left(Resumes) >= 1

LEMMA ReaderParts ==
    ASSUME TypeOK
    PROVE  /\ ReadOps \in SUBSET LoopOps /\ {"head"} \in SUBSET LoopOps
           /\ Loop(ReadOps) \in Nat /\ Loop({"head"}) \in Nat /\ Left(Resumes) \in Nat
           /\ Loop({"head"}) >= 1 => Loop(ReadOps) >= 1
           /\ Left({"do_read"}) >= 1 => Left(Resumes) >= 1
           /\ Left({"close"}) >= 1 => Left(Resumes) >= 1
<1>1. ReadOps \in SUBSET LoopOps /\ {"head"} \in SUBSET LoopOps
  BY DEF ReadOps, LoopOps
<1>2. Loop(ReadOps) \in Nat /\ Loop({"head"}) \in Nat /\ Left(Resumes) \in Nat
  BY <1>1, QueueParts, LeftType
<1>3. ASSUME NEW s \in Seq(Item), NEW a, NEW b, a \subseteq b, Num(s, a) > 0
      PROVE  Num(s, b) > 0
  BY <1>3, NumType
<1>4. ASSUME Loop({"head"}) >= 1 PROVE Loop(ReadOps) >= 1
  <2>0. /\ ready \in Seq(Item)
        /\ Num(ready, {"head"}) \in Nat /\ Ended({"head"}) \in Nat
        /\ Num(ready, ReadOps) \in Nat /\ Ended(ReadOps) \in Nat
    BY <1>1, QueueParts
  <2>1. Num(ready, {"head"}) > 0 \/ Ended({"head"}) > 0
    BY <1>4, <2>0 DEF Loop
  <2>2. CASE Num(ready, {"head"}) > 0
    <3>1. Num(ready, ReadOps) > 0
      BY <1>3, <2>0, <2>2 DEF ReadOps
    <3> QED
      BY <2>0, <3>1 DEF Loop
  <2>3. CASE Ended({"head"}) > 0
    <3>1. Ended(ReadOps) > 0
      BY <2>3, EndedHead DEF ReadOps
    <3> QED
      BY <2>0, <3>1 DEF Loop
  <2> QED
    BY <2>1, <2>2, <2>3
<1>5. ASSUME NEW op \in Resumes, Left({op}) >= 1 PROVE Left(Resumes) >= 1
  <2>1. todo[Io] \in Seq(Item) /\ Left({op}) \in Nat
    BY LeftType
  <2>2. Num(todo[Io], {op}) > 0
    BY <1>5, <2>1 DEF Left
  <2>3. Num(todo[Io], Resumes) > 0
    BY <1>3, <2>1, <2>2
  <2> QED
    BY <1>2, <2>3 DEF Left
<1>6. /\ Left({"do_read"}) >= 1 => Left(Resumes) >= 1
      /\ Left({"close"}) >= 1 => Left(Resumes) >= 1
  BY <1>5 DEF Resumes
<1> QED
  BY <1>1, <1>2, <1>4, <1>6

LEMMA NaturalNext ==
    ASSUME TypeOK', NEW ops
    PROVE  /\ Left(ops)' \in Nat
           /\ ops \in SUBSET LoopOps => Loop(ops)' \in Nat
<1>1. ready' \in Seq(Item) /\ todo'[Io] \in Seq(Item)
  BY SeqItems, TodoFacts DEF TypeOK
<1>2. Num(ready', ops) \in Nat /\ Num(todo'[Io], ops) \in Nat
  BY <1>1, NumType
<1>3. Ended(ops)' \in Nat
  BY EndedNext
<1> QED
  BY <1>2, <1>3 DEF Left, Loop

\* A step that takes nothing away from the reading
Steady == /\ has_connected' => has_connected
          /\ life = "destroyed" => life' = "destroyed"
          /\ sock' = "closed" => sock = "closed"
          /\ \A ops \in SUBSET LoopOps : "connect" \notin ops => Loop(ops)' = Loop(ops)
          /\ Left(Resumes)' >= Left(Resumes)

LEMMA SteadyReader ==
    ASSUME TypeOK, TypeOK', ReaderInv, Steady
    PROVE  ReaderInv'
<1>1. Loop(ReadOps)' = Loop(ReadOps) /\ Loop({"head"})' = Loop({"head"})
  BY ReaderParts DEF Steady, ReadOps
<1>2. /\ Loop(ReadOps) \in Nat /\ Loop({"head"}) \in Nat
      /\ Left(Resumes) \in Nat /\ Left(Resumes)' \in Nat
  BY NaturalNext, ReaderParts
<1> QED
  BY <1>1, <1>2 DEF Steady, ReaderInv

\* A step that starts reading, or leads to it
LEMMA ReadingAgain ==
    ASSUME TypeOK', \/ Left({"do_read"})' >= 1 \/ Left({"close"})' >= 1
                    \/ Loop({"head"})' >= 1 
                    \/ Loop(ReadOps)' >= 1 /\ sock' # "closed"
    PROVE  ReaderInv'
<1>1. /\ Loop({"head"})' \in Nat /\ Loop(ReadOps)' \in Nat /\ Left(Resumes)' \in Nat
      /\ ready' \in Seq(Item) /\ todo'[Io] \in Seq(Item)
  BY NaturalNext, SeqItems, TodoFacts DEF TypeOK, ReadOps, LoopOps
<1>2. ASSUME NEW s \in Seq(Item), NEW a, NEW b, a \subseteq b, Num(s, a) >= 1
      PROVE  Num(s, b) >= 1
  BY <1>2, NumType
<1>3. ASSUME NEW op \in Resumes, Left({op})' >= 1 PROVE ReaderInv'
  <2>1. Num(todo'[Io], {op}) >= 1
    BY <1>3 DEF Left
  <2>2. Num(todo'[Io], Resumes) >= 1
    BY <1>1, <1>2, <2>1
  <2>3. Left(Resumes)' >= 1
    BY <2>2 DEF Left
  <2> QED
    BY <1>1, <2>3 DEF ReaderInv
<1>4. CASE Loop({"head"})' >= 1
  <2>1. Loop(ReadOps)' >= 1
    <3>1. /\ Num(ready', {"head"}) \in Nat /\ Ended({"head"})' \in Nat
          /\ Num(ready', ReadOps) \in Nat /\ Ended(ReadOps)' \in Nat
      BY <1>1, NumType, EndedNext
    <3>2. Num(ready', {"head"}) >= 1 \/ Ended({"head"})' >= 1
      BY <1>4, <3>1 DEF Loop
    <3>3. CASE Num(ready', {"head"}) >= 1
      <4>1. Num(ready', ReadOps) >= 1
        BY <1>1, <1>2, <3>3 DEF ReadOps
      <4> QED
        BY <3>1, <4>1 DEF Loop
    <3>4. CASE Ended({"head"})' >= 1
      <4>1. /\ reader' \in Seq(Item) /\ Num(reader', {"head"}) \in Nat
            /\ Num(reader', ReadOps) \in Nat
        BY EndedNext
      <4>2. Num(reader', {"head"}) >= 1
        BY <3>4, <4>1 DEF Ended
      <4>3. Num(reader', ReadOps) >= 1
        BY <1>2, <4>1, <4>2 DEF ReadOps
      <4>4. Ended(ReadOps)' >= 1
        BY <4>1, <4>3 DEF Ended, ReadOps
      <4> QED
        BY <3>1, <4>4 DEF Loop
    <3> QED
      BY <3>2, <3>3, <3>4
  <2> QED
    BY <1>1, <1>4, <2>1 DEF ReaderInv
<1>5. CASE Loop(ReadOps)' >= 1 /\ sock' # "closed"
  BY <1>1, <1>5 DEF ReaderInv
<1> QED
  BY <1>3, <1>4, <1>5 DEF Resumes

\* The steps of a function of Io, but those that read or disconnect
LEMMA SteadyLeft ==
    ASSUME TypeOK, NEW op, op \notin Resumes, Goes(op)
    PROVE  Left(Resumes)' = Left(Resumes)
<1>1. Left(Resumes)' = Left(Resumes) - Is(Head(todo[Io]), Resumes)
  BY LeftAfter DEF Goes, At, Resumes
<1>2. Is(Head(todo[Io]), Resumes) = 0 /\ Left(Resumes) \in Nat
  BY LeftType DEF Goes, At, Is
<1> QED
  BY <1>1, <1>2

LEMMA ReaderUser ==
    ASSUME TypeOK, TypeOK', ReaderInv, life # "destroyed", NEW u \in Users,
           UserNext(u) \/ Stop(u) \/ Join(u)
    PROVE  ReaderInv'
<1>1. todo'[Io] = todo[Io] /\ Left(Resumes)' = Left(Resumes) /\ Left(Resumes) \in Nat
  BY UserLeaves, LeftSame, LeftType
<1>2. CASE Connect(u)
  BY <1>2 DEF Connect, ReaderInv, connVars
<1>3. CASE UserNext(u) /\ ~Connect(u)
  <2>1. \A ops \in SUBSET LoopOps : Loop(ops)' = Loop(ops)
    BY <1>3, QuietUser
  <2>2. UNCHANGED <<has_connected, sock>>
    BY <1>3 DEF UserNext, AsyncCallFuture, AsyncCallCallback, RegisterCallback,
       Subscribe, RecordToken, UserClose, Destroy, sockVars, connVars
  <2> QED
    BY <1>1, <2>1, <2>2, SteadyReader DEF Steady
<1>4. CASE Stop(u)
  <2>1. \A ops \in SUBSET LoopOps : Loop(ops)' = Loop(ops)
    BY <1>4, QuietOthers
  <2>2. UNCHANGED <<has_connected, sock>>
    BY <1>4 DEF Stop, sockVars
  <2> QED
    BY <1>1, <2>1, <2>2, SteadyReader DEF Steady
<1>5. CASE Join(u)
  BY <1>5 DEF Join, ReaderInv
<1> QED
  BY <1>2, <1>3, <1>4, <1>5

LEMMA ReaderShared ==
    ASSUME TypeOK, TypeOK', ReaderInv, life # "destroyed", NEW t \in Threads, SharedNext(t)
    PROVE  ReaderInv'
<1>0. t = Io \/ t \in Users
  BY DEF Threads
<1>1. CASE Close(t)
  BY <1>1 DEF Close, ReaderInv
<1>2. CASE ~Close(t)
  <2>1. Left(Resumes)' = Left(Resumes) /\ Left(Resumes) \in Nat
    <3>1. CASE t \in Users
      BY <3>1, UserLeaves, LeftSame, LeftType
    <3>2. CASE t = Io
      <4>1. \E op : op \notin Resumes /\ Goes(op)
        BY <1>2, <3>2, IoGoes DEF SharedNext, Resumes
      <4> QED
        BY <4>1, SteadyLeft, LeftType
    <3> QED
      BY <1>0, <3>1, <3>2
  <2>2. has_connected' = has_connected
    BY <1>2 DEF SharedNext, Write, ClearOutbox, ClearMaps, ErrorCallback, connVars
  <2>3. CASE ErrorCallback(t) /\ EnableReconnect
    <3>1. AbandonSocket("connecting", ready)
      BY <2>3 DEF ErrorCallback, AsyncReconnect
    <3>2. ASSUME NEW ops \in SUBSET LoopOps, "connect" \notin ops
          PROVE  Loop(ops)' = Loop(ops)
      <4>1. Loop(ops)' = Num(ready, ops) + Ended(ops) + 0
        BY <3>1, <3>2, QueueParts, AbandonQueue
      <4> QED
        BY <4>1, QueueParts DEF Loop
    <3>3. sock' # "closed"
      BY <3>1 DEF AbandonSocket
    <3> QED
      BY <2>1, <2>2, <3>2, <3>3, SteadyReader DEF Steady
  <2>4. CASE ~(ErrorCallback(t) /\ EnableReconnect)
    <3>1. \/ Write(t) \/ Close(t) \/ ClearOutbox(t) \/ ClearMaps(t)
          \/ (ErrorCallback(t) /\ ~EnableReconnect)
      BY <1>2, <2>4 DEF SharedNext
    <3>2. \A ops \in SUBSET LoopOps : Loop(ops)' = Loop(ops)
      BY <3>1, QuietShared
    <3>3. sock' = sock
      BY <1>2, <3>1 DEF Write, ClearOutbox, ClearMaps, ErrorCallback, sockVars
    <3> QED
      BY <2>1, <2>2, <3>2, <3>3, SteadyReader DEF Steady
  <2> QED
    BY <2>3, <2>4
<1> QED
  BY <1>1, <1>2

LEMMA ReaderHandler ==
    ASSUME TypeOK, TypeOK', ReaderInv, life # "destroyed", HandlerNext
    PROVE  ReaderInv'
<1>1. CASE OnConnectIgnored
  <2>1. ASSUME NEW ops \in SUBSET LoopOps, "connect" \notin ops
        PROVE  Loop(ops)' = Loop(ops)
    <3>1. Is(Head(ready), ops) = 0 /\ ready # <<>> /\ ready' = Tail(ready) /\ Ended(ops)' = Ended(ops)
      BY <1>1, <2>1 DEF OnConnectIgnored, Handles, Is, Ended, sockVars
    <3> QED
      BY <3>1, QueueParts DEF Loop
  <2>2. Left(Resumes)' = Left(Resumes) /\ Left(Resumes) \in Nat
    BY <1>1, OthersLeave, LeftSame, LeftType
  <2>3. UNCHANGED <<has_connected, sock>>
    BY <1>1 DEF OnConnectIgnored, connVars, sockVars
  <2> QED
    BY <2>1, <2>2, <2>3, SteadyReader DEF Steady
<1>2. CASE OnConnectFailed \/ OnWriteFailed \/ OnHeadClosed \/ OnBodyFailed
  BY <1>2 DEF OnConnectFailed, OnWriteFailed, OnHeadClosed, OnBodyFailed, ReaderInv
<1>3. CASE \/ \E o \in Orders : OnConnected(o)
           \/ OnHeadFailed \/ OnBody
  BY <1>3, IoScripts, ReadingAgain
<1>4. CASE OnWritten
  <2>1. \A ops \in SUBSET LoopOps : Loop(ops)' = Loop(ops)
    BY <1>4, QuietWrites
  <2>2. Left(Resumes)' = Left(Resumes) /\ Left(Resumes) \in Nat
    BY <1>4, OthersLeave, LeftSame, LeftType
  <2>3. UNCHANGED <<has_connected, sock>>
    BY <1>4 DEF OnWritten, connVars
  <2> QED
    BY <2>1, <2>2, <2>3, SteadyReader DEF Steady
<1>5. CASE OnHead
  <2> DEFINE r == BodyRead(Head(ready).msg)
  <2>1. /\ ready # <<>> /\ sock # "closed" /\ sock' = sock
        /\ StartRead(r, Tail(ready))
    BY <1>5 DEF OnHead, Handles
  <2>2. r \in Read /\ r.op = "body"
    BY <2>1, HandledMessage, Constructors DEF BodyRead, Done
  <2>3. Tail(ready) \in Seq(Item)
    BY <2>1, QueueParts, ReaderParts
  <2> HIDE DEF r
  <2>4. Loop(ReadOps)' >= 1
    BY <2>1, <2>2, <2>3, StartReadQueue, ReaderParts DEF ReadOps
  <2> QED
    BY <2>1, <2>4, ReadingAgain
<1>6. CASE OnBodyClosed
  <2>1. ASSUME has_connected, life # "destroyed" PROVE Loop({"head"})' >= 1
    <3>1. Loop({"head"}) >= 1
      <4>1. sock = "closed" /\ Idle(Io)
        BY <1>6 DEF OnBodyClosed, Handles, Free
      <4>2. Left(Resumes) = 0 /\ Loop({"head"}) \in Nat
        BY <4>1, LeftType, ReaderParts
      <4> QED
        BY <2>1, <4>1, <4>2 DEF ReaderInv
    <3>2. ready # <<>> /\ Is(Head(ready), {"head"}) = 0 /\ ready' = Tail(ready)
          /\ Ended({"head"})' = Ended({"head"})
      BY <1>6 DEF OnBodyClosed, Handles, Is, Ended, sockVars
    <3>3. Loop({"head"})' = Loop({"head"})
      BY <3>2, QueueParts, ReaderParts DEF Loop
    <3> QED
      BY <3>1, <3>3
  <2>2. UNCHANGED <<has_connected, life>>
    BY <1>6 DEF OnBodyClosed, connVars
  <2>3. CASE has_connected /\ life # "destroyed"
    BY <2>1, <2>3, ReadingAgain
  <2>4. CASE ~(has_connected /\ life # "destroyed")
    BY <2>2, <2>4 DEF ReaderInv
  <2> QED
    BY <2>3, <2>4
<1>7. CASE DoRead
  <2>1. HeadRead \in Read /\ HeadRead.op = "head"
    BY Constructors DEF HeadRead, Done
  <2>2. ready \in Seq(Item) /\ {"head"} \in SUBSET LoopOps
    BY QueueParts, ReaderParts
  <2>3. Loop({"head"})' >= 1
    BY <1>7, <2>1, <2>2, StartReadQueue DEF DoRead
  <2> QED
    BY <2>3, ReadingAgain
<1>8. CASE FailCallbacks \/ CallBack
  <2>1. \A ops \in SUBSET LoopOps : Loop(ops)' = Loop(ops)
    BY <1>8, QuietOthers
  <2>2. \E op : op \notin Resumes /\ Goes(op)
    BY <1>8, IoGoes DEF Resumes
  <2>3. Left(Resumes)' = Left(Resumes) /\ Left(Resumes) \in Nat
    BY <2>2, SteadyLeft, LeftType
  <2>4. UNCHANGED <<has_connected, sock>>
    BY <1>8 DEF FailCallbacks, CallBack, connVars, sockVars
  <2> QED
    BY <2>1, <2>3, <2>4, SteadyReader DEF Steady
<1> QED
  BY <1>1, <1>2, <1>3, <1>4, <1>5, <1>6, <1>7, <1>8 DEF HandlerNext

LEMMA ReaderOthers ==
    ASSUME TypeOK, TypeOK', ReaderInv, life # "destroyed",
           TimerNext \/ SocketNext \/ PeerNext
    PROVE  ReaderInv'
<1>1. \A ops \in SUBSET LoopOps : Loop(ops)' = Loop(ops)
  BY QuietOthers, QuietReactor, QuietConnects, QuietSocket DEF SocketNext
<1>2. UNCHANGED has_connected /\ (sock' = "closed" => sock = "closed")
  BY DEF TimerNext, OnTimer, OnHeartbeat, SocketNext, PollNothing, PollReports, EventStale,
     ConnectSucceeds, ConnectFails, ReadCompletes, LinkDrops, WriteCompletes, PeerNext,
     PeerAnswers, PeerRepeats, PeerPublishes, connVars, sockVars
<1>3. Left(Resumes)' >= Left(Resumes)
  <2>1. CASE OnHeartbeat
    <3>1. Idle(Io)
      BY <2>1 DEF OnHeartbeat, Handles, Free
    <3> QED
      BY <3>1, LeftType, NaturalNext
  <2>2. CASE ~OnHeartbeat
    <3>1. todo'[Io] = todo[Io]
      BY <2>2, OthersLeave DEF TimerNext
    <3> QED
      BY <3>1, LeftSame, LeftType
  <2> QED
    BY <2>1, <2>2
<1> QED
  BY <1>1, <1>2, <1>3, SteadyReader DEF Steady

LEMMA ReaderNext == TypeOK /\ TypeOK' /\ EndInv /\ ReaderInv /\ [Next]_vars => ReaderInv'
<1> SUFFICES ASSUME TypeOK, TypeOK', EndInv, ReaderInv, [Next]_vars PROVE ReaderInv'
  OBVIOUS
<1>1. CASE UNCHANGED vars
  <2>1. UNCHANGED <<has_connected, life, sock, reader, ready, todo>>
    BY <1>1 DEF vars, connVars, sockVars
  <2> QED
    BY <2>1 DEF ReaderInv, Loop, Left, Ended
<1>2. CASE ~UNCHANGED vars
  <2>1. Next /\ life # "destroyed"
    BY <1>2, DeadIsStill
  <2> QED
    BY <2>1, ReaderUser, ReaderShared, ReaderHandler, ReaderOthers DEF Next
<1> QED
  BY <1>1, <1>2

\* Readers counts what Loop and Left count.
LEMMA ReadsCounted ==
    ASSUME TypeOK
    PROVE  /\ Cardinality(ReadsDone) = Num(ready, ReadOps)
           /\ Cardinality(ReadsDue) = Left({"do_read"})
           /\ Len(reader) = Num(reader, ReadOps)
           /\ Readers = Num(ready, ReadOps) + Left({"do_read"}) + Num(reader, ReadOps)
<1>1. ASSUME NEW s \in Seq(Item), NEW ops
      PROVE  Places(s, Ops(ops)) = {i \in DOMAIN s : s[i].op \in ops}
  <2>1. \A i \in DOMAIN s : s[i] \in Item
    BY ElementOfSeq, LenProperties
  <2>2. \A i \in DOMAIN s : s[i] \in Ops(ops) <=> s[i].op \in ops
    BY <2>1 DEF Item, Ops
  <2> QED
    BY <2>2 DEF Places
<1>2. ready \in Seq(Item) /\ todo[Io] \in Seq(Item)
  BY SeqItems, TodoFacts DEF TypeOK
<1>3. ReadsDone = Places(ready, Ops(ReadOps))
  BY <1>1, <1>2 DEF ReadsDone, ReadOps
<1>4. ReadsDue = Places(todo[Io], Ops({"do_read"}))
  BY <1>1, <1>2 DEF ReadsDue
<1>5. /\ Cardinality(ReadsDone) = Num(ready, ReadOps)
      /\ Cardinality(ReadsDue) = Left({"do_read"})
  BY <1>3, <1>4 DEF Num, Count, Left
<1>6. Len(reader) = Num(reader, ReadOps)
  <2>1. /\ reader \in Seq(Item) /\ reader \in Seq(Read)
        /\ Len(reader) \in Nat /\ DOMAIN reader = 1 .. Len(reader)
    BY EndedType, LenProperties DEF TypeOK
  <2>2. \A i \in DOMAIN reader : reader[i].op \in ReadOps
    BY <2>1, ElementOfSeq, ReadDone DEF ReadOps
  <2>3. Places(reader, Ops(ReadOps)) = 1 .. Len(reader)
    BY <1>1, <2>1, <2>2
  <2> QED
    BY <2>1, <2>3, FS_Interval DEF Num, Count
<1>7. /\ Num(ready, ReadOps) \in Nat /\ Left({"do_read"}) \in Nat
      /\ Num(reader, ReadOps) \in Nat
  BY QueueParts, ReaderParts, LeftType, EndedType
<1> QED
  BY <1>5, <1>6, <1>7 DEF Readers

(***************************************************************************)
(* A client that believes it is connected reads, or is about to: whatever  *)
(* drops, reconnects, closes and interleavings there are, no handler ends  *)
(* the loop of do_read and read_body and leaves has_connected_ set         *)
(* (rpc_client.hpp:585 and :613).                                          *)
(***************************************************************************)
THEOREM ConnectedReads == Spec => []ReaderAlive
<1>1. Init => ReaderInv
  BY DEF Init, ReaderInv
<1>2. TypeOK /\ TypeOK' /\ EndInv /\ ReaderInv /\ [Next]_vars => ReaderInv'
  BY ReaderNext
<1>3. TypeOK /\ ReaderInv => ReaderAlive
  <2> SUFFICES ASSUME TypeOK, ReaderInv, has_connected, life # "destroyed"
               PROVE  Readers >= 1 \/ \E i \in DOMAIN todo[Io] : todo[Io][i].op = "close"
    BY DEF ReaderAlive
  <2>1. /\ Num(ready, ReadOps) \in Nat /\ Left({"do_read"}) \in Nat
        /\ Left(Resumes) \in Nat /\ todo[Io] \in Seq(Item)
    BY QueueParts, LeftType, ReaderParts
  <2>2. Readers = Num(ready, ReadOps) + Left({"do_read"}) + Num(reader, ReadOps)
    BY ReadsCounted DEF Readers
  <2>3. CASE Left(Resumes) >= 1
    <3>1. \E i \in DOMAIN todo[Io] : todo[Io][i].op \in Resumes
      BY <2>1, <2>3, NumType DEF Left
    <3>2. CASE \E i \in DOMAIN todo[Io] : todo[Io][i].op = "do_read"
      <4>1. Left({"do_read"}) > 0
        BY <2>1, <3>2, NumType DEF Left
      <4> QED
        BY <2>1, <2>2, <4>1, EndedType
    <3> QED
      BY <3>1, <3>2 DEF Resumes
  <2>4. CASE Left(Resumes) = 0
    <3>1. Loop(ReadOps) >= 1
      BY <2>4, ReaderParts DEF ReaderInv
    <3>2. Ended(ReadOps) = Num(reader, ReadOps) /\ Num(reader, ReadOps) \in Nat
      BY EndedType DEF Ended, ReadOps
    <3> QED
      BY <2>1, <2>2, <3>1, <3>2 DEF Loop
  <2> QED
    BY <2>1, <2>3, <2>4
<1> QED
  BY <1>1, <1>2, <1>3, TypeCorrect, EndInvariant, PTL DEF Spec

-----------------------------------------------------------------------------
(* Without automatic reconnection, every loop is that of a connect().      *)

LEMMA NumMonotonic ==
    ASSUME NEW s \in Seq(Item), NEW a, NEW b, a \subseteq b
    PROVE  Num(s, a) <= Num(s, b)
<1>1. IsFiniteSet(Places(s, Ops(b))) /\ Places(s, Ops(a)) \subseteq Places(s, Ops(b))
  BY CountType DEF Places, Ops
<1> QED
  BY <1>1, FS_Subset, FS_CardinalityType DEF Num, Count

Carried == IF Left(Hand) > 0 THEN 1 ELSE 0
Loops   == Loop(LoopOps) + Carried

LEMMA LoopsType ==
    ASSUME TypeOK
    PROVE  /\ Loop(LoopOps) \in Nat /\ Left(Hand) \in Nat /\ Carried \in 0 .. 1
           /\ Idle(Io) => Carried = 0
BY QueueParts, LeftType DEF Carried

\* Every step uses up one bound at most, and only a call with a callback that
\* of the callbacks.
LEMMA SpentSteps ==
    ASSUME [Next]_vars
    PROVE  \/ UNCHANGED spent
           \/ Spend("callbacks", MaxCallbacks)
           \/ \E what \in Bounded \ {"callbacks"} : \E limit : Spend(what, limit)
<1> USE DEF otherVars, Bounded
<1>1. CASE UNCHANGED vars
  BY <1>1 DEF vars
<1>2. CASE \E u \in Users : UserNext(u)
  BY <1>2 DEF UserNext, AsyncCallFuture, AsyncCallCallback, RegisterCallback,
     Subscribe, RecordToken, Connect, UserClose, Destroy
<1>3. CASE \E t \in Threads : SharedNext(t)
  BY <1>3 DEF SharedNext, Write, Close, ClearOutbox, ClearMaps, ErrorCallback
<1>4. CASE HandlerNext
  BY <1>4 DEF HandlerNext, OnConnectIgnored, OnConnectFailed, OnConnected,
     OnWritten, OnWriteFailed, OnHeadClosed, OnHead, OnHeadFailed,
     OnBodyClosed, OnBody, OnBodyFailed, DoRead, FailCallbacks, CallBack
<1>5. CASE TimerNext
  BY <1>5 DEF TimerNext, OnTimer, OnHeartbeat
<1>6. CASE SocketNext
  BY <1>6 DEF SocketNext, PollNothing, PollReports, EventStale,
     ConnectSucceeds, ConnectFails, ReadCompletes, LinkDrops, WriteCompletes
<1>7. CASE PeerNext
  BY <1>7 DEF PeerNext, PeerAnswers, PeerRepeats, PeerPublishes
<1>8. CASE \E u \in Users : Stop(u) \/ Join(u)
  BY <1>8 DEF Stop, Join
<1> QED
  BY <1>1, <1>2, <1>3, <1>4, <1>5, <1>6, <1>7, <1>8 DEF Next

LEMMA SpentGrows ==
    ASSUME TypeOK, [Next]_vars
    PROVE  /\ \A what \in Bounded : /\ spent[what] \in Nat /\ spent'[what] \in Nat
                                    /\ spent'[what] >= spent[what]
           /\ spent["connects"] \in Nat /\ spent'["connects"] >= spent["connects"]
           /\ \A u \in Users : Connect(u) => spent'["connects"] = spent["connects"] + 1
<1>1. spent \in [Bounded -> Nat] /\ {"connects", "callbacks"} \subseteq Bounded
  BY DEF TypeOK, Bounded
<1>2. \A what \in Bounded : \A limit : Spend(what, limit) =>
         \A other \in Bounded : spent'[other] = IF what = other THEN spent[other] + 1
                                                ELSE spent[other]
  BY <1>1 DEF Spend
<1>3. UNCHANGED spent \/ \E what \in Bounded : \E limit : Spend(what, limit)
  BY <1>1, SpentSteps
<1>4. \A what \in Bounded : /\ spent[what] \in Nat /\ spent'[what] \in Nat
                            /\ spent'[what] >= spent[what]
  BY <1>1, <1>2, <1>3
<1>5. ASSUME NEW u \in Users, Connect(u) PROVE spent'["connects"] = spent["connects"] + 1
  BY <1>1, <1>2, <1>5 DEF Connect
<1> QED
  BY <1>1, <1>4, <1>5

\* A step of Io's function puts nothing more in its hand.
LEMMA CarriedAfter ==
    ASSUME TypeOK, CarryInv, NEW op, Goes(op)
    PROVE  /\ Carried' <= Carried
           /\ op \in {"do_read", "fail_callbacks"} => Carried = 1 /\ Carried' = 0
           /\ op = "call_back" => Carried = 1
<1> DEFINE h == Head(todo[Io])
           T == Tail(todo[Io])
           D == {"do_read", "fail_callbacks"}
           F == {"call_back", "fail_callbacks"}
<1>1. /\ todo[Io] # <<>> /\ h.op = op /\ h \in Item /\ T \in Seq(Item)
      /\ \A ops : Num(T, ops) \in Nat
      /\ \A ops : Num(todo[Io], ops) = Is(h, ops) + Num(T, ops)
  BY LeftType DEF Goes, At, Left
<1> HIDE DEF h, T
<1>2. Left(Hand)' = Left(Hand) - Is(Head(todo[Io]), Hand)
  BY <1>1, LeftAfter DEF Goes, At, Hand
<1>3. Left(Hand) = Is(h, Hand) + Num(T, Hand) /\ Left(Hand)' = Num(T, Hand)
      /\ Is(h, Hand) \in Nat /\ Num(T, Hand) \in Nat
  <2>1. Left(Hand) = Is(h, Hand) + Num(T, Hand) /\ Is(h, Hand) \in Nat
    BY <1>1 DEF Left, Is
  <2>2. Left(Hand)' = Left(Hand) - Is(h, Hand)
    BY <1>2 DEF h
  <2> QED
    BY <1>1, <2>1, <2>2
<1>4. ASSUME op \in D PROVE Num(T, Hand) = 0
  <2>1. Num(todo[Io], D) <= 1 /\ Num(T, F) = 0
    BY <1>1 DEF CarryInv, Script, T
  <2>2. Num(T, D) = 0
    <3>1. Is(h, D) = 1
      BY <1>1, <1>4 DEF Is
    <3> QED
      BY <1>1, <2>1, <3>1
  <2>3. \A i \in DOMAIN T : T[i].op \notin D /\ T[i].op \notin F
    BY <1>1, <2>1, <2>2, NumType
  <2>4. \A i \in DOMAIN T : T[i].op \notin Hand
    BY <2>3 DEF Hand
  <2> QED
    BY <1>1, <2>4, NumType
<1>5. op \in Hand => Is(h, Hand) = 1
  BY <1>1 DEF Is
<1> QED
  BY <1>3, <1>4, <1>5 DEF Carried, Hand

\* Handling a completion of the loop takes it off the loop.
LEMMA LoopHandled ==
    ASSUME TypeOK, ready # <<>>, Head(ready).op \in LoopOps
    PROVE  /\ Tail(ready) \in Seq(Item)
           /\ Num(Tail(ready), LoopOps) + Ended(LoopOps) = Loop(LoopOps) - 1
           /\ ready' = Tail(ready) /\ UNCHANGED <<sock, reader>> =>
                Loop(LoopOps)' = Loop(LoopOps) - 1
<1>1. /\ Tail(ready) \in Seq(Item) /\ Num(Tail(ready), LoopOps) \in Nat
      /\ Num(ready, LoopOps) = 1 + Num(Tail(ready), LoopOps)
      /\ Ended(LoopOps) \in Nat
  BY QueueParts DEF Is
<1>2. Num(Tail(ready), LoopOps) + Ended(LoopOps) = Loop(LoopOps) - 1
  BY <1>1 DEF Loop
<1>3. ASSUME ready' = Tail(ready), UNCHANGED <<sock, reader>>
      PROVE  Loop(LoopOps)' = Loop(LoopOps) - 1
  <2>1. Ended(LoopOps)' = Ended(LoopOps)
    BY <1>3 DEF Ended
  <2> QED
    BY <1>2, <1>3, <2>1 DEF Loop
<1> QED
  BY <1>1, <1>2, <1>3

LEMMA LoopsConnect ==
    ASSUME TypeOK, NEW u \in Users, Connect(u)
    PROVE  Loop(LoopOps)' = Loop(LoopOps) + 1 /\ Carried' = Carried
<1>1. Carried' = Carried
  <2>1. todo'[Io] = todo[Io]
    BY DEF Connect
  <2> QED
    BY <2>1, LeftSame DEF Carried
<1>2. ready \in Seq(Item) /\ Num(ready, LoopOps) \in Nat /\ Ended(LoopOps) \in Nat
  BY QueueParts
<1>3. CASE Waits
  <2> DEFINE c == Done("connect", NoMessage, TRUE)
  <2>1. c \in Item /\ Is(c, LoopOps) = 1
    BY Constructors, Items DEF Done, Is, LoopOps
  <2>2. ready' = Append(ready, c) /\ UNCHANGED <<sock, reader>>
    BY <1>3 DEF Connect
  <2> HIDE DEF c
  <2>3. Num(ready', LoopOps) = Num(ready, LoopOps) + 1
    BY <1>2, <2>1, <2>2, NumAppend
  <2>4. Ended(LoopOps)' = Ended(LoopOps)
    BY <2>2 DEF Ended
  <2> QED
    BY <1>1, <1>2, <2>3, <2>4 DEF Loop
<1>4. CASE ~Waits
  <2>1. sock # "connecting" /\ sock' = "connecting" /\ UNCHANGED <<ready, reader>>
    BY <1>4 DEF Connect, Waits
  <2>2. Ended(LoopOps)' = Ended(LoopOps) + 1 /\ Num(ready, LoopOps)' = Num(ready, LoopOps)
    BY <2>1, EndedType DEF Ended, LoopOps
  <2> QED
    BY <1>1, <1>2, <2>2 DEF Loop
<1> QED
  BY <1>3, <1>4

LEMMA LoopsHandler ==
    ASSUME TypeOK, TypeOK', CarryInv, HandlerNext
    PROVE  /\ Loops' <= Loops
           /\ FailCallbacks => Loops' <= Loops - 1
           /\ CallBack => Loops >= 1
<1>0. /\ Loop(LoopOps) \in Nat /\ Carried \in 0 .. 1 /\ Carried' \in 0 .. 1
  BY LoopsType DEF Carried
<1>1. CASE \/ OnConnectIgnored \/ OnHeadClosed
  <2>1. /\ ready # <<>> /\ Head(ready).op \in LoopOps
        /\ ready' = Tail(ready) /\ UNCHANGED <<sock, reader>>
    BY <1>1 DEF OnConnectIgnored, OnHeadClosed, Handles, LoopOps, sockVars
  <2>2. Carried' = Carried
    BY <1>1, OthersLeave, LeftSame DEF Carried
  <2>3. ~FailCallbacks /\ ~CallBack
    BY <1>1 DEF OnConnectIgnored, OnHeadClosed, Handles, Free, Idle, FailCallbacks, CallBack, At
  <2> QED
    BY <1>0, <2>1, <2>2, <2>3, LoopHandled DEF Loops
<1>2. CASE OnConnectFailed
  <2>1. /\ ready # <<>> /\ Head(ready).op \in LoopOps
    BY <1>2 DEF OnConnectFailed, Handles, LoopOps
  <2>2. Carried' = Carried
    BY <1>2, OthersLeave, LeftSame DEF Carried
  <2>3. ~FailCallbacks /\ ~CallBack
    BY <1>2 DEF OnConnectFailed, Handles, Free, Idle, FailCallbacks, CallBack, At
  <2>4. CASE ready' = Tail(ready) /\ UNCHANGED sockVars
    BY <1>0, <2>1, <2>2, <2>3, <2>4, LoopHandled DEF Loops, sockVars
  <2>5. CASE AsyncReconnect(Tail(ready))
    <3>1. Loop(LoopOps)' = Num(Tail(ready), LoopOps) + Ended(LoopOps) + 1
      BY <2>1, <2>5, LoopHandled, AbandonQueue DEF AsyncReconnect, LoopOps
    <3> QED
      BY <1>0, <2>1, <2>2, <2>3, <3>1, LoopHandled DEF Loops
  <2> QED
    BY <1>2, <2>4, <2>5 DEF OnConnectFailed
<1>3. CASE \/ \E o \in Orders : OnConnected(o)
           \/ OnHeadFailed \/ OnBodyClosed \/ OnBody \/ OnBodyFailed
  <2>1. /\ ready # <<>> /\ Head(ready).op \in LoopOps
        /\ ready' = Tail(ready) /\ UNCHANGED <<sock, reader>> /\ Idle(Io)
    BY <1>3 DEF OnConnected, OnHeadFailed, OnBodyClosed, OnBody, OnBodyFailed, Handles,
       Free, LoopOps, sockVars
  <2>2. ~FailCallbacks /\ ~CallBack
    BY <2>1 DEF Idle, FailCallbacks, CallBack, At
  <2>3. Carried = 0
    BY <2>1, LoopsType
  <2> QED
    BY <1>0, <2>1, <2>2, <2>3, LoopHandled DEF Loops
<1>4. CASE OnWritten \/ OnWriteFailed
  <2>1. Loop(LoopOps)' = Loop(LoopOps)
    BY <1>4, QuietWrites
  <2>2. Carried' <= Carried
    <3>1. CASE OnWritten
      <4>1. Carried' = Carried
        BY <3>1, OthersLeave, LeftSame DEF Carried
      <4> QED
        BY <1>0, <4>1
    <3>2. CASE OnWriteFailed
      BY <1>0, <3>2, IoScripts DEF Carried
    <3> QED
      BY <1>4, <3>1, <3>2
  <2>3. ~FailCallbacks /\ ~CallBack
    BY <1>4 DEF OnWritten, OnWriteFailed, Handles, Free, Idle, FailCallbacks, CallBack, At
  <2> QED
    BY <1>0, <2>1, <2>2, <2>3 DEF Loops
<1>5. CASE OnHead
  <2> DEFINE r == BodyRead(Head(ready).msg)
  <2>1. /\ ready # <<>> /\ Head(ready).op \in LoopOps /\ sock' = sock
        /\ StartRead(r, Tail(ready))
    BY <1>5 DEF OnHead, Handles, LoopOps
  <2>2. r \in Read
    BY <2>1, HandledMessage, Constructors DEF BodyRead, Done
  <2> HIDE DEF r
  <2>3. Loop(LoopOps)' <= Num(Tail(ready), LoopOps) + Ended(LoopOps) + 1
        /\ Loop(LoopOps)' \in Nat
    BY <2>1, <2>2, LoopHandled, StartReadQueue
  <2>4. Carried' = Carried
    BY <1>5, OthersLeave, LeftSame DEF Carried
  <2>5. ~FailCallbacks /\ ~CallBack
    BY <1>5 DEF OnHead, Handles, Free, Idle, FailCallbacks, CallBack, At
  <2> QED
    BY <1>0, <2>1, <2>3, <2>4, <2>5, LoopHandled DEF Loops
<1>6. CASE DoRead
  <2>1. HeadRead \in Read
    BY Constructors DEF HeadRead, Done
  <2>2. /\ ready \in Seq(Item) /\ Num(ready, LoopOps) \in Nat /\ Ended(LoopOps) \in Nat
    BY QueueParts
  <2>3. /\ Loop(LoopOps)' <= Num(ready, LoopOps) + Ended(LoopOps) + 1
        /\ Loop(LoopOps)' \in Nat
    BY <1>6, <2>1, <2>2, StartReadQueue DEF DoRead
  <2>4. Carried = 1 /\ Carried' = 0
    BY <1>6, IoGoes, CarriedAfter
  <2>5. ~FailCallbacks /\ ~CallBack
    BY <1>6 DEF DoRead, FailCallbacks, CallBack, At
  <2> QED
    BY <1>0, <2>2, <2>3, <2>4, <2>5 DEF Loops, Loop
<1>7. CASE FailCallbacks
  <2>1. Loop(LoopOps)' = Loop(LoopOps)
    BY <1>7, QuietOthers
  <2>2. Carried = 1 /\ Carried' = 0
    BY <1>7, IoGoes, CarriedAfter
  <2>3. ~CallBack
    BY <1>7 DEF FailCallbacks, CallBack, At
  <2> QED
    BY <1>0, <2>1, <2>2, <2>3 DEF Loops
<1>8. CASE CallBack
  <2>1. Loop(LoopOps)' = Loop(LoopOps)
    BY <1>8, QuietOthers
  <2>2. Carried = 1 /\ Carried' <= Carried
    BY <1>8, IoGoes, CarriedAfter
  <2>3. ~FailCallbacks
    BY <1>8 DEF FailCallbacks, CallBack, At
  <2> QED
    BY <1>0, <2>1, <2>2, <2>3 DEF Loops
<1> QED
  BY <1>1, <1>2, <1>3, <1>4, <1>5, <1>6, <1>7, <1>8 DEF HandlerNext

\* Only connect() starts a loop.
LEMMA LoopsStep ==
    ASSUME TypeOK, TypeOK', CarryInv, [Next]_vars, ~EnableReconnect
    PROVE  /\ Loops \in Nat /\ Loops' \in Nat
           /\ \/ Loops' <= Loops
              \/ \E u \in Users : Connect(u) /\ Loops' = Loops + 1
<1>0. /\ Loop(LoopOps) \in Nat /\ Carried \in 0 .. 1 /\ Carried' \in 0 .. 1
      /\ Loop(LoopOps)' \in Nat
  BY LoopsType, NaturalNext DEF Carried
<1>1. Loops \in Nat /\ Loops' \in Nat
  BY <1>0 DEF Loops
<1>2. ASSUME Loop(LoopOps)' = Loop(LoopOps), Carried' <= Carried PROVE Loops' <= Loops
  BY <1>0, <1>2 DEF Loops
<1>3. todo'[Io] = todo[Io] => Carried' <= Carried
  <2>1. todo'[Io] = todo[Io] => Carried' = Carried
    BY LeftSame DEF Carried
  <2> QED
    BY <1>0, <2>1
<1>4. CASE UNCHANGED vars
  BY <1>2, <1>3, <1>4, QuietOthers, OthersLeave, <1>1
<1>5. ASSUME NEW u \in Users, UserNext(u), ~Connect(u) PROVE Loops' <= Loops
  BY <1>2, <1>3, <1>5, QuietUser, UserLeaves
<1>6. ASSUME NEW u \in Users, Connect(u) PROVE Loops' = Loops + 1
  BY <1>0, <1>6, LoopsConnect DEF Loops
<1>7. ASSUME NEW t \in Threads, SharedNext(t) PROVE Loops' <= Loops
  <2>1. \/ Write(t) \/ Close(t) \/ ClearOutbox(t) \/ ClearMaps(t)
        \/ (ErrorCallback(t) /\ ~EnableReconnect)
    BY <1>7 DEF SharedNext
  <2>2. Loop(LoopOps)' = Loop(LoopOps)
    BY <2>1, QuietShared
  <2>3. Carried' <= Carried
    <3>1. CASE t \in Users
      BY <1>3, <1>7, <3>1, UserLeaves
    <3>2. CASE t = Io
      <4>1. \E op : Goes(op)
        BY <1>7, <3>2, IoGoes DEF SharedNext
      <4> QED
        BY <4>1, CarriedAfter
    <3> QED
      BY <3>1, <3>2 DEF Threads
  <2> QED
    BY <1>2, <2>2, <2>3
<1>8. CASE HandlerNext
  BY <1>1, <1>8, LoopsHandler
<1>9. CASE TimerNext \/ SocketNext \/ PeerNext
  <2>1. Loop(LoopOps)' = Loop(LoopOps)
    BY <1>9, QuietOthers, QuietReactor, QuietConnects, QuietSocket DEF SocketNext
  <2>2. Carried' <= Carried
    <3>1. CASE OnHeartbeat
      BY <1>0, <3>1, IoScripts DEF Carried
    <3>2. CASE ~OnHeartbeat
      BY <1>3, <1>9, <3>2, OthersLeave DEF TimerNext
    <3> QED
      BY <3>1, <3>2
  <2> QED
    BY <1>1, <1>2, <2>1, <2>2
<1>10. ASSUME NEW u \in Users, Stop(u) \/ Join(u) PROVE Loops' <= Loops
  <2>1. CASE Stop(u)
    BY <1>2, <1>3, <2>1, QuietOthers, UserLeaves
  <2>2. CASE Join(u)
    <3>1. Loop(LoopOps)' = 0
      BY <2>2, NumEmpty DEF Join, Loop, Ended
    <3>2. Carried' <= Carried
      BY <1>3, <2>2, UserLeaves
    <3> QED
      BY <1>0, <3>1, <3>2 DEF Loops
  <2> QED
    BY <1>10, <2>1, <2>2
<1> QED
  BY <1>1, <1>4, <1>5, <1>6, <1>7, <1>8, <1>9, <1>10 DEF Next

LoopsInv == ~EnableReconnect => Loops <= spent["connects"]

LEMMA LoopsNext ==
    TypeOK /\ TypeOK' /\ CarryInv /\ LoopsInv /\ [Next]_vars => LoopsInv'
<1> SUFFICES ASSUME TypeOK, TypeOK', CarryInv, LoopsInv, [Next]_vars, ~EnableReconnect
             PROVE  Loops' <= spent'["connects"]
  BY DEF LoopsInv
<1>1. Loops <= spent["connects"]
  BY DEF LoopsInv
<1>2. spent'["connects"] \in Nat
  BY DEF TypeOK, Bounded
<1> QED
  BY <1>1, <1>2, LoopsStep, SpentGrows

LEMMA LoopsInit == Init => LoopsInv
<1> SUFFICES ASSUME Init PROVE LoopsInv
  OBVIOUS
<1>1. TypeOK /\ Idle(Io) /\ ready = <<Poll>> /\ reader = <<>> /\ sock = "closed"
      /\ spent["connects"] = 0
  BY InitType, TodoFacts DEF Init, Idle, Bounded
<1>2. Ended(LoopOps) = 0 /\ Carried = 0
  BY <1>1, LoopsType, NumEmpty DEF Ended
<1>3. Num(ready, LoopOps) = 0
  <2>1. Poll \in Item /\ Is(Poll, LoopOps) = 0
    BY Constructors, Items DEF Poll, Done, Is, LoopOps
  <2> QED
    BY <1>1, <2>1, NumOne
<1> QED
  BY <1>1, <1>2, <1>3 DEF LoopsInv, Loops, Loop

LEMMA LoopsInvariant == Spec => [](TypeOK /\ CarryInv /\ LoopsInv)
<1>1. TypeOK /\ CarryInv /\ LoopsInv /\ [Next]_vars => (TypeOK /\ CarryInv /\ LoopsInv)'
  BY NextTypes, CarryNext, LoopsNext
<1> QED
  BY <1>1, InitType, CarryInit, LoopsInit, PTL DEF Spec

(****************************************************************************)
(* head_ and body_ belong to one read loop: without automatic reconnection  *)
(* no retry, failure or close() in any order makes two of the loop that one *)
(* connect() started (rpc_client.hpp:464, :467 and :595).                   *)
(****************************************************************************)
THEOREM OneReadLoop == Spec => []SingleReader
<1>1. TypeOK /\ CarryInv /\ LoopsInv => SingleReader
  <2> SUFFICES ASSUME TypeOK, CarryInv, LoopsInv, ~EnableReconnect
               PROVE  Readers <= spent["connects"]
    BY DEF SingleReader
  <2>1. Readers = Num(ready, ReadOps) + Left({"do_read"}) + Num(reader, ReadOps)
    BY ReadsCounted DEF Readers
  <2>2. /\ Num(ready, ReadOps) \in Nat /\ Num(ready, LoopOps) \in Nat
        /\ Left({"do_read"}) \in Nat /\ Left(Hand) \in Nat /\ Ended(LoopOps) \in Nat
        /\ spent["connects"] \in Nat
    BY QueueParts, ReaderParts, LeftType DEF TypeOK, Bounded
  <2>3. Num(ready, ReadOps) <= Num(ready, LoopOps)
    <3>1. ready \in Seq(Item)
      BY QueueParts, ReaderParts
    <3> QED
      BY <3>1, NumMonotonic DEF ReadOps, LoopOps
  <2>4. Num(reader, ReadOps) <= Ended(LoopOps) /\ Num(reader, ReadOps) \in Nat
    <3>1. Num(reader, ReadOps) <= Num(reader, LoopOps)
      BY EndedType, NumMonotonic DEF ReadOps, LoopOps
    <3> QED
      BY <3>1, EndedType DEF Ended
  <2>5. Left({"do_read"}) <= Carried
    <3>1. Left({"do_read"}) <= Left({"do_read", "fail_callbacks"})
          /\ Left({"do_read", "fail_callbacks"}) <= 1
          /\ Left({"do_read"}) <= Left(Hand)
      BY LeftType, NumMonotonic DEF Left, CarryInv, Script, Hand
    <3>2. Left({"do_read", "fail_callbacks"}) \in Nat
      BY LeftType
    <3> QED
      BY <2>2, <3>1, <3>2 DEF Carried
  <2>6. Num(ready, LoopOps) + Ended(LoopOps) + Carried <= spent["connects"]
    BY DEF LoopsInv, Loops, Loop
  <2>7. Carried \in Nat
    BY DEF Carried
  <2> DEFINE r == Num(reader, ReadOps)
  <2>8. r \in Nat /\ r <= Ended(LoopOps)
    BY <2>4
  <2> HIDE DEF r
  <2>9. Num(ready, ReadOps) + Left({"do_read"}) + r <= spent["connects"]
    BY ONLY <2>2, <2>3, <2>5, <2>6, <2>7, <2>8
  <2> QED
    BY <2>1, <2>9 DEF r
<1> QED
  BY <1>1, LoopsInvariant, PTL

-----------------------------------------------------------------------------
(* The ids of callbacks are given out once.  A thread that has decided to  *)
(* register its callback does so in a later step: the number of calls made *)
(* is that of the ids given out and of the threads on their way.           *)

Reg == {"register"}
Registering == {u \in Users : At(u, "register")}
GivenOut    == IF callback_id = 0 THEN 0 ELSE callback_id - TopBit

\* A thread registers a callback first of all.
RegisterInv == \A u \in Users : todo[u] # <<>> => Num(Tail(todo[u]), Reg) = 0

GivenInv ==
    /\ IsFiniteSet(Registering)
    /\ GivenOut + Cardinality(Registering) <= spent["callbacks"]
    /\ spent["callbacks"] <= MaxCallbacks

LEMMA NoneRegister ==
    ASSUME NEW s \in Seq(Item), Num(s, Reg) = 0
    PROVE  s # <<>> => Head(s).op # "register" /\ Num(Tail(s), Reg) = 0
<1> SUFFICES ASSUME s # <<>> PROVE Head(s).op # "register" /\ Num(Tail(s), Reg) = 0
  OBVIOUS
<1>1. /\ Num(s, Reg) = Is(Head(s), Reg) + Num(Tail(s), Reg)
      /\ Num(Tail(s), Reg) \in Nat
  BY NumTail
<1>2. Is(Head(s), Reg) \in 0 .. 1 /\ (Head(s).op = "register" => Is(Head(s), Reg) = 1)
  BY DEF Is, Reg
<1> QED
  BY <1>1, <1>2

\* Only a call with a callback has its thread register one.
LEMMA CallsRegister ==
    ASSUME TypeOK, NEW u \in Users, UserNext(u), Idle(u), UserStarts(u)
    PROVE  \/ AsyncCallCallback(u) /\ \E w \in Item : todo'[u] = <<w>>
           \/ todo'[u] \in Seq(Item) /\ Num(todo'[u], Reg) = 0
<1>0. u \in Threads
  BY TodoFacts
<1>1. ASSUME NEW w \in Item, w.op \in {"write", "close"}, todo'[u] = <<w>>
      PROVE  todo'[u] \in Seq(Item) /\ Num(todo'[u], Reg) = 0
  BY <1>1, NumOne DEF Is, Reg
<1>2. ASSUME NEW w \in Item, NEW k \in Item, w.op = "write", k.op = "token",
             todo'[u] = <<w, k>>
      PROVE  todo'[u] \in Seq(Item) /\ Num(todo'[u], Reg) = 0
  <2>1. Num(<<w, k>>, Reg) = Is(w, Reg) + Is(k, Reg) /\ <<w, k>> \in Seq(Item)
    BY NumTwo
  <2>2. Is(w, Reg) = 0 /\ Is(k, Reg) = 0
    BY <1>2 DEF Is, Reg
  <2> QED
    BY <1>2, <2>1, <2>2
<1>3. ASSUME NEW w \in Item, w.op = "register", todo'[u] = <<w>>
      PROVE  AsyncCallCallback(u)
  <2>1. \A x : todo'[u] = <<x>> => x.op = "register"
    BY <1>3
  <2>2. \A x, y : todo'[u] # <<x, y>>
    BY <1>3
  <2>3. ~AsyncCallFuture(u)
    BY <1>0, <2>1, TodoOf DEF AsyncCallFuture, WriteOf
  <2>4. ~UserClose(u)
    BY <1>0, <2>1, TodoOf DEF UserClose, Do
  <2>5. \A k \in Keys : ~Subscribe(u, k)
    BY <1>0, <2>2, TodoOf DEF Subscribe
  <2>6. ~Connect(u)
    <3>1. <<w>> # <<>>
      OBVIOUS
    <3>2. Connect(u) => todo' = todo
      BY DEF Connect
    <3> QED
      BY <1>3, <3>1, <3>2 DEF Idle
  <2>7. ~Destroy(u)
    <3>1. \A x, y, z : todo'[u] # <<x, y, z>>
      BY <1>3
    <3> QED
      BY <1>0, <3>1, TodoOf DEF Destroy
  <2>8. ~RegisterCallback(u) /\ ~RecordToken(u)
    BY DEF Idle, At, RegisterCallback, RecordToken
  <2> QED
    BY <2>3, <2>4, <2>5, <2>6, <2>7, <2>8 DEF UserNext
<1> QED
  BY <1>1, <1>2, <1>3 DEF UserStarts

\* What a step of a thread leaves to register
LEMMA UserRegisters ==
    ASSUME TypeOK, RegisterInv, NEW u \in Users,
           UserNext(u) \/ SharedNext(u) \/ Stop(u) \/ Join(u)
    PROVE  /\ \A v \in Users \ {u} : todo'[v] = todo[v]
           /\ \/ todo'[u] = todo[u] /\ ~RegisterCallback(u)
              \/ AsyncCallCallback(u) /\ Idle(u) /\ \E w \in Item : todo'[u] = <<w>>
              \/ todo'[u] \in Seq(Item) /\ Num(todo'[u], Reg) = 0
<1>0. u \in Threads /\ \A v \in Users \ {u} : v \in Threads \ {u}
  BY TodoFacts
<1>1. todo[u] # <<>> => /\ Tail(todo[u]) \in Seq(Item)
                        /\ Num(Tail(todo[u]), Reg) = 0
  BY <1>0, TodoOf DEF RegisterInv
<1>2. CASE UserNext(u) \/ SharedNext(u)
  <2>1. CASE Connect(u) /\ todo'[u] = todo[u]
    BY <1>0, <1>2, <2>1, UserGoes DEF Connect, Idle, RegisterCallback, At
  <2>2. CASE Destroy(u)
    <3> DEFINE a == Do("close")
               b == Do("stop")
               c == Do("join")
    <3>1. /\ a \in Item /\ a.op = "close" /\ b \in Item /\ b.op = "stop"
          /\ c \in Item /\ c.op = "join"
      BY Constructors DEF Do, Item, OpNames
    <3>2. todo'[u] = <<a, b, c>>
      BY <1>0, <2>2, TodoOf DEF Destroy
    <3> HIDE DEF a, b, c
    <3>3. /\ <<a, b, c>> \in Seq(Item)
          /\ Num(<<a, b, c>>, Reg) = Is(a, Reg) + Is(b, Reg) + Is(c, Reg)
      BY <3>1, NumThree
    <3>4. Is(a, Reg) = 0 /\ Is(b, Reg) = 0 /\ Is(c, Reg) = 0
      BY <3>1 DEF Is, Reg
    <3> QED
      BY <1>0, <1>2, <3>2, <3>3, <3>4, UserGoes
  <2>3. CASE UserNext(u) /\ Idle(u) /\ UserStarts(u)
    BY <1>0, <1>2, <2>3, CallsRegister, UserGoes
  <2>4. CASE todo[u] # <<>> /\ UserContinues(u)
    <3>1. CASE todo'[u] = Clearing \o Tail(todo[u])
      <4>1. /\ Clearing \o Tail(todo[u]) \in Seq(Item)
            /\ Num(Clearing \o Tail(todo[u]), Reg)
                 = Num(Clearing, Reg) + Num(Tail(todo[u]), Reg)
        BY <1>1, <2>4, NumClearing, NumConcat
      <4>2. Num(Clearing, Reg) = 0
        BY NumClearing DEF Reg
      <4> QED
        BY <1>0, <1>1, <1>2, <2>4, <3>1, <4>1, <4>2, UserGoes
    <3>2. ASSUME NEW w \in Item, w.op = "write", todo'[u] = <<w>> \o Tail(todo[u])
          PROVE  todo'[u] \in Seq(Item) /\ Num(todo'[u], Reg) = 0
      <4>1. /\ <<w>> \o Tail(todo[u]) \in Seq(Item)
            /\ Num(<<w>> \o Tail(todo[u]), Reg) = Is(w, Reg) + Num(Tail(todo[u]), Reg)
        BY <1>1, <2>4, NumFront
      <4>2. Is(w, Reg) = 0
        BY <3>2 DEF Is, Reg
      <4> QED
        BY <1>1, <2>4, <3>2, <4>1, <4>2
    <3> QED
      BY <1>0, <1>1, <1>2, <2>4, <3>1, <3>2, UserGoes DEF UserContinues
  <2> QED
    BY <1>2, <2>1, <2>2, <2>3, <2>4, UserGoes
<1>3. CASE Stop(u) \/ Join(u)
  <2>1. todo[u] # <<>> /\ Continue(u, <<>>)
    BY <1>3 DEF Stop, Join, At
  <2>2. <<>> \o Tail(todo[u]) = Tail(todo[u])
    BY <1>1, <2>1, ConcatEmptySeq
  <2>3. todo'[u] = Tail(todo[u]) /\ \A v \in Users \ {u} : todo'[v] = todo[v]
    BY <1>0, <2>1, <2>2, TodoOf
  <2> QED
    BY <1>1, <2>1, <2>3
<1> QED
  BY <1>2, <1>3

LEMMA RegisterLeaves ==
    ASSUME TypeOK, RegisterInv, NEW u \in Users, RegisterCallback(u)
    PROVE  todo'[u] # todo[u]
<1>1. ~AsyncCallCallback(u) /\ UserNext(u)
  BY DEF AsyncCallCallback, RegisterCallback, Idle, At, UserNext
<1>2. \/ todo'[u] = todo[u] /\ ~RegisterCallback(u)
      \/ todo'[u] \in Seq(Item) /\ Num(todo'[u], Reg) = 0
  BY <1>1, UserRegisters
<1>3. Head(todo'[u]).op # "register" \/ todo'[u] = <<>>
  BY <1>2, NoneRegister
<1> QED
  BY <1>3 DEF RegisterCallback, At

LEMMA RegisteringStep ==
    ASSUME TypeOK, RegisterInv, [Next]_vars
    PROVE  /\ RegisterInv'
           /\ \/ Registering' \subseteq Registering
              \/ \E u \in Users : AsyncCallCallback(u) /\ Registering' \subseteq Registering \cup {u}
           /\ \A u \in Users : RegisterCallback(u) =>
                 u \in Registering /\ Registering' \subseteq Registering \ {u}
<1>1. ASSUME \A u \in Users : todo'[u] = todo[u]
      PROVE  /\ RegisterInv' /\ Registering' = Registering
             /\ \A u \in Users : ~RegisterCallback(u)
  <2>1. RegisterInv' /\ Registering' = Registering
    BY <1>1 DEF RegisterInv, Registering, At
  <2>2. \A u \in Users : ~RegisterCallback(u)
    BY <1>1, RegisterLeaves
  <2> QED
    BY <2>1, <2>2
<1>2. ASSUME NEW u \in Users, UserNext(u) \/ SharedNext(u) \/ Stop(u) \/ Join(u)
      PROVE  /\ RegisterInv'
             /\ \/ Registering' \subseteq Registering
                \/ AsyncCallCallback(u) /\ Registering' \subseteq Registering \cup {u}
             /\ \A v \in Users : RegisterCallback(v) =>
                   v \in Registering /\ Registering' \subseteq Registering \ {v}
  <2>1. \A v \in Users \ {u} : todo'[v] = todo[v]
    BY <1>2, UserRegisters
  <2>2. CASE todo'[u] = todo[u]
    <3>1. \A v \in Users : todo'[v] = todo[v]
      BY <2>1, <2>2
    <3> QED
      BY <1>1, <3>1
  <2>3. CASE AsyncCallCallback(u) /\ Idle(u) /\ \E w \in Item : todo'[u] = <<w>>
    <3>1. Num(Tail(todo'[u]), Reg) = 0
      <4>1. PICK w \in Item : todo'[u] = <<w>>
        BY <2>3
      <4>2. Tail(<<w>>) = <<>>
        OBVIOUS
      <4> QED
        BY <4>1, <4>2, NumEmpty
    <3>2. RegisterInv'
      BY <2>1, <3>1 DEF RegisterInv
    <3>3. Registering' \subseteq Registering \cup {u}
      BY <2>1 DEF Registering, At
    <3>4. ASSUME NEW v \in Users, RegisterCallback(v) PROVE FALSE
      <4>1. v # u
        BY <2>3, <3>4 DEF Idle, RegisterCallback, At
      <4> QED
        BY <2>1, <3>4, <4>1, RegisterLeaves
    <3> QED
      BY <2>3, <3>2, <3>3, <3>4
  <2>4. CASE todo'[u] \in Seq(Item) /\ Num(todo'[u], Reg) = 0
    <3>1. RegisterInv' /\ Registering' \subseteq Registering \ {u}
      <4>1. todo'[u] # <<>> => Head(todo'[u]).op # "register" /\ Num(Tail(todo'[u]), Reg) = 0
        BY <2>4, NoneRegister
      <4> QED
        BY <2>1, <4>1 DEF RegisterInv, Registering, At
    <3>2. ASSUME NEW v \in Users, RegisterCallback(v) PROVE v \in Registering /\ v = u
      <4>1. v \in Registering
        BY <3>2 DEF RegisterCallback, Registering
      <4>2. UserNext(v)
        BY <3>2 DEF UserNext
      <4>3. v # u => todo'[v] = todo[v]
        BY <2>1
      <4>4. todo'[v] # todo[v]
        BY <3>2, RegisterLeaves
      <4> QED
        BY <4>1, <4>3, <4>4
    <3> QED
      BY <3>1, <3>2
  <2> QED
    BY <1>2, <2>2, <2>3, <2>4, UserRegisters
<1>3. CASE \E u \in Users : UserNext(u) \/ SharedNext(u) \/ Stop(u) \/ Join(u)
  BY <1>2, <1>3
<1>4. CASE \/ UNCHANGED vars \/ SharedNext(Io) \/ HandlerNext \/ TimerNext
           \/ SocketNext \/ PeerNext
  BY <1>1, <1>4, UserKeeps
<1> QED
  BY <1>3, <1>4, TodoFacts DEF Next, Threads

LEMMA SpentCallbacks ==
    ASSUME TypeOK, [Next]_vars
    PROVE  /\ spent["callbacks"] \in Nat /\ spent'["callbacks"] >= spent["callbacks"]
           /\ spent["callbacks"] <= MaxCallbacks => spent'["callbacks"] <= MaxCallbacks
           /\ \A u \in Users : AsyncCallCallback(u) =>
                                 spent'["callbacks"] = spent["callbacks"] + 1
<1>1. spent \in [Bounded -> Nat] /\ "callbacks" \in Bounded /\ MaxCallbacks \in Nat
  BY CallAssumption DEF TypeOK, Bounded
<1>2. \A what \in Bounded : \A limit :
        Spend(what, limit) => spent'["callbacks"] = IF what = "callbacks" THEN spent["callbacks"] + 1
                                                    ELSE spent["callbacks"]
  BY <1>1 DEF Spend
<1>3. Spend("callbacks", MaxCallbacks) => spent["callbacks"] < MaxCallbacks
  BY DEF Spend
<1>4. \/ UNCHANGED spent
      \/ Spend("callbacks", MaxCallbacks)
      \/ \E what \in Bounded \ {"callbacks"} : \E limit : Spend(what, limit)
  BY SpentSteps
<1>5. \A u \in Users : AsyncCallCallback(u) => Spend("callbacks", MaxCallbacks)
  BY DEF AsyncCallCallback
<1> QED
  BY <1>1, <1>2, <1>3, <1>4, <1>5

\* The counter of callbacks moves with a registration, and does not wrap.
LEMMA NextGiven ==
    ASSUME TypeOK, GivenInv, NEW u \in Users, RegisterCallback(u), u \in Registering
    PROVE  /\ callback_id' = NextCallbackId
           /\ callback_id' > callback_id /\ callback_id' \in CallbackIds
           /\ GivenOut' = GivenOut + 1
<1>1. Cardinality(Registering) \in Nat /\ Cardinality(Registering) # 0
  BY FS_CardinalityType, FS_EmptySet DEF GivenInv
<1>2. GivenOut + 1 <= MaxCallbacks
  <2>1. GivenOut \in Int /\ MaxCallbacks \in Nat /\ spent["callbacks"] \in Nat
    BY CallAssumption DEF GivenOut, TypeOK, Bounded, CallbackIds
  <2> QED
    BY <1>1, <2>1 DEF GivenInv
<1>3. /\ TopBit \in Nat /\ MaxCallbacks \in Nat /\ MaxCallbacks < TopBit
      /\ callback_id = 0 \/ callback_id \in TopBit .. (2 * TopBit - 1)
  BY CallAssumption DEF TypeOK, CallbackIds
<1>4. callback_id' = NextCallbackId
  BY DEF RegisterCallback
<1>5. CASE callback_id = 0
  <2>1. GivenOut = 0
    BY <1>5 DEF GivenOut
  <2>2. 1 < TopBit
    BY <1>2, <1>3, <2>1
  <2>3. NextCallbackId = 1 + TopBit
    BY <1>3, <1>5, <2>2 DEF NextCallbackId, cb_flag
  <2> QED
    BY <1>3, <1>4, <1>5, <2>1, <2>2, <2>3 DEF GivenOut, CallbackIds
<1>6. CASE callback_id # 0
  <2>1. GivenOut = callback_id - TopBit
    BY <1>6 DEF GivenOut
  <2>2. callback_id + 1 < 2 * TopBit /\ callback_id >= TopBit /\ callback_id \in Nat
    BY <1>2, <1>3, <1>6, <2>1
  <2>3. NextCallbackId = callback_id + 1
    BY <1>3, <2>2 DEF NextCallbackId, cb_flag
  <2> QED
    BY <1>3, <1>4, <1>6, <2>1, <2>2, <2>3 DEF GivenOut, CallbackIds
<1> QED
  BY <1>5, <1>6

\* Only a registration moves the counter.
LEMMA OnlyRegister ==
    ASSUME [Next]_vars, \A u \in Users : ~RegisterCallback(u)
    PROVE  /\ callback_id' = callback_id
           /\ callback_map' \subseteq callback_map
<1>1. CASE UNCHANGED settling
  BY <1>1 DEF settling
<1>2. CASE \E u \in Users : AsyncCallFuture(u)
  BY <1>2 DEF AsyncCallFuture
<1>3. CASE ForgetCalls /\ UNCHANGED <<fu_id, callback_id>>
  BY <1>3 DEF ForgetCalls
<1>4. CASE FailCallbacks
  BY <1>4 DEF FailCallbacks
<1>5. CASE CallBack
  BY <1>5 DEF CallBack, Erase
<1> QED
  BY <1>1, <1>2, <1>3, <1>4, <1>5, CallSteps

LEMMA GivenNext ==
    TypeOK /\ TypeOK' /\ RegisterInv /\ GivenInv /\ [Next]_vars => RegisterInv' /\ GivenInv'
<1> SUFFICES ASSUME TypeOK, TypeOK', RegisterInv, GivenInv, [Next]_vars
             PROVE  RegisterInv' /\ GivenInv'
  OBVIOUS
<1>1. RegisterInv'
  BY RegisteringStep
<1>2. IsFiniteSet(Registering) /\ Cardinality(Registering) \in Nat
  BY FS_CardinalityType DEF GivenInv
<1>3. \A u : /\ IsFiniteSet(Registering \cup {u})
             /\ Cardinality(Registering \cup {u}) <= Cardinality(Registering) + 1
             /\ IsFiniteSet(Registering \ {u})
             /\ u \in Registering => Cardinality(Registering \ {u}) = Cardinality(Registering) - 1
             /\ Cardinality(Registering \cup {u}) \in Nat
  BY <1>2, FS_AddElement, FS_RemoveElement, FS_CardinalityType
<1>4. \A S : IsFiniteSet(S) => \A R : R \subseteq S =>
               /\ IsFiniteSet(R) /\ Cardinality(R) <= Cardinality(S) /\ Cardinality(R) \in Nat
  BY FS_Subset, FS_CardinalityType
<1>5. /\ GivenOut \in Int /\ GivenOut' \in Int /\ MaxCallbacks \in Nat
      /\ spent["callbacks"] \in Nat /\ spent'["callbacks"] \in Nat
      /\ GivenOut + Cardinality(Registering) <= spent["callbacks"]
      /\ spent'["callbacks"] >= spent["callbacks"]
      /\ spent'["callbacks"] <= MaxCallbacks
  <2>1. GivenOut \in Int /\ GivenOut' \in Int
    BY CallAssumption DEF GivenOut, TypeOK, CallbackIds
  <2>2. spent["callbacks"] \in Nat /\ spent'["callbacks"] \in Nat /\ MaxCallbacks \in Nat
    BY CallAssumption DEF TypeOK, Bounded
  <2> QED
    BY <2>1, <2>2, SpentCallbacks DEF GivenInv
<1>6. CASE \E u \in Users : RegisterCallback(u)
  <2>1. PICK u \in Users : RegisterCallback(u)
    BY <1>6
  <2>2. u \in Registering /\ Registering' \subseteq Registering \ {u}
    BY <2>1, RegisteringStep
  <2>3. GivenOut' = GivenOut + 1
    BY <2>1, <2>2, NextGiven
  <2>4. /\ IsFiniteSet(Registering') /\ Cardinality(Registering') \in Nat
        /\ Cardinality(Registering') <= Cardinality(Registering) - 1
    BY <1>3, <1>4, <2>2
  <2> QED
    BY <1>1, <1>2, <1>5, <2>3, <2>4 DEF GivenInv
<1>7. CASE \A u \in Users : ~RegisterCallback(u)
  <2>1. GivenOut' = GivenOut
    BY <1>7, OnlyRegister DEF GivenOut
  <2>2. CASE Registering' \subseteq Registering
    <3>1. /\ IsFiniteSet(Registering') /\ Cardinality(Registering') \in Nat
          /\ Cardinality(Registering') <= Cardinality(Registering)
      BY <1>2, <1>4, <2>2
    <3> QED
      BY <1>1, <1>2, <1>5, <2>1, <3>1 DEF GivenInv
  <2>3. ASSUME NEW u \in Users, AsyncCallCallback(u), Registering' \subseteq Registering \cup {u}
        PROVE  GivenInv'
    <3> DEFINE R == Registering \cup {u}
    <3>0. /\ IsFiniteSet(R) /\ Cardinality(R) <= Cardinality(Registering) + 1
          /\ Cardinality(R) \in Nat /\ Registering' \subseteq R
      BY <1>3, <2>3
    <3> HIDE DEF R
    <3>1. /\ IsFiniteSet(Registering') /\ Cardinality(Registering') \in Nat
          /\ Cardinality(Registering') <= Cardinality(Registering) + 1
      <4>1. /\ IsFiniteSet(Registering') /\ Cardinality(Registering') \in Nat
            /\ Cardinality(Registering') <= Cardinality(R)
        BY <1>4, <3>0
      <4> QED
        BY <1>2, <3>0, <4>1
    <3>2. spent'["callbacks"] = spent["callbacks"] + 1
      BY <2>3, SpentCallbacks
    <3> QED
      BY <1>2, <1>5, <2>1, <3>1, <3>2 DEF GivenInv
  <2> QED
    BY <1>1, <2>2, <2>3, RegisteringStep
<1> QED
  BY <1>6, <1>7

-----------------------------------------------------------------------------
(* A callback is called by a loop that gives up or, once, by one that reads *)
(* its answer, and then its entry is gone: it has been called as many times *)
(* as there have been connects, less the loops that go on.                 *)

Unused == \A id \in CallbackIds :
            id > callback_id => answers[id] = <<>> /\ id \notin callback_map

Owed(id) == IF id \in callback_map THEN Loops ELSE 0

CallbackInv ==
    ~EnableReconnect => \A id \in CallbackIds :
                          Len(answers[id]) + Owed(id) <= spent["connects"]

\* How the callbacks' part of the calls may change
LEMMA CallbackSteps ==
    ASSUME TypeOK, [Next]_vars
    PROVE  \/ /\ callback_map' \subseteq callback_map
              /\ callback_id' = callback_id
              /\ \A id \in CallbackIds : answers'[id] = answers[id]
           \/ \E u \in Users : /\ RegisterCallback(u)
                               /\ callback_map' = callback_map \cup {callback_id'}
                               /\ answers' = answers
           \/ /\ FailCallbacks
              /\ UNCHANGED <<callback_id, callback_map>>
              /\ \A id \in CallbackIds :
                   IF id \in callback_map THEN Len(answers'[id]) = Len(answers[id]) + 1
                                          ELSE answers'[id] = answers[id]
           \/ /\ CallBack
              /\ callback_id' = callback_id
              /\ \E id \in callback_map :
                   /\ callback_map' = callback_map \ {id}
                   /\ Len(answers'[id]) = Len(answers[id]) + 1
                   /\ \A other \in CallbackIds \ {id} : answers'[other] = answers[other]
<1>0. /\ answers \in [CallIds -> Seq(Outcomes)] /\ callback_map \subseteq CallbackIds
      /\ future_map \subseteq FutureIds /\ CallbackIds \subseteq CallIds
  BY DEF TypeOK, CallIds
<1>1. CASE UNCHANGED settling
  BY <1>1 DEF settling
<1>2. ASSUME NEW u \in Users, AsyncCallFuture(u)
      PROVE  UNCHANGED <<callback_id, callback_map, answers>>
  BY <1>2 DEF AsyncCallFuture
<1>3. ASSUME NEW u \in Users, RegisterCallback(u)
      PROVE  /\ callback_map' = callback_map \cup {callback_id'}
             /\ answers' = answers
  BY <1>3 DEF RegisterCallback
<1>4. CASE ForgetCalls /\ UNCHANGED <<fu_id, callback_id>>
  BY <1>0, <1>4, IdsApart DEF ForgetCalls
<1>5. ASSUME FailCallbacks
      PROVE  /\ UNCHANGED <<callback_id, callback_map>>
             /\ \A id \in CallbackIds :
                  IF id \in callback_map THEN Len(answers'[id]) = Len(answers[id]) + 1
                                         ELSE answers'[id] = answers[id]
  <2>1. UNCHANGED <<callback_id, callback_map>>
    BY <1>5 DEF FailCallbacks
  <2>2. \A id \in CallbackIds : /\ answers[id] \in Seq(Outcomes)
                                /\ answers'[id] = IF id \in callback_map
                                                  THEN Append(answers[id], "error")
                                                  ELSE answers[id]
    BY <1>0, <1>5 DEF FailCallbacks
  <2>3. "error" \in Outcomes
    BY DEF Outcomes
  <2> QED
    BY <2>1, <2>2, <2>3, AppendFacts
<1>6. CASE CallBack
  <2> DEFINE id == Head(todo[Io]).msg.id
             o == Answer(id, Head(todo[Io]).ec)
  <2>1. callback_id' = callback_id /\ o \in Outcomes
    BY <1>6 DEF CallBack, Answer, Outcomes
  <2>2. CASE id \notin future_map \cup callback_map
    BY <1>6, <2>1, <2>2 DEF CallBack
  <2>3. CASE id \in future_map \cup callback_map
    <3>1. /\ answers' = [answers EXCEPT ![id] = Append(@, o)]
          /\ callback_map' = callback_map \ {id}
      BY <1>6, <2>3 DEF CallBack, Erase
    <3> HIDE DEF id, o
    <3>2. CASE id \in callback_map
      <4>1. answers'[id] = Append(answers[id], o) /\ answers[id] \in Seq(Outcomes)
        BY <1>0, <3>1, <3>2
      <4>2. Len(answers'[id]) = Len(answers[id]) + 1
        BY <2>1, <4>1, AppendFacts
      <4>3. \A other \in CallbackIds \ {id} : answers'[other] = answers[other]
        BY <1>0, <3>1
      <4> QED
        BY <1>6, <2>1, <3>1, <3>2, <4>2, <4>3
    <3>3. CASE id \notin callback_map
      <4>1. \A other \in CallbackIds : answers'[other] = answers[other]
        BY <1>0, <2>3, <3>1, <3>3, IdsApart
      <4> QED
        BY <2>1, <3>1, <4>1
    <3> QED
      BY <3>2, <3>3
  <2> QED
    BY <2>2, <2>3
<1> QED
  BY <1>1, <1>2, <1>3, <1>4, <1>5, <1>6, CallSteps

LEMMA UnusedNext ==
    TypeOK /\ RegisterInv /\ GivenInv /\ Unused /\ [Next]_vars => Unused'
<1> SUFFICES ASSUME TypeOK, RegisterInv, GivenInv, Unused, [Next]_vars,
                    NEW id \in CallbackIds, id > callback_id'
             PROVE  answers'[id] = <<>> /\ id \notin callback_map'
  BY DEF Unused
<1>0. /\ callback_id \in Int /\ callback_map \subseteq CallbackIds /\ id \in Int
  BY CallAssumption DEF TypeOK, CallbackIds
<1>1. id > callback_id => answers[id] = <<>> /\ id \notin callback_map
  BY DEF Unused
<1>2. CASE /\ callback_map' \subseteq callback_map
           /\ callback_id' = callback_id
           /\ answers'[id] = answers[id]
  BY <1>1, <1>2
<1>3. ASSUME NEW u \in Users, RegisterCallback(u),
             callback_map' = callback_map \cup {callback_id'}, answers' = answers
      PROVE  answers'[id] = <<>> /\ id \notin callback_map'
  <2>1. callback_id' > callback_id /\ callback_id' \in CallbackIds
    BY <1>3, RegisteringStep, NextGiven
  <2>2. callback_id' \in Int
    BY <2>1, CallAssumption DEF CallbackIds
  <2>3. id > callback_id /\ id # callback_id'
    BY <1>0, <2>1, <2>2
  <2> QED
    BY <1>1, <1>3, <2>3
<1>4. ASSUME NEW c \in callback_map, callback_id' = callback_id,
             callback_map' = callback_map \ {c},
             \A other \in CallbackIds \ {c} : answers'[other] = answers[other]
      PROVE  answers'[id] = <<>> /\ id \notin callback_map'
  BY <1>1, <1>4
<1> QED
  BY <1>1, <1>2, <1>3, <1>4, CallbackSteps

LEMMA CallbackNext ==
    /\ TypeOK /\ TypeOK' /\ CarryInv /\ LoopsInv /\ LoopsInv' /\ RegisterInv /\ GivenInv
    /\ Unused /\ CallbackInv /\ [Next]_vars
    => CallbackInv'
<1> SUFFICES ASSUME TypeOK, TypeOK', CarryInv, LoopsInv, LoopsInv', RegisterInv, GivenInv,
                    Unused, CallbackInv, [Next]_vars, ~EnableReconnect,
                    NEW id \in CallbackIds
             PROVE  Len(answers'[id]) + Owed(id)' <= spent'["connects"]
  BY DEF CallbackInv
<1>0. /\ Len(answers[id]) \in Nat /\ Len(answers'[id]) \in Nat
      /\ spent["connects"] \in Nat /\ spent'["connects"] \in Nat
      /\ spent'["connects"] >= spent["connects"]
      /\ Loops \in Nat /\ Loops' \in Nat /\ Loops' <= spent'["connects"]
      /\ Len(answers[id]) + Owed(id) <= spent["connects"]
  <2>1. Len(answers[id]) \in Nat /\ Len(answers'[id]) \in Nat
    BY LenProperties DEF TypeOK, CallIds
  <2>2. spent["connects"] \in Nat /\ spent'["connects"] \in Nat
    BY DEF TypeOK, Bounded
  <2> QED
    BY <2>1, <2>2, SpentGrows, LoopsStep DEF LoopsInv, CallbackInv
<1>1. Owed(id) \in Nat /\ Owed(id)' \in Nat
  BY <1>0 DEF Owed
<1>2. ASSUME callback_map' \subseteq callback_map, answers'[id] = answers[id]
      PROVE  Len(answers'[id]) + Owed(id)' <= spent'["connects"]
  <2>1. CASE Loops' <= Loops
    <3>1. Owed(id)' <= Owed(id)
      BY <1>0, <1>2, <2>1 DEF Owed
    <3> QED
      BY <1>0, <1>1, <1>2, <3>1
  <2>2. ASSUME NEW u \in Users, Connect(u), Loops' = Loops + 1
        PROVE  Len(answers'[id]) + Owed(id)' <= spent'["connects"]
    <3>1. spent'["connects"] = spent["connects"] + 1
      BY <2>2, SpentGrows
    <3>2. Owed(id)' <= Owed(id) + 1
      BY <1>0, <1>2, <2>2 DEF Owed
    <3> QED
      BY <1>0, <1>1, <1>2, <3>1, <3>2
  <2> QED
    BY <2>1, <2>2, LoopsStep
<1>3. ASSUME NEW u \in Users, RegisterCallback(u),
             callback_map' = callback_map \cup {callback_id'}, answers' = answers
      PROVE  Len(answers'[id]) + Owed(id)' <= spent'["connects"]
  <2>1. CASE id = callback_id'
    <3>1. callback_id' > callback_id
      BY <1>3, RegisteringStep, NextGiven
    <3>2. answers'[id] = <<>>
      BY <1>3, <2>1, <3>1 DEF Unused
    <3>3. Len(answers'[id]) = 0
      BY <3>2
    <3> QED
      BY <1>0, <3>3 DEF Owed
  <2>2. CASE id # callback_id'
    <3>1. id \in callback_map' <=> id \in callback_map
      BY <1>3, <2>2
    <3>2. Loops' <= Loops
      <4>1. \A v \in Users : ~Connect(v)
        <5>1. spent' = spent
          BY <1>3 DEF RegisterCallback, otherVars
        <5> QED
          BY <1>0, <5>1, SpentGrows
      <4> QED
        BY <4>1, LoopsStep
    <3>3. Owed(id)' <= Owed(id)
      BY <1>0, <3>1, <3>2 DEF Owed
    <3> QED
      BY <1>0, <1>1, <1>3, <3>3
  <2> QED
    BY <2>1, <2>2
<1>4. ASSUME FailCallbacks, callback_map' = callback_map,
             id \in callback_map => Len(answers'[id]) = Len(answers[id]) + 1,
             id \notin callback_map => answers'[id] = answers[id]
      PROVE  Len(answers'[id]) + Owed(id)' <= spent'["connects"]
  <2>1. Loops' <= Loops - 1
    BY <1>4, LoopsHandler DEF HandlerNext
  <2>2. CASE id \in callback_map
    <3>1. Owed(id) = Loops /\ Owed(id)' = Loops'
      BY <1>4, <2>2 DEF Owed
    <3>2. Len(answers'[id]) = Len(answers[id]) + 1
      BY <1>4, <2>2
    <3> QED
      BY ONLY <1>0, <2>1, <3>1, <3>2
  <2>3. CASE id \notin callback_map
    <3>1. Owed(id)' = 0 /\ answers'[id] = answers[id]
      BY <1>4, <2>3 DEF Owed
    <3> QED
      BY <1>0, <1>1, <3>1
  <2> QED
    BY <2>2, <2>3
<1>5. ASSUME CallBack, NEW c \in callback_map, callback_map' = callback_map \ {c},
             Len(answers'[c]) = Len(answers[c]) + 1,
             \A other \in CallbackIds \ {c} : answers'[other] = answers[other]
      PROVE  Len(answers'[id]) + Owed(id)' <= spent'["connects"]
  <2>1. Loops >= 1 /\ Loops' <= Loops
    BY <1>5, LoopsHandler DEF HandlerNext
  <2>2. CASE id = c
    <3>1. Owed(id) = Loops /\ Owed(id)' = 0
      BY <1>5, <2>2 DEF Owed
    <3> QED
      BY <1>0, <1>5, <2>1, <2>2, <3>1
  <2>3. CASE id # c
    <3>1. Owed(id)' <= Owed(id) /\ answers'[id] = answers[id]
      BY <1>0, <1>5, <2>1, <2>3 DEF Owed
    <3> QED
      BY <1>0, <1>1, <3>1
  <2> QED
    BY <2>2, <2>3
<1> QED
  BY <1>2, <1>3, <1>4, <1>5, CallbackSteps

LEMMA CallbackInit == Init => RegisterInv /\ GivenInv /\ Unused /\ CallbackInv
<1> SUFFICES ASSUME Init PROVE RegisterInv /\ GivenInv /\ Unused /\ CallbackInv
  OBVIOUS
<1>1. /\ \A u \in Users : todo[u] = <<>>
      /\ spent["callbacks"] = 0 /\ spent["connects"] = 0
      /\ callback_id = 0 /\ callback_map = {}
      /\ \A id \in CallbackIds : answers[id] = <<>>
  BY TodoFacts DEF Init, Bounded, CallIds
<1>2. Registering = {} /\ RegisterInv
  BY <1>1 DEF Registering, RegisterInv, At
<1>3. GivenInv
  BY <1>1, <1>2, FS_EmptySet, CallAssumption DEF GivenInv, GivenOut
<1>4. Unused
  BY <1>1 DEF Unused
<1>5. CallbackInv
  <2>1. Len(<<>>) = 0
    OBVIOUS
  <2> QED
    BY <1>1, <2>1 DEF CallbackInv, Owed
<1> QED
  BY <1>2, <1>3, <1>4, <1>5

(***************************************************************************)
(* A callback is called at most once for every connect(): an answer that   *)
(* comes late, a failing read and close() find its entry gone, and without *)
(* automatic reconnection no other loop is there to call it again          *)
(* (rpc_client.hpp:476 and :553).                                          *)
(***************************************************************************)
THEOREM CallbackCalledOnce == Spec => []CallbackOnce
<1> DEFINE Inv == RegisterInv /\ GivenInv /\ Unused /\ CallbackInv
<1>1. Init => Inv
  BY CallbackInit
<1>2. /\ TypeOK /\ TypeOK' /\ CarryInv /\ LoopsInv /\ LoopsInv' /\ Inv /\ [Next]_vars
      => Inv'
  BY GivenNext, UnusedNext, CallbackNext
<1>3. TypeOK /\ CarryInv /\ LoopsInv /\ Inv => CallbackOnce
  <2> SUFFICES ASSUME TypeOK, CarryInv, CallbackInv, ~EnableReconnect,
                      NEW id \in CallbackIds
               PROVE  Len(answers[id]) <= spent["connects"]
    BY DEF CallbackOnce
  <2>1. Len(answers[id]) \in Nat /\ spent["connects"] \in Nat
    BY LenProperties DEF TypeOK, CallIds, Bounded
  <2>2. Loops \in Nat
    BY LoopsType DEF Loops
  <2>3. Owed(id) \in Nat
    BY <2>2 DEF Owed
  <2>4. Len(answers[id]) + Owed(id) <= spent["connects"]
    BY DEF CallbackInv
  <2> QED
    BY ONLY <2>1, <2>3, <2>4
<1> HIDE DEF Inv
<1>4. Spec => []Inv
  BY <1>1, <1>2, LoopsInvariant, PTL DEF Spec
<1> QED
  BY <1>3, <1>4, LoopsInvariant, PTL

=============================================================================
