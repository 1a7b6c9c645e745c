-------------------------- MODULE Connection_proofs -------------------------
(***************************************************************************)
(* What holds of Connection for every number of frames, publications,      *)
(* failures of the link and threads that respond: its types; that one      *)
(* message is written at a time; that one read is under way, so that       *)
(* req_id_ is that of the body which is served, and a response carries the *)
(* id of the request it answers; that a connection is never left           *)
(* unwatched; and, from where the id of a request is at each moment, that  *)
(* the connection implements PeerEnd.                                      *)
(***************************************************************************)
EXTENDS Connection, SequenceTheorems, TLAPS

-----------------------------------------------------------------------------
(* Types of the values the actions put together                            *)

LEMMA Constructors ==
    /\ NoFrame \in Frame /\ NoMessage \in Message
    /\ NoRead \in Read /\ HeadRead \in Read
    /\ \A f \in Frame : BodyRead(f) \in Read
    /\ \A m \in Message, ec \in BOOLEAN : WriteDone(m, ec) \in Completion
    /\ \A op \in {"head", "body"}, f \in Frame, ec \in BOOLEAN :
          ReadDone(op, f, ec) \in Completion
    /\ Expired \in Completion
<1>1. NoFrame \in Frame
  BY BoundAssumption DEF NoFrame, Frame, AllKinds
<1>2. NoMessage \in Message
  BY BoundAssumption DEF NoMessage, Message, Response
<1> QED
  BY <1>1, <1>2 DEF NoRead, HeadRead, BodyRead, Read, WriteDone, ReadDone,
     Expired, Completion

LEMMA SequenceOfOne ==
    ASSUME NEW S, NEW e \in S
    PROVE  <<e>> \in Seq(S)
OBVIOUS

LEMMA ReaderDone ==
    ASSUME NEW r \in Read, r # NoRead, NEW ec \in BOOLEAN
    PROVE  ReadDone(r.op, r.frame, ec) \in Completion
<1>1. r.op \in {"head", "body"} /\ r.frame \in Frame
  BY Constructors DEF Read, NoRead
<1> QED
  BY <1>1, Constructors

LEMMA HeadOfReady ==
    ASSUME NEW s \in Seq(Completion), s # <<>>
    PROVE  /\ Head(s).frame \in Frame /\ Head(s).msg \in Message
           /\ Head(s).ec \in BOOLEAN /\ Tail(s) \in Seq(Completion)
<1>1. Head(s) \in Completion /\ Tail(s) \in Seq(Completion)
  BY HeadTailProperties
<1> QED
  BY <1>1 DEF Completion

\* What closing the socket adds to ready
CancelledRead ==
    IF reader = NoRead THEN <<>> ELSE <<ReadDone(reader.op, reader.frame, TRUE)>>
CancelledWrites == [i \in DOMAIN writing |-> WriteDone(writing[i], TRUE)]

LEMMA CancelledTypes ==
    ASSUME TypeOK
    PROVE  CancelledRead \in Seq(Completion) /\ CancelledWrites \in Seq(Completion)
<1>1. CancelledRead \in Seq(Completion)
  <2>1. CASE reader = NoRead
    BY <2>1 DEF CancelledRead
  <2>2. CASE reader # NoRead
    <3>1. ReadDone(reader.op, reader.frame, TRUE) \in Completion
      BY <2>2, ReaderDone DEF TypeOK
    <3>2. <<ReadDone(reader.op, reader.frame, TRUE)>> \in Seq(Completion)
      BY <3>1, SequenceOfOne
    <3> QED
      BY <2>2, <3>2 DEF CancelledRead
  <2> QED
    BY <2>1, <2>2
<1>2. CancelledWrites \in Seq(Completion)
  <2> DEFINE n == Len(writing)
  <2>1. writing \in Seq(Message) /\ n \in Nat /\ DOMAIN writing = 1 .. n
    BY LenProperties DEF TypeOK
  <2>2. \A i \in 1 .. n : WriteDone(writing[i], TRUE) \in Completion
    BY <2>1, ElementOfSeq, Constructors
  <2>3. CancelledWrites \in [1 .. n -> Completion]
    BY <2>1, <2>2 DEF CancelledWrites
  <2> HIDE DEF n
  <2> QED
    BY <2>1, <2>3
<1> QED
  BY <1>1, <1>2

LEMMA CloseType ==
    ASSUME TypeOK, NEW queue \in Seq(Completion), close(queue)
    PROVE  /\ has_closed' \in BOOLEAN /\ has_closed' /\ sock' = "closed"
           /\ reader' \in Read
           /\ writing' \in Seq(Message)
           /\ ready' \in Seq(Completion)
<1>1. CASE has_closed
  BY <1>1 DEF close, TypeOK, sockVars
<1>2. CASE ~has_closed
  <2>1. ready' = (queue \o CancelledRead) \o CancelledWrites
    BY <1>2 DEF close, CancelledRead, CancelledWrites
  <2>2. ready' \in Seq(Completion)
    BY <2>1, CancelledTypes, ConcatProperties
  <2> QED
    BY <1>2, <2>2, Constructors DEF close
<1> QED
  BY <1>1, <1>2

LEMMA StartWriteType ==
    ASSUME TypeOK, NEW m \in Message, NEW queue \in Seq(Completion),
           StartWrite(m, queue)
    PROVE  writing' \in Seq(Message) /\ ready' \in Seq(Completion)
<1>1. /\ Append(queue, WriteDone(m, TRUE)) \in Seq(Completion)
      /\ Append(writing, m) \in Seq(Message)
      /\ writing \in Seq(Message)
  BY Constructors, AppendProperties DEF TypeOK
<1>2. CASE sock = "closed"
  BY <1>1, <1>2 DEF StartWrite
<1>3. CASE sock # "closed"
  BY <1>1, <1>3 DEF StartWrite
<1> QED
  BY <1>2, <1>3

LEMMA ResponseType ==
    ASSUME TypeOK, NEW m \in Message, response(m)
    PROVE  /\ write_queue' \in Seq(Message)
           /\ writing' \in Seq(Message)
           /\ ready' \in Seq(Completion)
<1>1. write_queue' \in Seq(Message)
  BY AppendProperties DEF response, TypeOK
<1>2. CASE write_queue = <<>>
  <2>1. ready \in Seq(Completion) /\ StartWrite(m, ready)
    BY <1>2 DEF response, WriteIfFirst, TypeOK
  <2> QED
    BY <1>1, <2>1, StartWriteType
<1>3. CASE write_queue # <<>>
  BY <1>1, <1>3 DEF response, WriteIfFirst, TypeOK
<1> QED
  BY <1>2, <1>3


-----------------------------------------------------------------------------
(* Type correctness, in parts that the actions change one or two of         *)

FlagType   == {started, timer, subscribed} \subseteq BOOLEAN
SocketType == /\ has_closed \in BOOLEAN
              /\ has_closed <=> sock = "closed"
              /\ sock \in {"open", "broken", "closed"}
ReaderType == reader \in Read
WriterType == writing \in Seq(Message) /\ write_queue \in Seq(Message)
ReadyType  == ready \in Seq(Completion)
ServerType == /\ req_id \in 0 .. MaxFrames
              /\ io \in Seq(Message)
              /\ answering \subseteq Message
              /\ doubled \subseteq 0 .. MaxFrames
ClientType == /\ sent \in Seq(Message)
              /\ inbound \in Seq(Frame)
              /\ asked \subseteq Ids
SpentType  == spent \in [{"frames", "publishes", "drops"} -> Nat]
AllTypes   == /\ FlagType /\ SocketType /\ ReaderType /\ WriterType
              /\ ReadyType /\ ServerType /\ ClientType /\ SpentType

LEMMA TypeParts == (TypeOK <=> AllTypes) /\ (TypeOK' <=> AllTypes')
BY DEF TypeOK, AllTypes, FlagType, SocketType, ReaderType, WriterType,
   ReadyType, ServerType, ClientType, SpentType

\* A part whose variables do not change stays as it is.
LEMMA Unchanged ==
    ASSUME AllTypes
    PROVE  /\ UNCHANGED <<started, timer, subscribed>> => FlagType'
           /\ UNCHANGED <<has_closed, sock>> => SocketType'
           /\ UNCHANGED reader => ReaderType'
           /\ UNCHANGED <<writing, write_queue>> => WriterType'
           /\ UNCHANGED ready => ReadyType'
           /\ UNCHANGED <<req_id, io, answering, doubled>> => ServerType'
           /\ UNCHANGED <<sent, inbound, asked>> => ClientType'
           /\ UNCHANGED spent => SpentType'
<1>1. UNCHANGED <<started, timer, subscribed>> => FlagType'
  BY DEF AllTypes, FlagType
<1>2. UNCHANGED <<has_closed, sock>> => SocketType'
  BY DEF AllTypes, SocketType
<1>3. UNCHANGED reader => ReaderType'
  BY DEF AllTypes, ReaderType
<1>4. UNCHANGED <<writing, write_queue>> => WriterType'
  BY DEF AllTypes, WriterType
<1>5. UNCHANGED ready => ReadyType'
  BY DEF AllTypes, ReadyType
<1>6. UNCHANGED <<req_id, io, answering, doubled>> => ServerType'
  BY DEF AllTypes, ServerType
<1>7. UNCHANGED <<sent, inbound, asked>> => ClientType'
  BY DEF AllTypes, ClientType
<1>8. UNCHANGED spent => SpentType'
  BY DEF AllTypes, SpentType
<1> QED
  BY <1>1, <1>2, <1>3, <1>4, <1>5, <1>6, <1>7, <1>8

\* What route() and another thread may answer to the request that is served
Answer(by) == Response(req_id, Head(ready).frame.id, by)

LEMMA RequestAnswers ==
    ASSUME OnRequest
    PROVE  /\ io' = io \/ io' = <<Answer("route")>>
           /\ answering' = answering \/ answering' = answering \cup {Answer("thread")}
           /\ doubled' = doubled \/ doubled' = doubled \cup {req_id}
           /\ io' = io \/ answering' = answering \/ req_id \in doubled'
           /\ doubled \subseteq doubled'
BY DEF OnRequest, Answer

LEMMA InitType == Init => TypeOK
<1> SUFFICES ASSUME Init PROVE TypeOK
  OBVIOUS
<1>1. <<>> \in Seq(Message) /\ <<>> \in Seq(Completion) /\ <<>> \in Seq(Frame)
  OBVIOUS
<1>2. req_id \in 0 .. MaxFrames
  BY BoundAssumption DEF Init
<1> QED
  BY <1>1, <1>2, Constructors DEF Init, TypeOK

\* OneWrite is what keeps on_write from popping an empty queue.
LEMMA FrontIsWritten ==
    ASSUME TypeOK, OneWrite, Handles("write")
    PROVE  /\ WritesDone = {1} /\ writing = <<>>
           /\ write_queue # <<>> /\ ready[1].msg = Head(write_queue)
<1>1. ready \in Seq(Completion) /\ ready # <<>> /\ ready[1].op = "write"
  BY DEF TypeOK, Handles
<1>2. 1 \in WritesDone
  BY <1>1 DEF WritesDone
<1> QED
  BY <1>2 DEF OneWrite

LEMMA HandlerTypes == ASSUME TypeOK, OneWrite, HandlerNext PROVE TypeOK'
<1> USE DEF sockVars, serverVars, clientVars
<1>0. AllTypes
  BY TypeParts
<1>t. ASSUME ready # <<>>
      PROVE  /\ Head(ready).frame \in Frame /\ Head(ready).msg \in Message
             /\ Head(ready).ec \in BOOLEAN /\ Tail(ready) \in Seq(Completion)
  BY <1>t, HeadOfReady DEF TypeOK
<1>h. HeadRead \in Read /\ Timeout \in BOOLEAN
  BY Constructors, ClientAssumption
<1>1. CASE Start
  <2>1. FlagType' /\ ReaderType'
    BY <1>0, <1>h, <1>1 DEF Start, read_head, reset_timer, AllTypes, FlagType, ReaderType
  <2> QED
    BY <1>0, <1>1, <2>1, Unchanged, TypeParts DEF AllTypes, Start
<1>2. ASSUME ready # <<>>, close(Tail(ready)),
             UNCHANGED <<started, timer, req_id, write_queue, io, serverVars, clientVars>>
      PROVE  TypeOK'
  <2>1. SocketType' /\ ReaderType' /\ WriterType' /\ ReadyType'
    BY <1>0, <1>t, <1>2, CloseType DEF AllTypes, SocketType, ReaderType, WriterType, ReadyType
  <2> QED
    BY <1>0, <1>2, <2>1, Unchanged, TypeParts DEF AllTypes
<1>3. CASE OnHeadFailed
  <2>1. CASE close(Tail(ready))
    BY <1>2, <1>3, <2>1 DEF OnHeadFailed, Handles
  <2>2. CASE UNCHANGED <<has_closed, sockVars>> /\ ready' = Tail(ready)
    <3>1. ReadyType'
      BY <1>t, <1>3, <2>2 DEF OnHeadFailed, Handles, ReadyType
    <3> QED
      BY <1>0, <1>3, <2>2, <3>1, Unchanged, TypeParts DEF AllTypes, OnHeadFailed
  <2> QED
    BY <1>3, <2>1, <2>2 DEF OnHeadFailed
<1>4. CASE OnAlienHead
  BY <1>2, <1>4 DEF OnAlienHead, HandlesHead, Handles
<1>5. CASE OnHead
  <2> DEFINE f == Head(ready).frame
  <2>1. f \in Frame /\ Tail(ready) \in Seq(Completion)
    BY <1>t, <1>5 DEF OnHead, HandlesHead, Handles
  <2>2. f.id \in 0 .. MaxFrames /\ BodyRead(f) \in Read
    BY <2>1, Constructors DEF Frame
  <2>3. /\ req_id' = f.id /\ ready' = Tail(ready)
        /\ \/ reader' = BodyRead(f) /\ timer' = timer
           \/ reader' = HeadRead /\ timer' = Timeout
           \/ reader' = reader /\ timer' = timer
    BY <1>5 DEF OnHead, read_head, reset_timer
  <2> HIDE DEF f
  <2>4. FlagType' /\ ReaderType' /\ ReadyType' /\ ServerType'
    BY <1>0, <1>h, <1>5, <2>1, <2>2, <2>3
       DEF OnHead, AllTypes, FlagType, ReaderType, ReadyType, ServerType
  <2> QED
    BY <1>0, <1>5, <2>4, Unchanged, TypeParts DEF AllTypes, OnHead
<1>6. CASE OnBodyFailed
  <2>1. FlagType' /\ ReadyType'
    BY <1>0, <1>t, <1>6 DEF OnBodyFailed, Handles, cancel_timer, AllTypes, FlagType, ReadyType
  <2> QED
    BY <1>0, <1>6, <2>1, Unchanged, TypeParts DEF AllTypes, OnBodyFailed
<1>7. ASSUME NEW kind, HandlesBody(kind)
      PROVE  /\ timer' \in BOOLEAN /\ ReaderType' /\ ReadyType'
             /\ Head(ready).frame \in Frame
  BY <1>h, <1>t, <1>7 DEF HandlesBody, Handles, read_next, read_head, reset_timer,
     ReaderType, ReadyType
<1>8. CASE OnRequest
  <2>1. timer' \in BOOLEAN /\ ReaderType' /\ ReadyType' /\ Head(ready).frame \in Frame
    BY <1>7, <1>8 DEF OnRequest
  <2>2. Answer("route") \in Message /\ Answer("thread") \in Message
    BY <1>0, <2>1, BoundAssumption
       DEF AllTypes, ServerType, Answer, Response, Message, Frame
  <2>3. req_id' = req_id
    BY <1>8 DEF OnRequest
  <2>4. ServerType'
    BY <1>0, <1>8, <2>2, <2>3, RequestAnswers, SequenceOfOne DEF AllTypes, ServerType
  <2>5. FlagType'
    BY <1>0, <1>8, <2>1 DEF OnRequest, AllTypes, FlagType
  <2> QED
    BY <1>0, <1>8, <2>1, <2>4, <2>5, Unchanged, TypeParts DEF AllTypes, OnRequest
<1>9. CASE OnSubscription
  <2>1. timer' \in BOOLEAN /\ ReaderType' /\ ReadyType'
    BY <1>7, <1>9 DEF OnSubscription
  <2>2. FlagType'
    BY <1>0, <1>9, <2>1 DEF OnSubscription, AllTypes, FlagType
  <2> QED
    BY <1>0, <1>9, <2>1, <2>2, Unchanged, TypeParts DEF AllTypes, OnSubscription
<1>10. CASE OnWritten
  <2>1. Tail(ready) \in Seq(Completion)
    BY <1>t, <1>10 DEF OnWritten, Handles
  <2>2. CASE has_closed
    BY <1>0, <1>10, <2>1, <2>2, Unchanged, TypeParts DEF AllTypes, OnWritten, ReadyType
  <2>3. CASE ~has_closed /\ Len(write_queue) > 1
    <3>1. write_queue[2] \in Message /\ Tail(write_queue) \in Seq(Message)
      <4>1. write_queue \in Seq(Message) /\ write_queue # <<>> /\ 2 \in 1 .. Len(write_queue)
        BY <1>0, <2>3, LenProperties DEF AllTypes, WriterType
      <4> QED
        BY <4>1, ElementOfSeq, HeadTailProperties
    <3>2. StartWrite(write_queue[2], Tail(ready)) /\ write_queue' = Tail(write_queue)
      BY <1>10, <2>3 DEF OnWritten
    <3>3. WriterType' /\ ReadyType'
      BY <2>1, <3>1, <3>2, StartWriteType DEF WriterType, ReadyType
    <3> QED
      BY <1>0, <1>10, <3>3, Unchanged, TypeParts DEF AllTypes, OnWritten
  <2>4. CASE ~has_closed /\ ~(Len(write_queue) > 1)
    <3>1. Tail(write_queue) \in Seq(Message)
      BY <1>0, <1>10, FrontIsWritten, HeadTailProperties DEF AllTypes, WriterType, OnWritten
    <3>2. WriterType' /\ ReadyType'
      BY <1>0, <1>10, <2>1, <2>4, <3>1 DEF OnWritten, AllTypes, WriterType, ReadyType
    <3> QED
      BY <1>0, <1>10, <3>2, Unchanged, TypeParts DEF AllTypes, OnWritten
  <2> QED
    BY <2>2, <2>3, <2>4
<1>11. CASE OnWriteFailed
  BY <1>2, <1>11 DEF OnWriteFailed, Handles
<1>12. CASE OnTimer
  BY <1>2, <1>12 DEF OnTimer, Handles
<1>13. CASE Respond
  <2>1. Head(io) \in Message
    BY <1>0, <1>13, HeadTailProperties DEF AllTypes, ServerType, Respond
  <2>2. WriterType' /\ ReadyType'
    BY <1>13, <2>1, ResponseType DEF Respond, WriterType, ReadyType
  <2>3. ServerType'
    BY <1>0, <1>13, EmptySeq DEF Respond, AllTypes, ServerType
  <2> QED
    BY <1>0, <1>13, <2>2, <2>3, Unchanged, TypeParts DEF AllTypes, Respond
<1> QED
  BY <1>1, <1>3, <1>4, <1>5, <1>6, <1>8, <1>9, <1>10, <1>11, <1>12, <1>13 DEF HandlerNext


LEMMA SpendType ==
    ASSUME TypeOK, NEW what \in {"frames", "publishes", "drops"}, NEW limit,
           Spend(what, limit)
    PROVE  SpentType' /\ spent'[what] \in Nat /\ spent'[what] = spent[what] + 1
BY DEF Spend, SpentType, TypeOK

LEMMA EnvironmentTypes ==
    ASSUME TypeOK,
           \/ \E m \in answering : RespondLater(m)
           \/ Publish \/ TimerExpires \/ ReadNext
           \/ \E ec \in BOOLEAN : WriteCompletes(ec)
           \/ LinkDrops
           \/ \E kind \in Kinds : ClientSends(kind)
    PROVE  TypeOK'
<1> USE DEF sockVars, serverVars, clientVars
<1>0. AllTypes
  BY TypeParts
<1>c. ASSUME NEW c \in Completion, Completes(c) PROVE ReadyType'
  BY <1>0, <1>c, AppendProperties DEF Completes, ReadyType, AllTypes
<1>1. ASSUME NEW m \in answering, RespondLater(m) PROVE TypeOK'
  <2>1. m \in Message
    BY <1>0 DEF AllTypes, ServerType
  <2>2. WriterType' /\ ReadyType'
    BY <1>1, <2>1, ResponseType DEF RespondLater, KeptId, WriterType, ReadyType
  <2>3. ServerType'
    BY <1>0, <1>1 DEF RespondLater, NoLongerHeld, AllTypes, ServerType
  <2> QED
    BY <1>0, <1>1, <2>2, <2>3, Unchanged, TypeParts DEF AllTypes, RespondLater
<1>2. CASE Publish
  <2>0. SpentType /\ Spend("publishes", MaxPublishes)
    BY <1>0, <1>2 DEF Publish, AllTypes
  <2>1. SpentType' /\ spent'["publishes"] \in 0 .. MaxPublishes
    BY ONLY <2>0, BoundAssumption DEF Spend, SpentType
  <2>2. Publication(spent'["publishes"]) \in Message
    BY <2>1, BoundAssumption DEF Publication, Message
  <2>3. ServerType'
    BY <1>0, <1>2, <2>2 DEF Publish, AllTypes, ServerType
  <2> QED
    BY <1>0, <1>2, <2>1, <2>3, Unchanged, TypeParts DEF AllTypes, Publish
<1>3. CASE TimerExpires
  <2>1. ReadyType' /\ FlagType'
    BY <1>0, <1>3, <1>c, Constructors DEF TimerExpires, AllTypes, FlagType
  <2> QED
    BY <1>0, <1>3, <2>1, Unchanged, TypeParts DEF AllTypes, TimerExpires
<1>4. CASE HeadCompletes
  <2>1. Head(inbound) \in Frame /\ Tail(inbound) \in Seq(Frame)
    BY <1>0, <1>4, HeadTailProperties DEF HeadCompletes, AllTypes, ClientType
  <2>2. ReadyType'
    BY <1>4, <1>c, <2>1, Constructors DEF HeadCompletes
  <2>3. ReaderType' /\ ClientType'
    BY <1>0, <1>4, <2>1, Constructors DEF HeadCompletes, AllTypes, ReaderType, ClientType
  <2> QED
    BY <1>0, <1>4, <2>2, <2>3, Unchanged, TypeParts DEF AllTypes, HeadCompletes
<1>5. CASE BodyCompletes
  <2>1. reader.frame \in Frame
    BY <1>0, <1>5 DEF BodyCompletes, AllTypes, ReaderType, Read
  <2>2. ReadyType'
    BY <1>5, <1>c, <2>1, Constructors DEF BodyCompletes
  <2>3. ReaderType'
    BY <1>5, Constructors DEF BodyCompletes, ReaderType
  <2> QED
    BY <1>0, <1>5, <2>2, <2>3, Unchanged, TypeParts DEF AllTypes, BodyCompletes
<1>6. CASE ReadFails
  <2>1. ReadyType'
    BY <1>0, <1>6, <1>c, ReaderDone DEF ReadFails, AllTypes, ReaderType
  <2>2. ReaderType'
    BY <1>6, Constructors DEF ReadFails, ReaderType
  <2> QED
    BY <1>0, <1>6, <2>1, <2>2, Unchanged, TypeParts DEF AllTypes, ReadFails
<1>7. ASSUME NEW ec \in BOOLEAN, WriteCompletes(ec) PROVE TypeOK'
  <2>1. Head(writing) \in Message /\ Tail(writing) \in Seq(Message)
    BY <1>0, <1>7, HeadTailProperties DEF WriteCompletes, AllTypes, WriterType
  <2>2. ReadyType'
    BY <1>7, <1>c, <2>1, Constructors DEF WriteCompletes
  <2>3. WriterType'
    BY <1>0, <1>7, <2>1 DEF WriteCompletes, AllTypes, WriterType
  <2>4. Append(sent, Head(writing)) \in Seq(Message)
    BY <1>0, <2>1, AppendProperties DEF AllTypes, ClientType
  <2>5. ClientType'
    BY <1>0, <1>7, <2>4 DEF WriteCompletes, AllTypes, ClientType
  <2> QED
    BY <1>0, <1>7, <2>2, <2>3, <2>5, Unchanged, TypeParts DEF AllTypes, WriteCompletes
<1>8. CASE LinkDrops
  <2>1. SpentType'
    BY <1>8, SpendType DEF LinkDrops
  <2>2. SocketType'
    BY <1>0, <1>8 DEF LinkDrops, AllTypes, SocketType
  <2> QED
    BY <1>0, <1>8, <2>1, <2>2, Unchanged, TypeParts DEF AllTypes, LinkDrops
<1>9. ASSUME NEW kind \in Kinds, ClientSends(kind) PROVE TypeOK'
  <2> DEFINE id == IF kind = "request" THEN spent'["frames"] ELSE 0
             f  == [kind |-> kind, id |-> id]
  <2>0. SpentType /\ Spend("frames", MaxFrames)
    BY <1>0, <1>9 DEF ClientSends, AllTypes
  <2>1. SpentType' /\ spent'["frames"] \in 1 .. MaxFrames
    BY ONLY <2>0, BoundAssumption DEF Spend, SpentType
  <2>2. f \in Frame /\ {id} \ {0} \subseteq Ids
    BY <2>1, ClientAssumption, BoundAssumption DEF Frame, Ids
  <2>3. inbound' = Append(inbound, f) /\ asked' = asked \cup ({id} \ {0})
    BY <1>9 DEF ClientSends
  <2> HIDE DEF f, id
  <2>4. ClientType'
    BY <1>0, <1>9, <2>2, <2>3, AppendProperties DEF ClientSends, AllTypes, ClientType
  <2> QED
    BY <1>0, <1>9, <2>1, <2>4, Unchanged, TypeParts DEF AllTypes, ClientSends
<1> QED
  BY <1>1, <1>2, <1>3, <1>4, <1>5, <1>6, <1>7, <1>8, <1>9 DEF ReadNext

LEMMA NextType == TypeOK /\ OneWrite /\ [Next]_vars => TypeOK'
<1> SUFFICES ASSUME TypeOK, OneWrite, [Next]_vars PROVE TypeOK'
  OBVIOUS
<1>1. CASE UNCHANGED vars
  BY <1>1, Unchanged, TypeParts DEF AllTypes, vars, sockVars, serverVars, clientVars
<1>2. CASE HandlerNext
  BY <1>2, HandlerTypes
<1> QED
  BY <1>1, <1>2, EnvironmentTypes DEF Next


-----------------------------------------------------------------------------
(* One write at a time.  OneWrite is stated of any queue of completions, so *)
(* that what a handler or a thread does to the queue can be followed.       *)

Writes(r) == {i \in DOMAIN r : r[i].op = "write"}
Chain(r, w, q) ==
    /\ Len(w) <= 1
    /\ w # <<>> => Writes(r) = {} /\ q # <<>> /\ Head(w) = Head(q)
    /\ \A i \in Writes(r) : /\ Writes(r) = {i}
                            /\ q # <<>>
                            /\ r[i].msg = Head(q)

LEMMA ChainIsOneWrite == /\ OneWrite <=> Chain(ready, writing, write_queue)
                         /\ OneWrite' <=> Chain(ready, writing, write_queue)'
BY DEF OneWrite, Chain, Writes, WritesDone

LEMMA TailWrites ==
    ASSUME NEW r \in Seq(Completion), r # <<>>
    PROVE  \A i \in Writes(Tail(r)) : i + 1 \in Writes(r) /\ Tail(r)[i] = r[i + 1]
BY DEF Writes

\* The handler of an operation that is not a write is taken off the queue.
LEMMA ChainTail ==
    ASSUME NEW r \in Seq(Completion), r # <<>>, NEW w, NEW q, Chain(r, w, q),
           Head(r).op # "write"
    PROVE  Chain(Tail(r), w, q)
<1>1. Writes(r) = {} => Writes(Tail(r)) = {}
  BY TailWrites
<1>2. ASSUME NEW i \in Writes(Tail(r))
      PROVE  Writes(Tail(r)) = {i} /\ q # <<>> /\ Tail(r)[i].msg = Head(q)
  <2>1. Writes(r) = {i + 1} /\ q # <<>> /\ r[i + 1].msg = Head(q)
    BY TailWrites DEF Chain
  <2>2. Tail(r)[i] = r[i + 1]
    BY TailWrites
  <2>3. \A j \in Writes(Tail(r)) : j = i
    <3> SUFFICES ASSUME NEW j \in Writes(Tail(r)) PROVE j = i
      OBVIOUS
    <3>1. j + 1 = i + 1 /\ i \in Int /\ j \in Int
      BY <2>1, TailWrites, HeadTailProperties DEF Writes
    <3> QED
      BY <3>1
  <2> QED
    BY <2>1, <2>2, <2>3
<1> QED
  BY <1>1, <1>2 DEF Chain

\* The handler of the write is taken off the queue.
LEMMA ChainTailWrite ==
    ASSUME NEW r \in Seq(Completion), Writes(r) = {1}
    PROVE  Writes(Tail(r)) = {}
<1> SUFFICES ASSUME NEW i \in Writes(Tail(r)) PROVE FALSE
  OBVIOUS
<1>1. r # <<>>
  BY DEF Writes
<1>2. i + 1 = 1 /\ i \in 1 .. Len(Tail(r))
  BY <1>1, TailWrites, HeadTailProperties DEF Writes
<1> QED
  BY <1>2

LEMMA AppendWrites ==
    ASSUME NEW r \in Seq(Completion), NEW c \in Completion
    PROVE  /\ \A i \in Writes(r) : Append(r, c)[i] = r[i]
           /\ c.op # "write" => Writes(Append(r, c)) = Writes(r)
           /\ c.op = "write" => Writes(Append(r, c)) = Writes(r) \cup {Len(r) + 1}
           /\ Append(r, c)[Len(r) + 1] = c
<1>1. /\ DOMAIN Append(r, c) = 1 .. (Len(r) + 1)
      /\ DOMAIN r = 1 .. Len(r) /\ Len(r) \in Nat
      /\ \A i \in 1 .. Len(r) : Append(r, c)[i] = r[i]
      /\ Append(r, c)[Len(r) + 1] = c
  BY AppendProperties, LenProperties
<1>2. \A i \in 1 .. (Len(r) + 1) : i \in 1 .. Len(r) \/ i = Len(r) + 1
  BY <1>1
<1>3. \A i \in 1 .. Len(r) : i \in 1 .. (Len(r) + 1)
  BY <1>1
<1>4. Len(r) + 1 \in 1 .. (Len(r) + 1)
  BY <1>1
<1> QED
  BY <1>1, <1>2, <1>3, <1>4 DEF Writes

\* An operation that is not a write completes.
LEMMA ChainAppend ==
    ASSUME NEW r \in Seq(Completion), NEW w, NEW q, Chain(r, w, q),
           NEW c \in Completion, c.op # "write"
    PROVE  Chain(Append(r, c), w, q)
<1>1. Writes(Append(r, c)) = Writes(r) /\ \A i \in Writes(r) : Append(r, c)[i] = r[i]
  BY AppendWrites
<1> QED
  BY <1>1 DEF Chain

\* A write is started when no other is under way: it waits, or it has failed.
LEMMA ChainStart ==
    ASSUME NEW r \in Seq(Completion), Writes(r) = {}, NEW m \in Message, NEW q,
           q # <<>>, m = Head(q), NEW c \in Completion, c.op = "write", c.msg = m
    PROVE  /\ Chain(r, Append(<<>>, m), q)
           /\ Chain(Append(r, c), <<>>, q)
<1>1. Append(<<>>, m) = <<m>> /\ Len(<<m>>) = 1 /\ Head(<<m>>) = m
  OBVIOUS
<1>2. Chain(r, Append(<<>>, m), q)
  BY <1>1 DEF Chain
<1>3. Writes(Append(r, c)) = {Len(r) + 1} /\ Append(r, c)[Len(r) + 1] = c
  BY AppendWrites
<1>4. Chain(Append(r, c), <<>>, q)
  BY <1>3 DEF Chain
<1> QED
  BY <1>2, <1>4

LEMMA WriteDoneParts ==
    ASSUME NEW m \in Message, NEW ec \in BOOLEAN
    PROVE  /\ WriteDone(m, ec) \in Completion
           /\ WriteDone(m, ec).op = "write" /\ WriteDone(m, ec).msg = m
BY Constructors DEF WriteDone

\* A message joins a queue that is not empty.
LEMMA ChainQueue ==
    ASSUME NEW r, NEW w, NEW q \in Seq(Message), q # <<>>, Chain(r, w, q),
           NEW m \in Message
    PROVE  Chain(r, w, Append(q, m))
<1>1. Append(q, m) # <<>> /\ Head(Append(q, m)) = Head(q)
  BY AppendProperties, LenProperties
<1> QED
  BY <1>1 DEF Chain


LEMMA OneElement ==
    ASSUME NEW S, NEW s \in Seq(S), s # <<>>, Len(s) <= 1
    PROVE  s = <<Head(s)>>
<1>1. Head(s) \in S /\ Tail(s) \in Seq(S)
  BY HeadTailProperties
<1>2. Len(s) = 1
  <2>1. Len(s) \in Nat
    OBVIOUS
  <2>2. Len(s) # 0
    OBVIOUS
  <2> QED
    BY <2>1, <2>2
<1>3. s[1] = Head(s)
  OBVIOUS
<1>4. <<Head(s)>> \in Seq(S) /\ Len(<<Head(s)>>) = 1 /\ <<Head(s)>>[1] = Head(s)
  BY <1>1
<1> DEFINE t == <<Head(s)>>
<1> HIDE DEF t
<1>5. t \in Seq(S) /\ Len(t) = 1 /\ t[1] = Head(s)
  BY <1>4 DEF t
<1>6. \A i \in 1 .. Len(s) : s[i] = t[i]
  BY <1>2, <1>3, <1>5
<1>7. s = t
  BY <1>2, <1>5, <1>6, SeqEqual
<1> QED
  BY <1>7 DEF t

LEMMA TailOfOne ==
    ASSUME NEW S, NEW s \in Seq(S), s # <<>>, Len(s) <= 1
    PROVE  Tail(s) = <<>>
<1> DEFINE h == Head(s)
<1>1. s = <<h>>
  BY OneElement
<1> HIDE DEF h
<1>2. Tail(<<h>>) = <<>>
  OBVIOUS
<1> QED
  BY <1>1, <1>2

LEMMA TailOfMany ==
    ASSUME NEW S, NEW s \in Seq(S), Len(s) > 1
    PROVE  /\ s[2] \in S
           /\ Tail(s) # <<>> /\ Head(Tail(s)) = s[2]
<1>1. s # <<>> /\ Len(s) \in Nat
  OBVIOUS
<1> DEFINE t == Tail(s)
<1>2. t \in Seq(S) /\ Len(t) = Len(s) - 1 /\ \A i \in 1 .. Len(t) : t[i] = s[i + 1]
  BY <1>1, HeadTailProperties
<1> HIDE DEF t
<1>3. Len(t) > 0
  BY <1>1, <1>2
<1>4. t # <<>>
  BY <1>2, <1>3
<1>5. Head(t) = t[1] /\ t[1] = s[2]
  BY <1>2, <1>3, <1>4
<1>6. s[2] \in S
  BY <1>2, <1>4, <1>5, HeadTailProperties
<1> QED
  BY <1>4, <1>5, <1>6 DEF t

\* What close() adds to the queue: the read, if any, then the write, if any.
LEMMA CloseSteps ==
    ASSUME TypeOK, NEW queue \in Seq(Completion), ~has_closed, close(queue),
           Len(writing) <= 1
    PROVE  \E r \in Seq(Completion) :
              /\ \/ r = queue
                 \/ /\ reader # NoRead
                    /\ r = Append(queue, ReadDone(reader.op, reader.frame, TRUE))
              /\ \/ writing = <<>> /\ ready' = r
                 \/ /\ writing # <<>>
                    /\ ready' = Append(r, WriteDone(Head(writing), TRUE))
<1> DEFINE r == queue \o CancelledRead
<1>1. r \in Seq(Completion) /\ ready' = r \o CancelledWrites
  <2>1. CancelledRead \in Seq(Completion)
    BY CancelledTypes
  <2> QED
    BY <2>1, ConcatProperties DEF close, CancelledRead, CancelledWrites
<1>2. \/ r = queue
      \/ /\ reader # NoRead
         /\ r = Append(queue, ReadDone(reader.op, reader.frame, TRUE))
  <2>1. CASE reader = NoRead
    <3>1. CancelledRead = <<>>
      BY <2>1 DEF CancelledRead
    <3> QED
      BY <3>1, ConcatEmptySeq
  <2>2. CASE reader # NoRead
    <3>1. ReadDone(reader.op, reader.frame, TRUE) \in Completion
      BY <2>2, ReaderDone DEF TypeOK
    <3>2. CancelledRead = <<ReadDone(reader.op, reader.frame, TRUE)>>
      BY <2>2 DEF CancelledRead
    <3> QED
      BY <2>2, <3>1, <3>2, AppendIsConcat
  <2> QED
    BY <2>1, <2>2
<1> HIDE DEF r
<1>3. \/ writing = <<>> /\ ready' = r
      \/ writing # <<>> /\ ready' = Append(r, WriteDone(Head(writing), TRUE))
  <2>1. writing \in Seq(Message)
    BY DEF TypeOK
  <2>2. CASE writing = <<>>
    <3>1. CancelledWrites = <<>>
      BY <2>2 DEF CancelledWrites
    <3> QED
      BY <1>1, <2>2, <3>1, ConcatEmptySeq
  <2>3. CASE writing # <<>>
    <3>1. writing = <<Head(writing)>>
      BY <2>1, <2>3, OneElement
    <3>2. WriteDone(Head(writing), TRUE) \in Completion
      BY <2>1, <2>3, HeadTailProperties, WriteDoneParts
    <3>3. CancelledWrites = <<WriteDone(Head(writing), TRUE)>>
      <4> DEFINE c == WriteDone(Head(writing), TRUE)
      <4>1. Head(writing) = writing[1] /\ DOMAIN writing = {1}
        BY <3>1
      <4>2. CancelledWrites = [i \in {1} |-> c]
        BY <4>1 DEF CancelledWrites
      <4> HIDE DEF c
      <4>3. <<c>> = [i \in {1} |-> c]
        OBVIOUS
      <4> QED
        BY <4>2, <4>3 DEF c
    <3> QED
      BY <1>1, <2>3, <3>2, <3>3, AppendIsConcat
  <2> QED
    BY <2>2, <2>3
<1> QED
  BY <1>1, <1>2, <1>3

LEMMA ChainClose ==
    ASSUME TypeOK, NEW queue \in Seq(Completion), close(queue),
           Chain(queue, writing, write_queue), write_queue' = write_queue
    PROVE  OneWrite'
<1>1. CASE has_closed
  <2>1. ready' = queue /\ writing' = writing
    BY <1>1 DEF close, sockVars
  <2> QED
    BY <2>1, ChainIsOneWrite
<1>2. CASE ~has_closed
  <2>1. PICK r \in Seq(Completion) :
              /\ \/ r = queue
                 \/ /\ reader # NoRead
                    /\ r = Append(queue, ReadDone(reader.op, reader.frame, TRUE))
              /\ \/ writing = <<>> /\ ready' = r
                 \/ /\ writing # <<>>
                    /\ ready' = Append(r, WriteDone(Head(writing), TRUE))
    BY <1>2, CloseSteps DEF Chain
  <2>2. Chain(r, writing, write_queue)
    <3>1. CASE r = queue
      BY <3>1
    <3>2. CASE /\ reader # NoRead
               /\ r = Append(queue, ReadDone(reader.op, reader.frame, TRUE))
      <4>1. /\ ReadDone(reader.op, reader.frame, TRUE) \in Completion
            /\ ReadDone(reader.op, reader.frame, TRUE).op # "write"
        BY <3>2, ReaderDone DEF ReadDone, TypeOK, Read, NoRead
      <4> QED
        BY <3>2, <4>1, ChainAppend
    <3> QED
      BY <2>1, <3>1, <3>2
  <2>3. writing' = <<>>
    BY <1>2 DEF close
  <2>4. CASE writing = <<>>
    BY <2>1, <2>2, <2>3, <2>4, ChainIsOneWrite
  <2>5. CASE writing # <<>>
    <3>1. Head(writing) \in Message
      BY <2>5, HeadTailProperties DEF TypeOK
    <3>2. Writes(r) = {} /\ write_queue # <<>> /\ Head(writing) = Head(write_queue)
      BY <2>2, <2>5 DEF Chain
    <3>3. Chain(Append(r, WriteDone(Head(writing), TRUE)), <<>>, write_queue)
      BY <3>1, <3>2, WriteDoneParts, ChainStart
    <3> QED
      BY <2>1, <2>3, <2>5, <3>3, ChainIsOneWrite
  <2> QED
    BY <2>4, <2>5
<1> QED
  BY <1>1, <1>2

LEMMA ChainResponse ==
    ASSUME TypeOK, OneWrite, NEW m \in Message, response(m)
    PROVE  OneWrite'
<1>1. CASE write_queue = <<>>
  <2>1. Writes(ready) = {} /\ writing = <<>>
    BY <1>1, ChainIsOneWrite DEF Chain, TypeOK
  <2>2. write_queue' = <<m>> /\ <<m>> # <<>> /\ m = Head(<<m>>)
    BY <1>1 DEF response
  <2>3. StartWrite(m, ready)
    BY <1>1 DEF response, WriteIfFirst
  <2>4. /\ Chain(ready, Append(<<>>, m), <<m>>)
        /\ Chain(Append(ready, WriteDone(m, TRUE)), <<>>, <<m>>)
    <3>1. <<m>> \in Seq(Message) /\ ready \in Seq(Completion)
      BY DEF TypeOK
    <3> QED
      BY <2>1, <2>2, <3>1, WriteDoneParts, ChainStart
  <2> QED
    BY <2>1, <2>2, <2>3, <2>4, ChainIsOneWrite DEF StartWrite
<1>2. CASE write_queue # <<>>
  <2>1. /\ write_queue' = Append(write_queue, m)
        /\ writing' = writing /\ ready' = ready
    BY <1>2 DEF response, WriteIfFirst
  <2>2. Chain(ready, writing, Append(write_queue, m))
    BY <1>2, ChainIsOneWrite, ChainQueue DEF TypeOK
  <2> QED
    BY <2>1, <2>2, ChainIsOneWrite
<1> QED
  BY <1>1, <1>2


\* An operation that is not a write completes.
LEMMA ChainCompletes ==
    ASSUME TypeOK, OneWrite, NEW c \in Completion, c.op # "write", Completes(c),
           UNCHANGED <<writing, write_queue>>
    PROVE  OneWrite'
<1>1. Chain(Append(ready, c), writing, write_queue)
  BY ChainIsOneWrite, ChainAppend DEF TypeOK
<1> QED
  BY <1>1, ChainIsOneWrite DEF Completes

\* What a handler finds at the front of the queue
LEMMA ChainHandler ==
    ASSUME TypeOK, OneWrite, ready # <<>>, Head(ready).op # "write"
    PROVE  Chain(Tail(ready), writing, write_queue)
BY ChainIsOneWrite, ChainTail DEF TypeOK

LEMMA HandlersKeepOneWrite ==
    ASSUME TypeOK, OneWrite, HandlerNext
    PROVE  OneWrite'
<1> USE DEF sockVars, serverVars, clientVars
<1>r. ready \in Seq(Completion) /\ writing \in Seq(Message) /\ write_queue \in Seq(Message)
  BY DEF TypeOK
<1>1. CASE Start
  BY <1>1, ChainIsOneWrite DEF Start, Chain, Writes
<1>2. ASSUME ready # <<>>, Head(ready).op # "write", ready' = Tail(ready),
             UNCHANGED <<writing, write_queue>>
      PROVE  OneWrite'
  BY <1>2, ChainHandler, ChainIsOneWrite
<1>3. ASSUME ready # <<>>, Head(ready).op # "write", close(Tail(ready)),
             UNCHANGED write_queue
      PROVE  OneWrite'
  <2>1. Tail(ready) \in Seq(Completion)
    BY <1>r, <1>3, HeadTailProperties
  <2> QED
    BY <1>3, <2>1, ChainHandler, ChainClose
<1>4. CASE OnHeadFailed
  BY <1>2, <1>3, <1>4 DEF OnHeadFailed, Handles
<1>5. CASE OnAlienHead
  BY <1>3, <1>5 DEF OnAlienHead, HandlesHead, Handles
<1>6. CASE OnHead
  BY <1>2, <1>6 DEF OnHead, HandlesHead, Handles
<1>7. CASE OnBodyFailed
  BY <1>2, <1>7 DEF OnBodyFailed, Handles
<1>8. CASE OnRequest
  BY <1>2, <1>8 DEF OnRequest, HandlesBody, Handles
<1>9. CASE OnSubscription
  BY <1>2, <1>9 DEF OnSubscription, HandlesBody, Handles
<1>10. CASE OnTimer
  BY <1>3, <1>10 DEF OnTimer, Handles
<1>11. ASSUME Handles("write")
       PROVE  /\ Tail(ready) \in Seq(Completion) /\ Writes(Tail(ready)) = {}
              /\ writing = <<>> /\ write_queue # <<>>
  <2>1. Writes(ready) = {1} /\ writing = <<>> /\ write_queue # <<>>
    BY <1>11, FrontIsWritten DEF Writes, WritesDone
  <2>2. Tail(ready) \in Seq(Completion)
    BY <1>r, <1>11, HeadTailProperties DEF Handles
  <2> QED
    BY <1>r, <2>1, <2>2, ChainTailWrite
<1>12. CASE OnWriteFailed
  <2>1. /\ Tail(ready) \in Seq(Completion) /\ Writes(Tail(ready)) = {}
        /\ writing = <<>>
    BY <1>11, <1>12 DEF OnWriteFailed
  <2>2. Chain(Tail(ready), writing, write_queue)
    BY <2>1 DEF Chain
  <2> QED
    BY <1>12, <2>1, <2>2, ChainClose DEF OnWriteFailed
<1>13. CASE OnWritten
  <2>1. /\ Tail(ready) \in Seq(Completion) /\ Writes(Tail(ready)) = {}
        /\ writing = <<>> /\ write_queue # <<>>
    BY <1>11, <1>13 DEF OnWritten
  <2>2. CASE has_closed \/ ~(Len(write_queue) > 1)
    <3>1. ready' = Tail(ready) /\ writing' = writing
      BY <1>13, <2>2 DEF OnWritten
    <3>2. Chain(ready', writing', write_queue')
      BY <2>1, <3>1 DEF Chain
    <3> QED
      BY <3>2, ChainIsOneWrite
  <2>3. CASE ~has_closed /\ Len(write_queue) > 1
    <3> DEFINE m == write_queue[2]
    <3>1. StartWrite(m, Tail(ready)) /\ write_queue' = Tail(write_queue)
      BY <1>13, <2>3 DEF OnWritten
    <3>2. m \in Message /\ Tail(write_queue) # <<>> /\ m = Head(Tail(write_queue))
      BY <1>r, <2>3, TailOfMany
    <3> HIDE DEF m
    <3>3. /\ Chain(Tail(ready), Append(<<>>, m), Tail(write_queue))
          /\ Chain(Append(Tail(ready), WriteDone(m, TRUE)), <<>>, Tail(write_queue))
      BY <2>1, <3>2, WriteDoneParts, ChainStart
    <3> QED
      BY <2>1, <3>1, <3>3, ChainIsOneWrite DEF StartWrite
  <2> QED
    BY <2>2, <2>3
<1>14. CASE Respond
  <2>1. Head(io) \in Message
    BY <1>14, HeadTailProperties DEF Respond, TypeOK
  <2> QED
    BY <1>14, <2>1, ChainResponse DEF Respond
<1> QED
  BY <1>1, <1>4, <1>5, <1>6, <1>7, <1>8, <1>9, <1>10, <1>12, <1>13, <1>14 DEF HandlerNext

LEMMA EnvironmentKeepsOneWrite ==
    ASSUME TypeOK, OneWrite,
           \/ \E m \in answering : RespondLater(m)
           \/ Publish \/ TimerExpires \/ ReadNext
           \/ \E ec \in BOOLEAN : WriteCompletes(ec)
           \/ LinkDrops
           \/ \E kind \in Kinds : ClientSends(kind)
    PROVE  OneWrite'
<1> USE DEF sockVars, serverVars, clientVars
<1>1. ASSUME NEW m \in answering, RespondLater(m) PROVE OneWrite'
  <2>1. m \in Message
    BY DEF TypeOK
  <2> QED
    BY <1>1, <2>1, ChainResponse DEF RespondLater, KeptId
<1>2. ASSUME UNCHANGED <<ready, writing, write_queue>> PROVE OneWrite'
  BY <1>2, ChainIsOneWrite
<1>3. CASE Publish
  BY <1>2, <1>3 DEF Publish
<1>4. CASE TimerExpires
  BY <1>4, Constructors, ChainCompletes DEF TimerExpires, Expired
<1>5. CASE HeadCompletes
  <2>1. Head(inbound) \in Frame
    BY <1>5, HeadTailProperties DEF HeadCompletes, TypeOK
  <2>2. /\ ReadDone("head", Head(inbound), FALSE) \in Completion
        /\ ReadDone("head", Head(inbound), FALSE).op # "write"
    BY <2>1, Constructors DEF ReadDone
  <2> QED
    BY <1>5, <2>2, ChainCompletes DEF HeadCompletes
<1>6. CASE BodyCompletes
  <2>1. reader.frame \in Frame
    BY <1>6, Constructors DEF BodyCompletes, TypeOK, Read
  <2>2. /\ ReadDone("body", reader.frame, FALSE) \in Completion
        /\ ReadDone("body", reader.frame, FALSE).op # "write"
    BY <2>1, Constructors DEF ReadDone
  <2> QED
    BY <1>6, <2>2, ChainCompletes DEF BodyCompletes
<1>7. CASE ReadFails
  <2>1. /\ ReadDone(reader.op, reader.frame, TRUE) \in Completion
        /\ ReadDone(reader.op, reader.frame, TRUE).op # "write"
    BY <1>7, ReaderDone DEF ReadFails, ReadDone, TypeOK, Read, NoRead
  <2> QED
    BY <1>7, <2>1, ChainCompletes DEF ReadFails
<1>8. ASSUME NEW ec \in BOOLEAN, WriteCompletes(ec) PROVE OneWrite'
  <2> DEFINE m == Head(writing)
  <2>1. ready \in Seq(Completion) /\ writing \in Seq(Message) /\ writing # <<>>
    BY <1>8 DEF TypeOK, WriteCompletes
  <2>2. m \in Message
    BY <2>1, HeadTailProperties
  <2>3. Tail(writing) = <<>>
    BY <2>1, TailOfOne DEF OneWrite
  <2>4. Writes(ready) = {} /\ write_queue # <<>> /\ m = Head(write_queue)
    BY <2>1, ChainIsOneWrite DEF Chain
  <2> HIDE DEF m
  <2>5. Chain(Append(ready, WriteDone(m, ec)), <<>>, write_queue)
    BY <2>1, <2>2, <2>4, WriteDoneParts, ChainStart
  <2>6. /\ ready' = Append(ready, WriteDone(m, ec)) /\ writing' = <<>>
        /\ write_queue' = write_queue
    BY <1>8, <2>3 DEF WriteCompletes, Completes, m
  <2> QED
    BY <2>5, <2>6, ChainIsOneWrite
<1>9. CASE LinkDrops
  BY <1>2, <1>9 DEF LinkDrops
<1>10. ASSUME NEW kind \in Kinds, ClientSends(kind) PROVE OneWrite'
  BY <1>2, <1>10 DEF ClientSends
<1> QED
  BY <1>1, <1>3, <1>4, <1>5, <1>6, <1>7, <1>8, <1>9, <1>10 DEF ReadNext

LEMMA InitOneWrite == Init => OneWrite
BY DEF Init, OneWrite, WritesDone

LEMMA NextOneWrite == TypeOK /\ OneWrite /\ [Next]_vars => OneWrite'
<1> SUFFICES ASSUME TypeOK, OneWrite, [Next]_vars PROVE OneWrite'
  OBVIOUS
<1>1. CASE UNCHANGED vars
  BY <1>1, ChainIsOneWrite DEF vars, sockVars
<1>2. CASE HandlerNext
  BY <1>2, HandlersKeepOneWrite
<1> QED
  BY <1>1, <1>2, EnvironmentKeepsOneWrite DEF Next

\* The types hold because one message is written at a time: that is what keeps
\* on_write from popping an empty queue.
THEOREM TypesAndOneWrite == Spec => [](TypeOK /\ OneWrite)
<1>1. Init => TypeOK /\ OneWrite
  BY InitType, InitOneWrite
<1>2. TypeOK /\ OneWrite /\ [Next]_vars => TypeOK' /\ OneWrite'
  BY NextType, NextOneWrite
<1> QED
  BY <1>1, <1>2, PTL DEF Spec

\* Every variable of a connection keeps its type.
THEOREM TypeCorrect == Spec => []TypeOK
<1> QED
  BY TypesAndOneWrite, PTL

\* Whatever number of threads call response(), and whether the connection is
\* open, broken or closed, one message at a time is being written, the queue's
\* front: write() never overwrites the header of a message under way.
THEOREM OneWriteAlways == Spec => []OneWrite
<1> QED
  BY TypesAndOneWrite, PTL

-----------------------------------------------------------------------------
(* One read at a time: q is the queue of completions, r the pending read,    *)
(* id the id of the last header.                                             *)

ReadOps  == {"head", "body"}
Reads(q) == {i \in DOMAIN q : q[i].op \in ReadOps}

OneRead(r, q, id) ==
    /\ \A i, j \in Reads(q) : i = j
    /\ r # NoRead => Reads(q) = {}
    /\ r.op = "body" => r.frame.id = id
    /\ \A i \in Reads(q) : q[i].op = "body" => q[i].frame.id = id

LEMMA AppendReads ==
    ASSUME NEW q \in Seq(Completion), NEW c \in Completion
    PROVE  /\ \A i \in Reads(Append(q, c)) :
                 \/ i \in Reads(q) /\ Append(q, c)[i] = q[i]
                 \/ i = Len(q) + 1 /\ Append(q, c)[i] = c /\ c.op \in ReadOps
<1>1. /\ Append(q, c) \in Seq(Completion)
      /\ Len(Append(q, c)) = Len(q) + 1 /\ Append(q, c)[Len(q) + 1] = c
      /\ \A i \in 1 .. Len(q) : Append(q, c)[i] = q[i]
  BY AppendProperties
<1>2. /\ DOMAIN q = 1 .. Len(q) /\ Len(q) \in Nat
      /\ DOMAIN Append(q, c) = 1 .. (Len(q) + 1)
  BY <1>1, LenProperties
<1> DEFINE a == Append(q, c)
<1> HIDE DEF a
<1>3. /\ a[Len(q) + 1] = c /\ \A i \in 1 .. Len(q) : a[i] = q[i]
      /\ DOMAIN a = 1 .. (Len(q) + 1)
  BY <1>1, <1>2 DEF a
<1>4. \A i \in Reads(a) : \/ i \in Reads(q) /\ a[i] = q[i]
                          \/ i = Len(q) + 1 /\ a[i] = c /\ c.op \in ReadOps
  BY <1>2, <1>3 DEF Reads
<1> QED
  BY <1>4 DEF a

LEMMA TailReads ==
    ASSUME NEW q \in Seq(Completion), q # <<>>
    PROVE  /\ \A i \in Reads(Tail(q)) : i + 1 \in Reads(q) /\ Tail(q)[i] = q[i + 1]
           /\ \A i \in Reads(Tail(q)) : i \in Nat \ {0}
           /\ Head(q).op \in ReadOps => 1 \in Reads(q)
           /\ Head(q) = q[1]
<1> DEFINE t == Tail(q)
<1>1. t \in Seq(Completion) /\ Len(t) = Len(q) - 1 /\ \A i \in 1 .. Len(t) : t[i] = q[i + 1]
  BY HeadTailProperties
<1>2. DOMAIN q = 1 .. Len(q) /\ Len(q) \in Nat \ {0} /\ DOMAIN t = 1 .. Len(t)
  BY <1>1, LenProperties
<1> HIDE DEF t
<1>3. \A i \in Reads(t) : i \in 1 .. Len(t) /\ i + 1 \in Reads(q) /\ t[i] = q[i + 1]
  BY <1>1, <1>2 DEF Reads
<1>4. Head(q) = q[1]
  OBVIOUS
<1>5. 1 \in DOMAIN q
  BY <1>2
<1>6. \A i \in 1 .. Len(t) : i \in Nat \ {0}
  BY <1>1, <1>2
<1> QED
  BY <1>3, <1>4, <1>5, <1>6 DEF t, Reads

\* A handler of anything else leaves the read where it is.
LEMMA TailOther ==
    ASSUME NEW r, NEW q \in Seq(Completion), NEW id, q # <<>>, OneRead(r, q, id)
    PROVE  OneRead(r, Tail(q), id)
<1>1. \A i, j \in Reads(Tail(q)) : i = j
  <2> SUFFICES ASSUME NEW i \in Reads(Tail(q)), NEW j \in Reads(Tail(q)) PROVE i = j
    OBVIOUS
  <2>1. i + 1 \in Reads(q) /\ j + 1 \in Reads(q) /\ i \in Nat /\ j \in Nat
    BY TailReads
  <2>2. i + 1 = j + 1
    BY <2>1 DEF OneRead
  <2> QED
    BY <2>1, <2>2
<1>2. r # NoRead => Reads(Tail(q)) = {}
  BY TailReads DEF OneRead
<1>3. \A i \in Reads(Tail(q)) : Tail(q)[i].op = "body" => Tail(q)[i].frame.id = id
  <2> TAKE i \in Reads(Tail(q))
  <2>1. i + 1 \in Reads(q) /\ Tail(q)[i] = q[i + 1]
    BY TailReads
  <2>2. q[i + 1].op = "body" => q[i + 1].frame.id = id
    BY <2>1 DEF OneRead
  <2> QED
    BY <2>1, <2>2
<1>4. r.op = "body" => r.frame.id = id
  BY DEF OneRead
<1> QED
  BY <1>1, <1>2, <1>3, <1>4 DEF OneRead

\* The handler of a read finds no other.
LEMMA TailRead ==
    ASSUME NEW r, NEW q \in Seq(Completion), NEW id, q # <<>>, OneRead(r, q, id),
           Head(q).op \in ReadOps
    PROVE  /\ r = NoRead /\ Reads(Tail(q)) = {}
           /\ Head(q).op = "body" => Head(q).frame.id = id
<1>1. 1 \in Reads(q) /\ Head(q) = q[1]
  BY TailReads
<1>2. Reads(Tail(q)) = {}
  <2> SUFFICES ASSUME NEW i \in Reads(Tail(q)) PROVE FALSE
    OBVIOUS
  <2>1. i + 1 \in Reads(q) /\ i \in Nat \ {0}
    BY TailReads
  <2>2. i + 1 = 1
    BY <1>1, <2>1 DEF OneRead
  <2> QED
    BY <2>1, <2>2
<1> QED
  BY <1>1, <1>2 DEF OneRead

LEMMA AppendOther ==
    ASSUME NEW r, NEW q \in Seq(Completion), NEW id, NEW c \in Completion,
           OneRead(r, q, id), c.op \notin ReadOps
    PROVE  OneRead(r, Append(q, c), id)
<1>1. \A i \in Reads(Append(q, c)) : i \in Reads(q) /\ Append(q, c)[i] = q[i]
  BY AppendReads
<1> QED
  BY <1>1 DEF OneRead

\* The pending read completes.
LEMMA AppendRead ==
    ASSUME NEW r, NEW q \in Seq(Completion), NEW id, NEW c \in Completion,
           OneRead(r, q, id), r # NoRead, c.op = "body" => c.frame.id = id
    PROVE  OneRead(NoRead, Append(q, c), id)
<1>1. Reads(q) = {}
  BY DEF OneRead
<1>2. \A i \in Reads(Append(q, c)) : i = Len(q) + 1 /\ Append(q, c)[i] = c
  BY <1>1, AppendReads
<1> QED
  BY <1>2 DEF OneRead, NoRead

\* A read is started where there is none.
LEMMA StartOne ==
    ASSUME NEW r, NEW q, NEW id, Reads(q) = {}, r.op = "body" => r.frame.id = id
    PROVE  OneRead(r, q, id)
BY DEF OneRead

ReadInv == sock # "closed" =>
    /\ OneRead(reader, ready, req_id)
    /\ ~started => reader = NoRead /\ Reads(ready) = {}

LEMMA StartWriteReads ==
    ASSUME NEW m, NEW queue, StartWrite(m, queue), sock # "closed"
    PROVE  ready' = queue
BY DEF StartWrite

LEMMA InitReads == Init => ReadInv
BY DEF Init, ReadInv, OneRead, Reads, NoRead

LEMMA NextReads == TypeOK /\ ReadInv /\ [Next]_vars => ReadInv'
<1> SUFFICES ASSUME TypeOK, ReadInv, [Next]_vars, sock' # "closed" PROVE ReadInv'
  BY DEF ReadInv
<1> USE DEF sockVars, serverVars, clientVars
<1>r. ready \in Seq(Completion) /\ reader \in Read
  BY DEF TypeOK
<1>o. ASSUME sock # "closed"
      PROVE  /\ OneRead(reader, ready, req_id)
             /\ ~started => reader = NoRead /\ Reads(ready) = {}
  BY <1>o DEF ReadInv
<1>c. ASSUME NEW queue, close(queue) PROVE FALSE
  BY <1>c DEF close, TypeOK
\* What handlers of writes and of the timer do
<1>t. ASSUME ready # <<>>, ready' = Tail(ready), UNCHANGED <<started, sock, reader, req_id>>
      PROVE  ReadInv'
  <2>1. OneRead(reader, Tail(ready), req_id)
    BY <1>o, <1>r, <1>t, TailOther
  <2>2. Reads(ready) = {} => Reads(Tail(ready)) = {}
    BY <1>r, <1>t, TailReads
  <2> QED
    BY <1>o, <1>t, <2>1, <2>2 DEF ReadInv
<1>u. ASSUME UNCHANGED <<started, sock, reader, req_id, ready>> PROVE ReadInv'
  BY <1>o, <1>u DEF ReadInv
<1>m. ASSUME NEW m, response(m), UNCHANGED <<started, sock, reader, req_id>>
      PROVE  ReadInv'
  <2>1. ready' = ready
    BY <1>m, StartWriteReads DEF response, WriteIfFirst
  <2> QED
    BY <1>m, <1>u, <2>1
\* What completes a read, and what completes anything else
<1>p. ASSUME NEW c \in Completion, Completes(c), c.op \in ReadOps, reader # NoRead,
             c.op = "body" => c.frame.id = req_id, reader' = NoRead,
             UNCHANGED <<started, sock, req_id>>
      PROVE  ReadInv'
  <2>1. OneRead(NoRead, Append(ready, c), req_id)
    BY <1>o, <1>p, <1>r, AppendRead
  <2> QED
    BY <1>o, <1>p, <2>1 DEF ReadInv, Completes
<1>w. ASSUME NEW c \in Completion, Completes(c), c.op \notin ReadOps,
             UNCHANGED <<started, sock, reader, req_id>>
      PROVE  ReadInv'
  <2>1. OneRead(reader, Append(ready, c), req_id)
    BY <1>o, <1>w, <1>r, AppendOther
  <2>2. Reads(ready) = {} => Reads(Append(ready, c)) = {}
    BY <1>r, <1>w, AppendReads
  <2> QED
    BY <1>o, <1>w, <2>1, <2>2 DEF ReadInv, Completes
<1>1. CASE Start
  <2>1. Reads(ready) = {} /\ reader' = HeadRead /\ ready' = ready /\ started'
    BY <1>1, <1>o DEF Start, read_head
  <2>2. OneRead(HeadRead, ready, req_id)
    BY <2>1, StartOne DEF HeadRead
  <2> QED
    BY <1>1, <2>1, <2>2 DEF Start, ReadInv
<1>2. CASE OnHeadFailed
  BY <1>2, <1>c, <1>t DEF OnHeadFailed, Handles
<1>3. CASE OnAlienHead
  BY <1>3, <1>c DEF OnAlienHead
<1>4. CASE OnHead
  <2>1. reader = NoRead /\ Reads(Tail(ready)) = {} /\ started
    <3>1. ready # <<>> /\ Head(ready).op \in ReadOps /\ sock # "closed"
      BY <1>4 DEF OnHead, HandlesHead, Handles, ReadOps
    <3>2. 1 \in Reads(ready)
      BY <1>r, <3>1, TailReads
    <3> QED
      BY <1>r, <1>o, <3>1, <3>2, TailRead
  <2>2. reader'.op = "body" => reader'.frame.id = req_id'
    BY <1>4, <2>1 DEF OnHead, read_head, BodyRead, HeadRead, NoRead
  <2>3. ready' = Tail(ready) /\ started'
    BY <1>4, <2>1 DEF OnHead
  <2> QED
    BY <2>1, <2>2, <2>3, StartOne DEF ReadInv
<1>5. CASE OnBodyFailed
  BY <1>5, <1>t DEF OnBodyFailed, Handles
<1>6. ASSUME NEW kind, HandlesBody(kind), UNCHANGED <<started, sock, req_id>>
      PROVE  ReadInv'
  <2>1. Reads(Tail(ready)) = {} /\ started
    <3>1. ready # <<>> /\ Head(ready).op \in ReadOps /\ sock # "closed"
      BY <1>6 DEF HandlesBody, Handles, ReadOps
    <3>2. 1 \in Reads(ready)
      BY <1>r, <3>1, TailReads
    <3> QED
      BY <1>r, <1>o, <3>1, <3>2, TailRead
  <2>2. reader' = HeadRead /\ ready' = Tail(ready) /\ started'
    BY <1>6, <2>1 DEF HandlesBody, read_next, read_head
  <2> QED
    BY <2>1, <2>2, StartOne DEF ReadInv, HeadRead
<1>7. CASE OnRequest
  BY <1>6, <1>7 DEF OnRequest
<1>8. CASE OnSubscription
  BY <1>6, <1>8 DEF OnSubscription
<1>9. CASE OnWritten
  <2>1. ready # <<>> /\ sock # "closed" /\ UNCHANGED <<started, sock, reader, req_id>>
    BY <1>9 DEF OnWritten, Handles
  <2>2. ready' = Tail(ready)
    BY <1>9, <2>1, StartWriteReads DEF OnWritten
  <2> QED
    BY <1>t, <2>1, <2>2
<1>10. CASE OnWriteFailed
  BY <1>10, <1>c DEF OnWriteFailed
<1>11. CASE OnTimer
  BY <1>11, <1>c DEF OnTimer
<1>12. CASE Respond
  BY <1>12, <1>m DEF Respond
<1>13. ASSUME NEW m \in answering, RespondLater(m) PROVE ReadInv'
  BY <1>13, <1>m DEF RespondLater
<1>14. CASE Publish
  BY <1>14, <1>u DEF Publish
<1>15. CASE TimerExpires
  BY <1>15, <1>w, Constructors DEF TimerExpires, Expired, ReadOps
<1>16. CASE HeadCompletes
  <2> DEFINE c == ReadDone("head", Head(inbound), FALSE)
  <2>1. Head(inbound) \in Frame
    BY <1>16, HeadTailProperties DEF HeadCompletes, TypeOK
  <2>2. c \in Completion
    BY <2>1, Constructors
  <2>3. c.op = "head"
    BY DEF ReadDone
  <2>4. reader # NoRead
    BY <1>16 DEF HeadCompletes, NoRead
  <2> QED
    BY <1>16, <1>p, <2>2, <2>3, <2>4 DEF HeadCompletes, ReadOps
<1>17. CASE BodyCompletes
  <2> DEFINE c == ReadDone("body", reader.frame, FALSE)
  <2>1. reader.frame \in Frame /\ reader # NoRead /\ reader.frame.id = req_id
    BY <1>17, <1>o, <1>r, Constructors DEF BodyCompletes, Read, NoRead, OneRead
  <2>2. c \in Completion /\ c.op = "body" /\ c.frame = reader.frame
    BY <2>1, Constructors DEF ReadDone
  <2> QED
    BY <1>17, <1>p, <2>1, <2>2 DEF BodyCompletes, ReadOps
<1>18. CASE ReadFails
  <2> DEFINE c == ReadDone(reader.op, reader.frame, TRUE)
  <2>1. /\ c \in Completion /\ reader # NoRead
        /\ c.op = reader.op /\ c.frame = reader.frame
    BY <1>18, <1>r, ReaderDone DEF ReadFails, ReadDone
  <2>2. reader.op \in ReadOps
    BY <1>r, <2>1 DEF Read, NoRead, ReadOps
  <2>3. reader.op = "body" => reader.frame.id = req_id
    BY <1>18, <1>o DEF ReadFails, OneRead
  <2> HIDE DEF c
  <2>4. Completes(c) /\ reader' = NoRead /\ UNCHANGED <<started, sock, req_id>>
    BY <1>18 DEF ReadFails, c
  <2> QED
    BY <1>p, <2>1, <2>2, <2>3, <2>4
<1>19. ASSUME NEW ec \in BOOLEAN, WriteCompletes(ec) PROVE ReadInv'
  <2> DEFINE c == WriteDone(Head(writing), ec)
  <2>1. Head(writing) \in Message
    BY <1>19, HeadTailProperties DEF WriteCompletes, TypeOK
  <2>2. c \in Completion /\ c.op = "write"
    BY <2>1, WriteDoneParts
  <2> QED
    BY <1>19, <1>w, <2>2 DEF WriteCompletes, ReadOps
<1>20. CASE LinkDrops
  BY <1>20, <1>o DEF LinkDrops, ReadInv
<1>21. ASSUME NEW kind \in Kinds, ClientSends(kind) PROVE ReadInv'
  BY <1>21, <1>u DEF ClientSends
<1>22. CASE UNCHANGED vars
  BY <1>22, <1>u DEF vars
<1> QED
  BY <1>1, <1>2, <1>3, <1>4, <1>5, <1>7, <1>8, <1>9, <1>10, <1>11, <1>12, <1>13,
     <1>14, <1>15, <1>16, <1>17, <1>18, <1>19, <1>20, <1>21, <1>22
     DEF Next, HandlerNext, ReadNext

-----------------------------------------------------------------------------
(* Every message has the id of the request it answers, wherever it is.       *)

AllMatch(s) == \A i \in DOMAIN s : Matches(s[i])

MatchInv == /\ AllMatch(sent) /\ AllMatch(write_queue)
            /\ AllMatch(io) /\ AllMatch(writing)
            /\ \A m \in answering : Matches(m)

LEMMA AppendMatches ==
    ASSUME NEW s \in Seq(Message), NEW m \in Message, AllMatch(s), Matches(m)
    PROVE  AllMatch(Append(s, m))
<1> DEFINE a == Append(s, m)
<1>1. /\ a \in Seq(Message) /\ Len(a) = Len(s) + 1 /\ a[Len(s) + 1] = m
      /\ \A i \in 1 .. Len(s) : a[i] = s[i]
  BY AppendProperties
<1>2. DOMAIN s = 1 .. Len(s) /\ Len(s) \in Nat /\ DOMAIN a = 1 .. Len(a)
  BY <1>1, LenProperties
<1> HIDE DEF a
<1>3. \A i \in DOMAIN a : Matches(a[i])
  <2> TAKE i \in DOMAIN a
  <2>1. i \in 1 .. Len(s) \/ i = Len(s) + 1
    BY <1>1, <1>2
  <2>2. CASE i \in 1 .. Len(s)
    <3>1. a[i] = s[i] /\ Matches(s[i])
      BY <1>1, <1>2, <2>2 DEF AllMatch
    <3> QED
      BY <3>1
  <2>3. CASE i = Len(s) + 1
    <3>1. a[i] = m
      BY <1>1, <2>3
    <3> QED
      BY <3>1
  <2> QED
    BY <2>1, <2>2, <2>3
<1> QED
  BY <1>3 DEF a, AllMatch

LEMMA TailMatches ==
    ASSUME NEW s \in Seq(Message), s # <<>>, AllMatch(s)
    PROVE  /\ AllMatch(Tail(s)) /\ Matches(Head(s))
           /\ Len(s) > 1 => Matches(s[2])
<1> DEFINE t == Tail(s)
<1>1. t \in Seq(Message) /\ Len(t) = Len(s) - 1 /\ \A i \in 1 .. Len(t) : t[i] = s[i + 1]
  BY HeadTailProperties
<1>2. DOMAIN s = 1 .. Len(s) /\ Len(s) \in Nat \ {0} /\ DOMAIN t = 1 .. Len(t)
  BY <1>1, LenProperties
<1>3. 1 \in DOMAIN s /\ Head(s) = s[1] /\ Len(s) > 1 => 2 \in DOMAIN s
  BY <1>2
<1>h. Matches(Head(s))
  BY <1>2 DEF AllMatch
<1> HIDE DEF t
<1>4. \A i \in DOMAIN t : Matches(t[i])
  <2> TAKE i \in DOMAIN t
  <2>1. i \in 1 .. Len(t) /\ i + 1 \in DOMAIN s
    BY <1>1, <1>2
  <2>2. t[i] = s[i + 1] /\ Matches(s[i + 1])
    BY <1>1, <2>1 DEF AllMatch
  <2> QED
    BY <2>2
<1>5. Len(s) > 1 => Matches(s[2])
  BY <1>2 DEF AllMatch
<1> QED
  BY <1>h, <1>4, <1>5 DEF t, AllMatch

LEMMA CloseMatches ==
    ASSUME MatchInv, NEW queue, close(queue)
    PROVE  AllMatch(writing')
<1>1. writing' = writing \/ writing' = <<>>
  BY DEF close, sockVars
<1>2. AllMatch(<<>>)
  BY DEF AllMatch
<1> QED
  BY <1>1, <1>2 DEF MatchInv

LEMMA StartWriteMatches ==
    ASSUME TypeOK, MatchInv, NEW m \in Message, Matches(m), NEW queue, StartWrite(m, queue)
    PROVE  AllMatch(writing')
<1>1. AllMatch(Append(writing, m))
  BY AppendMatches DEF TypeOK, MatchInv
<1> QED
  BY <1>1 DEF StartWrite, MatchInv

LEMMA ResponseMatches ==
    ASSUME TypeOK, MatchInv, NEW m \in Message, Matches(m), response(m)
    PROVE  AllMatch(write_queue') /\ AllMatch(writing')
<1>1. AllMatch(write_queue')
  BY AppendMatches DEF response, TypeOK, MatchInv
<1>2. AllMatch(writing')
  <2>1. CASE write_queue = <<>>
    BY <2>1, StartWriteMatches DEF response, WriteIfFirst
  <2>2. CASE write_queue # <<>>
    BY <2>2 DEF response, WriteIfFirst, MatchInv
  <2> QED
    BY <2>1, <2>2
<1> QED
  BY <1>1, <1>2

LEMMA InitMatches == Init => MatchInv
BY DEF Init, MatchInv, AllMatch

LEMMA NextMatches == TypeOK /\ OneWrite /\ ReadInv /\ MatchInv /\ [Next]_vars => MatchInv'
<1> SUFFICES ASSUME TypeOK, OneWrite, ReadInv, MatchInv, [Next]_vars PROVE MatchInv'
  OBVIOUS
<1> USE DEF serverVars, clientVars
<1>u. ASSUME UNCHANGED <<sent, write_queue, io, writing, answering>> PROVE MatchInv'
  BY <1>u DEF MatchInv
<1>c. ASSUME NEW queue, close(queue), UNCHANGED <<sent, write_queue, io, answering>>
      PROVE  MatchInv'
  BY <1>c, CloseMatches DEF MatchInv
<1>1. CASE Start
  BY <1>1, <1>u DEF Start
<1>2. CASE OnHeadFailed
  BY <1>2, <1>c, <1>u DEF OnHeadFailed, sockVars
<1>3. CASE OnAlienHead
  BY <1>3, <1>c DEF OnAlienHead
<1>4. CASE OnHead
  BY <1>4, <1>u DEF OnHead
<1>5. CASE OnBodyFailed
  BY <1>5, <1>u DEF OnBodyFailed, sockVars
<1>6. CASE OnRequest
  <2>1. Head(ready).frame.id = req_id
    <3>1. /\ ready \in Seq(Completion) /\ ready # <<>> /\ Head(ready).op = "body"
          /\ OneRead(reader, ready, req_id)
      BY <1>6 DEF OnRequest, HandlesBody, Handles, ReadInv, TypeOK
    <3> QED
      BY <3>1, TailRead DEF ReadOps
  <2>2. Matches(Answer("route")) /\ Matches(Answer("thread"))
    BY <2>1 DEF Matches, Answer, Response
  <2>3. UNCHANGED <<sent, write_queue, writing>>
    BY <1>6 DEF OnRequest
  <2>4. AllMatch(<<Answer("route")>>)
    BY <2>2 DEF AllMatch
  <2> QED
    BY <1>6, <2>2, <2>3, <2>4, RequestAnswers DEF MatchInv
<1>7. CASE OnSubscription
  BY <1>7, <1>u DEF OnSubscription
<1>8. CASE OnWritten
  <2>1. write_queue \in Seq(Message) /\ write_queue # <<>> /\ AllMatch(write_queue)
    BY <1>8, FrontIsWritten DEF OnWritten, MatchInv, TypeOK
  <2>2. /\ AllMatch(Tail(write_queue))
        /\ Len(write_queue) > 1 => write_queue[2] \in Message /\ Matches(write_queue[2])
    BY <2>1, TailMatches, TailOfMany
  <2>3. AllMatch(write_queue') /\ UNCHANGED <<sent, io, answering>>
    BY <1>8, <2>1, <2>2 DEF OnWritten
  <2>4. AllMatch(writing')
    <3>1. CASE has_closed \/ ~(Len(write_queue) > 1)
      BY <1>8, <3>1 DEF OnWritten, MatchInv
    <3>2. CASE ~has_closed /\ Len(write_queue) > 1
      BY <1>8, <2>2, <3>2, StartWriteMatches DEF OnWritten
    <3> QED
      BY <3>1, <3>2
  <2> QED
    BY <2>3, <2>4 DEF MatchInv
<1>9. CASE OnWriteFailed
  BY <1>9, <1>c DEF OnWriteFailed
<1>10. CASE OnTimer
  BY <1>10, <1>c DEF OnTimer
<1>11. CASE Respond
  <2>1. io \in Seq(Message) /\ io # <<>> /\ AllMatch(io)
    BY <1>11 DEF Respond, TypeOK, MatchInv
  <2>2. Head(io) \in Message /\ Matches(Head(io))
    BY <2>1, HeadTailProperties, TailMatches
  <2>3. AllMatch(write_queue') /\ AllMatch(writing')
    BY <1>11, <2>2, ResponseMatches DEF Respond
  <2> QED
    BY <1>11, <2>3 DEF Respond, MatchInv, AllMatch
<1>12. ASSUME NEW m \in answering, RespondLater(m) PROVE MatchInv'
  <2>1. m \in Message /\ Matches(m)
    BY DEF TypeOK, MatchInv
  <2>2. AllMatch(write_queue') /\ AllMatch(writing')
    BY <1>12, <2>1, ResponseMatches DEF RespondLater, KeptId
  <2> QED
    BY <1>12, <2>2 DEF RespondLater, NoLongerHeld, MatchInv
<1>13. CASE Publish
  <2>1. Matches(Publication(spent'["publishes"]))
    BY DEF Matches, Publication
  <2> QED
    BY <1>13, <2>1 DEF Publish, MatchInv, sockVars
<1>14. CASE TimerExpires
  BY <1>14, <1>u DEF TimerExpires, sockVars
<1>15. CASE ReadNext
  BY <1>15, <1>u DEF ReadNext, HeadCompletes, BodyCompletes, ReadFails
<1>16. ASSUME NEW ec \in BOOLEAN, WriteCompletes(ec) PROVE MatchInv'
  <2>1. writing \in Seq(Message) /\ writing # <<>> /\ AllMatch(writing)
    BY <1>16 DEF WriteCompletes, TypeOK, MatchInv
  <2>2. AllMatch(Tail(writing)) /\ Matches(Head(writing)) /\ Head(writing) \in Message
    BY <2>1, TailMatches, HeadTailProperties
  <2>3. AllMatch(Append(sent, Head(writing)))
    BY <2>2, AppendMatches DEF TypeOK, MatchInv
  <2> QED
    BY <1>16, <2>2, <2>3 DEF WriteCompletes, MatchInv
<1>17. CASE LinkDrops
  BY <1>17, <1>u DEF LinkDrops
<1>18. ASSUME NEW kind \in Kinds, ClientSends(kind) PROVE MatchInv'
  BY <1>18, <1>u DEF ClientSends, sockVars
<1>19. CASE UNCHANGED vars
  BY <1>19, <1>u DEF vars, sockVars
<1> QED
  BY <1>1, <1>2, <1>3, <1>4, <1>5, <1>6, <1>7, <1>8, <1>9, <1>10, <1>11, <1>12, <1>13,
     <1>14, <1>15, <1>16, <1>17, <1>18, <1>19 DEF Next, HandlerNext

\* Whatever headers come meanwhile, and whichever of any number of threads
\* answers, a response carries the id of the request it answers: a body is
\* served before the next header can overwrite req_id_, and who answers later
\* was handed the id.
THEOREM AnswersMatchAlways == Spec => []AnswersMatch
<1>1. Init => ReadInv /\ MatchInv
  BY InitReads, InitMatches
<1>2. /\ TypeOK /\ OneWrite /\ ReadInv /\ MatchInv /\ [Next]_vars
      => ReadInv' /\ MatchInv'
  BY NextReads, NextMatches
<1>3. MatchInv => AnswersMatch
  BY DEF MatchInv, AllMatch, AnswersMatch
<1> QED
  BY <1>1, <1>2, <1>3, TypesAndOneWrite, PTL DEF Spec

-----------------------------------------------------------------------------
(* With a timeout, an open connection always has its timer pending, or       *)
(* expired with the handler to come.                                         *)

Expiring(q) == \E i \in DOMAIN q : q[i].op = "timer"

Timed == /\ sock = "open" => \A i \in Reads(ready) : ~ready[i].ec
         /\ started /\ sock = "open" => timer \/ Expiring(ready)

LEMMA AppendExpiring ==
    ASSUME NEW q \in Seq(Completion), NEW c \in Completion
    PROVE  /\ Expiring(q) => Expiring(Append(q, c))
           /\ c.op = "timer" => Expiring(Append(q, c))
<1> DEFINE a == Append(q, c)
<1>1. /\ a \in Seq(Completion) /\ Len(a) = Len(q) + 1 /\ a[Len(q) + 1] = c
      /\ \A i \in 1 .. Len(q) : a[i] = q[i]
  BY AppendProperties
<1>2. DOMAIN q = 1 .. Len(q) /\ Len(q) \in Nat /\ DOMAIN a = 1 .. Len(a)
  BY <1>1, LenProperties
<1> HIDE DEF a
<1>3. Expiring(q) => Expiring(a)
  BY <1>1, <1>2 DEF Expiring
<1>4. Len(q) + 1 \in DOMAIN a
  BY <1>1, <1>2
<1>5. c.op = "timer" => Expiring(a)
  BY <1>1, <1>4 DEF Expiring
<1> QED
  BY <1>3, <1>5 DEF a

LEMMA TailExpiring ==
    ASSUME NEW q \in Seq(Completion), q # <<>>, Expiring(q), Head(q).op # "timer"
    PROVE  Expiring(Tail(q))
<1> DEFINE t == Tail(q)
<1>1. t \in Seq(Completion) /\ Len(t) = Len(q) - 1 /\ \A i \in 1 .. Len(t) : t[i] = q[i + 1]
  BY HeadTailProperties
<1>2. DOMAIN q = 1 .. Len(q) /\ Len(q) \in Nat \ {0} /\ DOMAIN t = 1 .. Len(t)
  BY <1>1, LenProperties
<1> HIDE DEF t
<1>3. PICK i \in DOMAIN q : q[i].op = "timer"
  BY DEF Expiring
<1>4. i # 1
  <2>1. Head(q) = q[1]
    OBVIOUS
  <2> QED
    BY <1>3, <2>1
<1>5. i - 1 \in 1 .. Len(t) /\ (i - 1) + 1 = i
  BY <1>1, <1>2, <1>4
<1>6. t[i - 1] = q[i]
  BY <1>1, <1>5
<1>7. Expiring(t)
  BY <1>2, <1>3, <1>5, <1>6 DEF Expiring
<1> QED
  BY <1>7 DEF t

LEMMA NextTimed ==
    ASSUME Timeout
    PROVE  TypeOK /\ ReadInv /\ Timed /\ [Next]_vars => Timed'
<1> SUFFICES ASSUME TypeOK, ReadInv, Timed, [Next]_vars, sock' = "open" PROVE Timed'
  BY DEF Timed
<1> USE DEF sockVars, serverVars, clientVars
<1>r. ready \in Seq(Completion)
  BY DEF TypeOK
<1>o. ASSUME sock = "open"
      PROVE  /\ \A i \in Reads(ready) : ~ready[i].ec
             /\ started => timer \/ Expiring(ready)
  BY <1>o DEF Timed
<1>c. ASSUME NEW queue, close(queue) PROVE FALSE
  BY <1>c DEF close, TypeOK
<1>u. ASSUME UNCHANGED <<started, sock, timer, ready>> PROVE Timed'
  BY <1>o, <1>u DEF Timed
<1>e. ASSUME ready # <<>>, sock = "open"
      PROVE  /\ \A i \in Reads(Tail(ready)) : ~Tail(ready)[i].ec
             /\ Head(ready).op \in ReadOps => ~Head(ready).ec
  <2>1. \A i \in Reads(Tail(ready)) : ~Tail(ready)[i].ec
    <3> TAKE i \in Reads(Tail(ready))
    <3>1. i + 1 \in Reads(ready) /\ Tail(ready)[i] = ready[i + 1]
      BY <1>e, <1>r, TailReads
    <3>2. ~ready[i + 1].ec
      BY <1>e, <1>o, <3>1
    <3> QED
      BY <3>1, <3>2
  <2>2. Head(ready).op \in ReadOps => ~Head(ready).ec
    BY <1>e, <1>o, <1>r, TailReads
  <2> QED
    BY <2>1, <2>2
\* What handlers of reads and of writes do
<1>t. ASSUME ready # <<>>, ready' = Tail(ready), sock = "open", started' = started,
             (Head(ready).op # "timer" /\ timer' = timer) \/ timer'
      PROVE  Timed'
  <2>1. Expiring(ready) /\ Head(ready).op # "timer" => Expiring(Tail(ready))
    BY <1>r, <1>t, TailExpiring
  <2>2. started => timer' \/ Expiring(Tail(ready))
    <3>1. CASE timer'
      BY <3>1
    <3>2. CASE Head(ready).op # "timer" /\ timer' = timer
      BY <1>o, <1>t, <2>1, <3>2
    <3> QED
      BY <1>t, <3>1, <3>2
  <2>3. \A i \in Reads(Tail(ready)) : ~Tail(ready)[i].ec
    BY <1>e, <1>t
  <2> QED
    BY <1>t, <2>2, <2>3 DEF Timed
<1>m. ASSUME NEW m, response(m), UNCHANGED <<started, sock, timer>> PROVE Timed'
  <2>1. ready' = ready
    BY <1>m, StartWriteReads DEF response, WriteIfFirst
  <2> QED
    BY <1>m, <1>u, <2>1
\* What completes
<1>w. ASSUME NEW c \in Completion, Completes(c), c.op \in ReadOps => ~c.ec,
             UNCHANGED <<started, sock>>, timer' = timer \/ c.op = "timer"
      PROVE  Timed'
  <2>1. \A i \in Reads(Append(ready, c)) : ~Append(ready, c)[i].ec
    <3>0. \A i \in Reads(Append(ready, c)) :
             \/ i \in Reads(ready) /\ Append(ready, c)[i] = ready[i]
             \/ Append(ready, c)[i] = c /\ c.op \in ReadOps
      BY <1>r, AppendReads
    <3> TAKE i \in Reads(Append(ready, c))
    <3>1. CASE i \in Reads(ready) /\ Append(ready, c)[i] = ready[i]
      <4>1. ~ready[i].ec
        BY <1>o, <1>w, <3>1
      <4> QED
        BY <3>1, <4>1
    <3>2. CASE Append(ready, c)[i] = c /\ c.op \in ReadOps
      <4>1. ~c.ec
        BY <1>w, <3>2
      <4> QED
        BY <3>2, <4>1
    <3> QED
      BY <3>0, <3>1, <3>2
  <2>2. started => timer' \/ Expiring(Append(ready, c))
    BY <1>o, <1>r, <1>w, AppendExpiring
  <2> QED
    BY <1>w, <2>1, <2>2 DEF Timed, Completes
<1>1. CASE Start
  BY <1>1, <1>o DEF Start, read_head, reset_timer, Timed
<1>2. CASE OnHeadFailed
  BY <1>2, <1>c DEF OnHeadFailed
<1>3. CASE OnAlienHead
  BY <1>3, <1>c DEF OnAlienHead
<1>4. CASE OnHead
  BY <1>4, <1>t DEF OnHead, HandlesHead, Handles, read_head, reset_timer
<1>5. CASE OnBodyFailed
  <2>1. ready # <<>> /\ sock = "open" /\ Head(ready).op = "body" /\ Head(ready).ec
    BY <1>5 DEF OnBodyFailed, Handles
  <2> QED
    BY <1>e, <2>1 DEF ReadOps
<1>6. ASSUME NEW kind, HandlesBody(kind), UNCHANGED <<started, sock>> PROVE Timed'
  BY <1>6, <1>t DEF HandlesBody, Handles, read_next, read_head, reset_timer
<1>7. CASE OnRequest
  BY <1>6, <1>7 DEF OnRequest
<1>8. CASE OnSubscription
  BY <1>6, <1>8 DEF OnSubscription
<1>9. CASE OnWritten
  <2>1. /\ ready # <<>> /\ sock = "open" /\ started' = started /\ timer' = timer
        /\ Head(ready).op = "write"
    BY <1>9 DEF OnWritten, Handles
  <2>2. ready' = Tail(ready)
    BY <1>9, <2>1, StartWriteReads DEF OnWritten
  <2> QED
    BY <1>t, <2>1, <2>2
<1>10. CASE OnWriteFailed
  BY <1>10, <1>c DEF OnWriteFailed
<1>11. CASE OnTimer
  BY <1>11, <1>c DEF OnTimer
<1>12. CASE Respond
  BY <1>12, <1>m DEF Respond
<1>13. ASSUME NEW m \in answering, RespondLater(m) PROVE Timed'
  BY <1>13, <1>m DEF RespondLater
<1>14. CASE Publish
  BY <1>14, <1>u DEF Publish
<1>15. CASE TimerExpires
  BY <1>15, <1>w, Constructors DEF TimerExpires, Expired, ReadOps
<1>16. CASE HeadCompletes
  <2> DEFINE c == ReadDone("head", Head(inbound), FALSE)
  <2>1. Head(inbound) \in Frame
    BY <1>16, HeadTailProperties DEF HeadCompletes, TypeOK
  <2>2. c \in Completion
    BY <2>1, Constructors
  <2>3. ~c.ec
    BY DEF ReadDone
  <2> QED
    BY <1>16, <1>w, <2>2, <2>3 DEF HeadCompletes
<1>17. CASE BodyCompletes
  <2> DEFINE c == ReadDone("body", reader.frame, FALSE)
  <2>1. reader.frame \in Frame
    BY <1>17, Constructors DEF BodyCompletes, Read, TypeOK
  <2>2. c \in Completion
    BY <2>1, Constructors
  <2>3. ~c.ec
    BY DEF ReadDone
  <2> QED
    BY <1>17, <1>w, <2>2, <2>3 DEF BodyCompletes
<1>18. CASE ReadFails
  BY <1>18 DEF ReadFails
<1>19. ASSUME NEW ec \in BOOLEAN, WriteCompletes(ec) PROVE Timed'
  <2> DEFINE c == WriteDone(Head(writing), ec)
  <2>1. Head(writing) \in Message
    BY <1>19, HeadTailProperties DEF WriteCompletes, TypeOK
  <2>2. c \in Completion /\ c.op = "write"
    BY <2>1, WriteDoneParts
  <2> QED
    BY <1>19, <1>w, <2>2 DEF WriteCompletes, ReadOps
<1>20. CASE LinkDrops
  BY <1>20 DEF LinkDrops
<1>21. ASSUME NEW kind \in Kinds, ClientSends(kind) PROVE Timed'
  BY <1>21, <1>u DEF ClientSends
<1>22. CASE UNCHANGED vars
  BY <1>22, <1>u DEF vars
<1> QED
  BY <1>1, <1>2, <1>3, <1>4, <1>5, <1>7, <1>8, <1>9, <1>10, <1>11, <1>12, <1>13,
     <1>14, <1>15, <1>16, <1>17, <1>18, <1>19, <1>20, <1>21, <1>22
     DEF Next, HandlerNext, ReadNext

\* If the server was given a timeout, whatever frames come, a connection whose
\* link is up never loses its timer: even where the read loop ends, as it does
\* with a length of MAX_BUF_LEN or more, the connection is closed in the end.
THEOREM WatchedAlways == ASSUME Timeout PROVE Spec => []Watched
<1>1. Init => ReadInv /\ Timed
  BY InitReads DEF Init, Timed, Reads
<1>2. TypeOK /\ ReadInv /\ Timed /\ [Next]_vars => ReadInv' /\ Timed'
  BY NextReads, NextTimed
<1>3. Timed => Watched
  BY DEF Timed, Expiring, Watched
<1> QED
  BY <1>1, <1>2, <1>3, TypeCorrect, PTL DEF Spec

-----------------------------------------------------------------------------
(* PromiseKept: where the id of a request is, from the client's frame to the *)
(* answer.  K is the set of frames, or of messages, whose ids count.         *)

RequestFrames == {f \in Frame : f.kind = "request"}
Publications  == {m \in Message : m.type = "sub_pub"}

\* The responses that route() gives and those that other threads give: an id is
\* answered once at most in either of these flows.
Flow(who) == {m \in Message : m.type = "req_res" /\ m.by = who}
Flows     == {Flow("route"), Flow("thread")}

LEMMA FlowMessages ==
    ASSUME NEW R \in Flows
    PROVE  /\ R \subseteq Message /\ R \cap Publications = {}
           /\ \A m, n \in R : m.id = n.id /\ m.of = n.of => m = n
<1>1. PICK who : R = {m \in Message : m.type = "req_res" /\ m.by = who}
  BY DEF Flows, Flow
<1> QED
  BY <1>1 DEF Publications, Message

IdsIn(T, K)  == {e.id : e \in T \cap K}
IdsOf(s, K)  == {s[i].id : i \in {j \in DOMAIN s : s[j] \in K}}
Unique(s, K) == \A i, j \in DOMAIN s :
    i # j /\ s[i] \in K /\ s[j] \in K => s[i].id # s[j].id

LEMMA AppendIds ==
    ASSUME NEW S, NEW K, NEW s \in Seq(S), NEW e \in S
    PROVE  /\ IdsOf(Append(s, e), K) \subseteq IdsOf(s, K) \cup IdsIn({e}, K)
           /\ e \in K => e.id \in IdsOf(Append(s, e), K)
           /\ IdsOf(s, K) \subseteq IdsOf(Append(s, e), K)
           /\ Unique(s, K) /\ IdsIn({e}, K) \cap IdsOf(s, K) = {}
              => Unique(Append(s, e), K)
<1> DEFINE a == Append(s, e)
<1>1. /\ a \in Seq(S) /\ Len(a) = Len(s) + 1 /\ a[Len(s) + 1] = e
      /\ \A i \in 1 .. Len(s) : a[i] = s[i]
  BY AppendProperties
<1>2. DOMAIN s = 1 .. Len(s) /\ Len(s) \in Nat /\ DOMAIN a = 1 .. Len(a)
  BY <1>1, LenProperties
<1> HIDE DEF a
<1>3. \A i \in DOMAIN a : \/ i \in DOMAIN s /\ a[i] = s[i]
                          \/ i = Len(s) + 1 /\ a[i] = e
  BY <1>1, <1>2
<1>4. /\ \A i \in DOMAIN s : i \in DOMAIN a /\ a[i] = s[i] /\ i # Len(s) + 1
      /\ Len(s) + 1 \in DOMAIN a
  BY <1>1, <1>2
<1>5. IdsOf(a, K) \subseteq IdsOf(s, K) \cup IdsIn({e}, K)
  BY <1>3 DEF IdsOf, IdsIn
<1>6. e \in K => e.id \in IdsOf(a, K)
  BY <1>1, <1>4 DEF IdsOf
<1>7. IdsOf(s, K) \subseteq IdsOf(a, K)
  BY <1>4 DEF IdsOf
<1>8. ASSUME Unique(s, K), IdsIn({e}, K) \cap IdsOf(s, K) = {}
      PROVE  Unique(a, K)
  <2> SUFFICES ASSUME NEW i \in DOMAIN a, NEW j \in DOMAIN a, i # j,
                      a[i] \in K, a[j] \in K
               PROVE  a[i].id # a[j].id
    BY DEF Unique
  <2>1. e \in K => e.id \in IdsIn({e}, K)
    BY DEF IdsIn
  <2>2. \A k \in DOMAIN s : s[k] \in K => s[k].id \in IdsOf(s, K)
    BY DEF IdsOf
  <2>3. CASE i \in DOMAIN s /\ j \in DOMAIN s
    BY <1>4, <1>8, <2>3 DEF Unique
  <2>4. CASE i \in DOMAIN s /\ j \notin DOMAIN s
    BY <1>3, <1>8, <2>1, <2>2, <2>4
  <2>5. CASE i \notin DOMAIN s /\ j \in DOMAIN s
    BY <1>3, <1>8, <2>1, <2>2, <2>5
  <2>6. CASE i \notin DOMAIN s /\ j \notin DOMAIN s
    BY <1>3, <2>6
  <2> QED
    BY <2>3, <2>4, <2>5, <2>6
<1> QED
  BY <1>5, <1>6, <1>7, <1>8 DEF a

LEMMA TailIds ==
    ASSUME NEW S, NEW K, NEW s \in Seq(S), s # <<>>
    PROVE  /\ IdsOf(Tail(s), K) \subseteq IdsOf(s, K)
           /\ IdsIn({Head(s)}, K) \subseteq IdsOf(s, K)
           /\ \A i \in DOMAIN Tail(s) : /\ i + 1 \in DOMAIN s /\ i + 1 > 1
                                        /\ Tail(s)[i] = s[i + 1]
           /\ Unique(s, K) => /\ Unique(Tail(s), K)
                              /\ IdsIn({Head(s)}, K) \cap IdsOf(Tail(s), K) = {}
<1> DEFINE t == Tail(s)
<1>1. t \in Seq(S) /\ Len(t) = Len(s) - 1 /\ \A i \in 1 .. Len(t) : t[i] = s[i + 1]
  BY HeadTailProperties
<1>2. DOMAIN s = 1 .. Len(s) /\ Len(s) \in Nat \ {0} /\ DOMAIN t = 1 .. Len(t)
  BY <1>1, LenProperties
<1>3. Head(s) = s[1] /\ 1 \in DOMAIN s
  BY <1>2
<1> HIDE DEF t
<1>4. \A i \in DOMAIN t : i \in Nat /\ i + 1 \in DOMAIN s /\ i + 1 > 1 /\ t[i] = s[i + 1]
  BY <1>1, <1>2
<1>5. IdsOf(t, K) \subseteq IdsOf(s, K)
  BY <1>4 DEF IdsOf
<1>6. IdsIn({Head(s)}, K) \subseteq IdsOf(s, K)
  BY <1>3 DEF IdsIn, IdsOf
<1>7. ASSUME Unique(s, K) PROVE Unique(t, K)
  <2> SUFFICES ASSUME NEW i \in DOMAIN t, NEW j \in DOMAIN t, i # j, t[i] \in K, t[j] \in K
               PROVE  t[i].id # t[j].id
    BY DEF Unique
  <2>1. i + 1 # j + 1
    BY <1>4
  <2> QED
    BY <1>4, <1>7, <2>1 DEF Unique
<1>8. ASSUME Unique(s, K), NEW i \in DOMAIN t, t[i] \in K, s[1] \in K
      PROVE  t[i].id # s[1].id
  <2>1. i + 1 # 1 /\ i + 1 \in DOMAIN s /\ t[i] = s[i + 1]
    BY <1>4
  <2> QED
    BY <1>3, <1>8, <2>1 DEF Unique
<1>9. Unique(s, K) => IdsIn({Head(s)}, K) \cap IdsOf(t, K) = {}
  BY <1>3, <1>8 DEF IdsIn, IdsOf
<1> QED
  BY <1>4, <1>5, <1>6, <1>7, <1>9 DEF t

\* The ids of the requests that are being read: r is the pending read, q the
\* queue of completions.
CurrentIds(r, q) == IdsIn({r.frame} \cup {q[i].frame : i \in Reads(q)}, RequestFrames)

LEMMA AppendCurrent ==
    ASSUME NEW r, NEW q \in Seq(Completion), NEW c \in Completion
    PROVE  /\ c.op \notin ReadOps => CurrentIds(r, Append(q, c)) \subseteq CurrentIds(r, q)
           /\ CurrentIds(NoRead, Append(q, c))
              \subseteq CurrentIds(r, q) \cup IdsIn({c.frame}, RequestFrames)
<1> DEFINE a == Append(q, c)
<1>1. \A i \in Reads(a) : \/ i \in Reads(q) /\ a[i] = q[i]
                          \/ a[i] = c /\ c.op \in ReadOps
  BY AppendReads
<1>2. NoRead.frame \notin RequestFrames
  BY DEF NoRead, NoFrame, RequestFrames
<1> HIDE DEF a
<1>3. c.op \notin ReadOps => CurrentIds(r, a) \subseteq CurrentIds(r, q)
  BY <1>1 DEF CurrentIds, IdsIn
<1>4. CurrentIds(NoRead, a) \subseteq CurrentIds(r, q) \cup IdsIn({c.frame}, RequestFrames)
  BY <1>1, <1>2 DEF CurrentIds, IdsIn
<1> QED
  BY <1>3, <1>4 DEF a

LEMMA TailCurrent ==
    ASSUME NEW r, NEW q \in Seq(Completion), q # <<>>
    PROVE  /\ CurrentIds(r, Tail(q)) \subseteq CurrentIds(r, q)
           /\ Head(q).op \in ReadOps =>
                 IdsIn({Head(q).frame}, RequestFrames) \subseteq CurrentIds(r, q)
<1>1. \A i \in Reads(Tail(q)) : i + 1 \in Reads(q) /\ Tail(q)[i] = q[i + 1]
  BY TailReads
<1>2. Head(q).op \in ReadOps => 1 \in Reads(q) /\ Head(q) = q[1]
  BY TailReads
<1>3. CurrentIds(r, Tail(q)) \subseteq CurrentIds(r, q)
  BY <1>1 DEF CurrentIds, IdsIn
<1>4. Head(q).op \in ReadOps => IdsIn({Head(q).frame}, RequestFrames) \subseteq CurrentIds(r, q)
  BY <1>2 DEF CurrentIds, IdsIn
<1> QED
  BY <1>3, <1>4

\* A header or a failure gives up what was being read, a body's read goes on.
LEMMA NoCurrent ==
    ASSUME NEW r, NEW q, Reads(q) = {}
    PROVE  CurrentIds(r, q) = IdsIn({r.frame}, RequestFrames)
BY DEF CurrentIds

\* The five places an id may be in: with the client's frames, being read, with
\* other threads, with route(), or given to response().
Places(a, coming, current, later, now, given) ==
    /\ coming \cup current \cup later \cup now \cup given \subseteq a
    /\ coming \cap current = {} /\ coming \cap later = {} /\ coming \cap now = {}
    /\ coming \cap given = {} /\ current \cap later = {} /\ current \cap now = {}
    /\ current \cap given = {} /\ later \cap now = {} /\ later \cap given = {}
    /\ now \cap given = {}

LEMMA FewerPlaces ==
    ASSUME NEW a, NEW c, NEW u, NEW l, NEW n, NEW g, Places(a, c, u, l, n, g),
           NEW c2 \in SUBSET c, NEW u2 \in SUBSET u, NEW l2 \in SUBSET l,
           NEW n2 \in SUBSET n, NEW g2 \in SUBSET g
    PROVE  Places(a, c2, u2, l2, n2, g2)
BY DEF Places

Coming  == IdsOf(inbound, RequestFrames)
Current == CurrentIds(reader, ready)
Later(R)   == IdsIn(answering, R)
Now(R)     == IdsOf(io, R)
Queued(R)  == IdsOf(write_queue, R)
Said(R)    == IdsOf(sent, R)

\* No id is in two places, in a place twice, or in a place before it was asked.
PlaceInv(R) ==
    /\ Places(asked, Coming, Current, Later(R), Now(R), Queued(R) \cup Said(R))
    /\ Unique(inbound, RequestFrames) /\ Unique(write_queue, R) /\ Unique(sent, R)
    /\ asked \subseteq 1 .. spent["frames"]

\* What has not been sent has not been said: only the front of the queue may
\* have been, when its write has completed.
SaidInv(R) == \A i \in DOMAIN write_queue :
    (i > 1 \/ WritesDone = {}) /\ write_queue[i] \in R
        => write_queue[i].id \notin Said(R)

\* Publications have id 0, and there are none without a subscription.
Heard  == IF subscribed THEN {0} ELSE {}
PubInv ==
    /\ IdsIn(answering, Publications) \subseteq Heard
    /\ IdsOf(io, Publications) \subseteq Heard
    /\ IdsOf(write_queue, Publications) \subseteq Heard
    /\ IdsOf(sent, Publications) \subseteq Heard

\* Only a request that has failed is with both flows.
Given(R) == Later(R) \cup Now(R) \cup Queued(R) \cup Said(R)
BothInv  == Given(Flow("route")) \cap Given(Flow("thread")) \subseteq doubled

PromiseInv == sock = "open" =>
    /\ \A R \in Flows : PlaceInv(R) /\ SaidInv(R)
    /\ PubInv /\ BothInv

LEMMA InitPromise == Init => PromiseInv
<1> SUFFICES ASSUME Init PROVE PromiseInv
  OBVIOUS
<1>1. \A K : IdsOf(<<>>, K) = {} /\ Unique(<<>>, K) /\ IdsIn({}, K) = {}
  BY DEF IdsOf, Unique, IdsIn
<1>2. CurrentIds(NoRead, <<>>) = {}
  BY DEF CurrentIds, Reads, IdsIn, NoRead, NoFrame, RequestFrames
<1>3. ASSUME NEW R
      PROVE  /\ Coming = {} /\ Current = {} /\ Later(R) = {} /\ Now(R) = {}
             /\ Queued(R) = {} /\ Said(R) = {}
  BY <1>1, <1>2 DEF Init, Coming, Current, Later, Now, Queued, Said
<1>4. ASSUME NEW R PROVE PlaceInv(R)
  BY <1>1, <1>3 DEF Init, PlaceInv, Places
<1>5. ASSUME NEW R PROVE SaidInv(R)
  BY <1>3 DEF SaidInv
<1>6. PubInv
  BY <1>1 DEF Init, PubInv
<1>7. BothInv
  BY <1>3 DEF BothInv, Given
<1> QED
  BY <1>4, <1>5, <1>6, <1>7 DEF PromiseInv

LEMMA TailKeepsWrites ==
    ASSUME NEW r \in Seq(Completion), r # <<>>, Head(r).op # "write",
           Writes(Tail(r)) = {}
    PROVE  Writes(r) = {}
<1> DEFINE t == Tail(r)
<1>1. t \in Seq(Completion) /\ Len(t) = Len(r) - 1 /\ \A i \in 1 .. Len(t) : t[i] = r[i + 1]
  BY HeadTailProperties
<1>2. DOMAIN r = 1 .. Len(r) /\ Len(r) \in Nat \ {0} /\ DOMAIN t = 1 .. Len(t)
  BY <1>1, LenProperties
<1>3. Head(r) = r[1]
  OBVIOUS
<1>4. Writes(t) = {}
  OBVIOUS
<1> HIDE DEF t
<1> SUFFICES ASSUME NEW i \in Writes(r) PROVE FALSE
  OBVIOUS
<1>5. i \in 1 .. Len(r) /\ i # 1 /\ r[i].op = "write"
  BY <1>2, <1>3 DEF Writes
<1>6. i - 1 \in DOMAIN t /\ t[i - 1] = r[i]
  BY <1>1, <1>2, <1>5
<1> QED
  BY <1>4, <1>5, <1>6 DEF Writes

LEMMA StaysOpen ==
    ASSUME TypeOK, [Next]_vars, sock' = "open"
    PROVE  sock = "open" /\ has_closed = FALSE
<1>c. ASSUME NEW queue, close(queue) PROVE FALSE
  BY <1>c DEF close, sockVars, TypeOK
<1>1. sock = "open"
  BY <1>c DEF Next, HandlerNext, ReadNext, Start, OnHeadFailed, OnAlienHead, OnHead,
     OnBodyFailed, OnRequest, OnSubscription, OnWritten, OnWriteFailed, OnTimer, Respond,
     RespondLater, Publish, TimerExpires, HeadCompletes, BodyCompletes, ReadFails,
     WriteCompletes, LinkDrops, ClientSends, vars, sockVars
<1> QED
  BY <1>1 DEF TypeOK

\* What a response does to the queue
LEMMA ResponsePlaces ==
    ASSUME TypeOK, OneWrite, NEW R, PlaceInv(R), SaidInv(R), sock = "open",
           NEW m \in Message,
           response(m), sent' = sent,
           IdsIn({m}, R) \cap (Queued(R) \cup Said(R)) = {}
    PROVE  /\ ready' = ready
           /\ Queued(R)' \subseteq Queued(R) \cup IdsIn({m}, R)
           /\ Unique(write_queue', R)
           /\ SaidInv(R)'
           /\ IdsOf(write_queue', Publications)
              \subseteq IdsOf(write_queue, Publications) \cup IdsIn({m}, Publications)
<1>1. write_queue' = Append(write_queue, m) /\ write_queue \in Seq(Message)
  BY DEF response, TypeOK
<1>2. ready' = ready
  BY DEF response, WriteIfFirst, StartWrite
<1>3. /\ Queued(R)' \subseteq Queued(R) \cup IdsIn({m}, R)
      /\ Unique(write_queue', R)
      /\ IdsOf(write_queue', Publications)
         \subseteq IdsOf(write_queue, Publications) \cup IdsIn({m}, Publications)
  BY <1>1, AppendIds DEF Queued, PlaceInv
<1>4. WritesDone' = WritesDone /\ Said(R)' = Said(R)
  BY <1>2 DEF WritesDone, Said
<1>5. SaidInv(R)'
  <2> DEFINE q == Append(write_queue, m)
  <2>1. /\ q \in Seq(Message) /\ Len(q) = Len(write_queue) + 1 /\ q[Len(write_queue) + 1] = m
        /\ \A i \in 1 .. Len(write_queue) : q[i] = write_queue[i]
    BY <1>1, AppendProperties
  <2>2. /\ DOMAIN write_queue = 1 .. Len(write_queue) /\ Len(write_queue) \in Nat
        /\ DOMAIN q = 1 .. Len(q)
    BY <1>1, <2>1, LenProperties
  <2>3. write_queue' = q
    BY <1>1
  <2> HIDE DEF q
  <2>4. ASSUME NEW i \in DOMAIN q, i > 1 \/ WritesDone = {}, q[i] \in R
        PROVE  q[i].id \notin Said(R)
    <3>1. \/ i \in DOMAIN write_queue /\ q[i] = write_queue[i]
          \/ q[i] = m
      BY <2>1, <2>2
    <3>2. CASE i \in DOMAIN write_queue /\ q[i] = write_queue[i]
      BY <2>4, <3>2 DEF SaidInv
    <3>3. CASE q[i] = m
      BY <2>4, <3>3 DEF IdsIn
    <3> QED
      BY <3>1, <3>2, <3>3
  <2> QED
    BY <1>4, <2>3, <2>4 DEF SaidInv
<1> QED
  BY <1>2, <1>3, <1>5

\* The request that is served was being read.
LEMMA ServedIsCurrent ==
    ASSUME TypeOK, ReadInv, sock = "open", OnRequest
    PROVE  req_id \in Current
<1>1. /\ ready \in Seq(Completion) /\ ready # <<>> /\ Head(ready).op = "body"
      /\ OneRead(reader, ready, req_id) /\ Head(ready).frame.kind = "request"
  BY DEF OnRequest, HandlesBody, Handles, ReadInv, TypeOK
<1>2. /\ IdsIn({Head(ready).frame}, RequestFrames) \subseteq Current
      /\ Head(ready).frame.id = req_id /\ Head(ready).frame \in Frame
  BY <1>1, TailRead, TailCurrent, HeadOfReady DEF Current, ReadOps
<1> QED
  BY <1>1, <1>2 DEF IdsIn, RequestFrames

\* A step keeps each flow in order, and only a request adds to it.
Added(R) == /\ Given(R)' \subseteq Given(R) \cup {req_id}
            /\ R = Flow("route") /\ io' = io => Given(R)' \subseteq Given(R)
            /\ R = Flow("thread") /\ answering' = answering => Given(R)' \subseteq Given(R)
Kept(R)  == /\ PlaceInv(R)' /\ SaidInv(R)' /\ PubInv'
            /\ Given(R)' \subseteq Given(R) \/ (OnRequest /\ Added(R))

LEMMA FlowsDiffer == Flow("route") # Flow("thread")
<1>1. Response(0, 0, "route") \in Message
  BY BoundAssumption DEF Response, Message
<1>2. /\ Response(0, 0, "route").type = "req_res" /\ Response(0, 0, "route").by = "route"
  BY DEF Response
<1> QED
  BY <1>1, <1>2 DEF Flow

LEMMA FlowStep ==
    ASSUME TypeOK, OneWrite, ReadInv, MatchInv, NEW R \in Flows,
           PlaceInv(R), SaidInv(R), PubInv, [Next]_vars, sock' = "open"
    PROVE  Kept(R)
<1> USE DEF sockVars, serverVars, clientVars
<1>k. /\ sock = "open" /\ has_closed = FALSE
      /\ PlaceInv(R) /\ SaidInv(R) /\ PubInv
  BY StaysOpen
<1>r. /\ R \subseteq Message /\ R \cap Publications = {}
      /\ \A m, n \in R : m.id = n.id /\ m.of = n.of => m = n
  BY FlowMessages
<1>y. /\ ready \in Seq(Completion) /\ reader \in Read
      /\ inbound \in Seq(Frame) /\ io \in Seq(Message)
      /\ write_queue \in Seq(Message) /\ sent \in Seq(Message)
      /\ WritesDone = Writes(ready) /\ WritesDone' = Writes(ready')
  BY DEF TypeOK, WritesDone, Writes
<1>o. /\ OneRead(reader, ready, req_id)
      /\ ~started => reader = NoRead /\ Reads(ready) = {}
  BY <1>k DEF ReadInv
<1>c. ASSUME NEW queue, close(queue) PROVE FALSE
  BY <1>c, <1>k DEF close
\* What only reads, or does not do even that
<1>g. ASSUME UNCHANGED <<asked, answering, io, write_queue, sent, inbound, spent>>,
             subscribed => subscribed', Current' \subseteq Current,
             WritesDone' = {} => WritesDone = {}
      PROVE  Kept(R)
  <2>1. UNCHANGED <<Coming, Later(R), Now(R), Queued(R), Said(R)>>
    BY <1>g DEF Coming, Later, Now, Queued, Said
  <2>2. Places(asked, Coming, Current', Later(R), Now(R), Queued(R) \cup Said(R))
    BY <1>g, <1>k, FewerPlaces DEF PlaceInv
  <2>3. PlaceInv(R)'
    BY <1>g, <1>k, <2>1, <2>2 DEF PlaceInv
  <2>4. SaidInv(R)'
    BY <1>g, <1>k, <2>1 DEF SaidInv
  <2>5. PubInv'
    BY <1>g, <1>k DEF PubInv, Heard
  <2> QED
    BY <2>1, <2>3, <2>4, <2>5 DEF Kept, Given
\* A handler of anything but a write finds the queue without it.
<1>t. ASSUME ready # <<>>, ready' = Tail(ready), Head(ready).op # "write"
      PROVE  /\ WritesDone' = {} => WritesDone = {}
             /\ CurrentIds(reader, Tail(ready)) \subseteq Current
  BY <1>t, <1>y, TailKeepsWrites, TailCurrent DEF Current
<1>h. ASSUME ready # <<>>, Head(ready).op \in ReadOps
      PROVE  /\ reader = NoRead /\ Reads(Tail(ready)) = {}
             /\ IdsIn({Head(ready).frame}, RequestFrames) \subseteq Current
             /\ Head(ready).op = "body" => Head(ready).frame.id = req_id
  BY <1>h, <1>y, <1>o, TailRead, TailCurrent DEF Current
<1>n. IdsIn({NoRead.frame}, RequestFrames) = {} /\ IdsIn({HeadRead.frame}, RequestFrames) = {}
  BY DEF IdsIn, NoRead, HeadRead, NoFrame, RequestFrames
<1>1. CASE Start
  <2>1. Current' = {}
    BY <1>1, <1>o, <1>n, NoCurrent DEF Start, read_head, Current
  <2> QED
    BY <1>1, <1>g, <1>y, <2>1 DEF Start
<1>2. CASE OnHeadFailed
  BY <1>2, <1>c, <1>k DEF OnHeadFailed
<1>3. CASE OnAlienHead
  BY <1>3, <1>c DEF OnAlienHead
<1>4. CASE OnHead
  <2>1. ready # <<>> /\ Head(ready).op = "head" /\ ready' = Tail(ready)
    BY <1>4 DEF OnHead, HandlesHead, Handles
  <2>2. Current' = IdsIn({reader'.frame}, RequestFrames)
    BY <1>h, <2>1, NoCurrent DEF ReadOps, Current
  <2>3. reader' = BodyRead(Head(ready).frame) \/ reader' = HeadRead \/ reader' = NoRead
    BY <1>4, <1>h, <2>1 DEF OnHead, read_head, ReadOps
  <2>4. IdsIn({reader'.frame}, RequestFrames) \subseteq Current
    <3>1. CASE reader' = BodyRead(Head(ready).frame)
      <4>1. reader'.frame = Head(ready).frame
        BY <3>1 DEF BodyRead
      <4>2. IdsIn({Head(ready).frame}, RequestFrames) \subseteq Current
        BY <1>h, <2>1 DEF ReadOps
      <4> QED
        BY <4>1, <4>2
    <3>2. CASE reader' = HeadRead \/ reader' = NoRead
      <4>1. IdsIn({reader'.frame}, RequestFrames) = {}
        BY <1>n, <3>2
      <4> QED
        BY <4>1
    <3> QED
      BY <2>3, <3>1, <3>2
  <2> QED
    BY <1>4, <1>g, <1>t, <2>1, <2>2, <2>4 DEF OnHead
<1>5. CASE OnBodyFailed
  <2>1. ready # <<>> /\ Head(ready).op = "body" /\ ready' = Tail(ready) /\ reader' = reader
    BY <1>5 DEF OnBodyFailed, Handles
  <2>2. Current' \subseteq Current
    BY <1>t, <2>1 DEF Current
  <2> QED
    BY <1>5, <1>g, <1>t, <2>1, <2>2 DEF OnBodyFailed
\* A body is served, and the next header is read.
<1>b. ASSUME NEW kind, HandlesBody(kind)
      PROVE  /\ Current' = {} /\ (WritesDone' = {} => WritesDone = {})
             /\ IdsIn({Head(ready).frame}, RequestFrames) \subseteq Current
             /\ Head(ready).frame.id = req_id /\ Head(ready).frame.kind = kind
             /\ Head(ready).frame \in Frame /\ io = <<>>
  <2>1. /\ ready # <<>> /\ Head(ready).op = "body" /\ ready' = Tail(ready)
        /\ reader' = HeadRead /\ Head(ready).frame.kind = kind /\ io = <<>>
    BY <1>b DEF HandlesBody, Handles, read_next, read_head
  <2>2. Current' = {}
    BY <1>h, <1>n, <2>1, NoCurrent DEF Current, ReadOps
  <2>3. Head(ready).frame \in Frame
    BY <1>y, <2>1, HeadOfReady
  <2> QED
    BY <1>h, <1>t, <2>1, <2>2, <2>3 DEF ReadOps
<1>6. CASE OnRequest
  <2> DEFINE f == Head(ready).frame
  <2>1. /\ Current' = {} /\ (WritesDone' = {} => WritesDone = {})
        /\ IdsIn({f}, RequestFrames) \subseteq Current
        /\ f.id = req_id /\ f.kind = "request" /\ f \in Frame /\ io = <<>>
    BY <1>6, <1>b DEF OnRequest
  <2>2. req_id \in Current
    BY <2>1 DEF IdsIn, RequestFrames
  <2>3. ASSUME NEW by \in {"route", "thread"}
        PROVE  /\ Answer(by).id = req_id /\ Answer(by) \notin Publications
               /\ Answer(by) \in R => R = Flow(by)
    BY DEF Answer, Response, Publications, Flows, Flow
  <2>4. UNCHANGED <<asked, write_queue, sent, inbound, spent, subscribed>>
    BY <1>6 DEF OnRequest
  <2> HIDE DEF f
  <2>5. UNCHANGED <<Coming, Queued(R), Said(R), Heard>>
    BY <2>4 DEF Coming, Queued, Said, Heard
  <2>6. Now(R) = {} /\ IdsOf(io, Publications) = {}
    BY <2>1 DEF Now, IdsOf
  <2>7. /\ Now(R)' \subseteq {req_id} /\ IdsOf(io', Publications) = {}
        /\ R # Flow("route") => Now(R)' = {}
    <3>1. CASE io' = io
      BY <2>6, <3>1 DEF Now
    <3>2. CASE io' = <<Answer("route")>>
      BY <2>3, <3>2 DEF Now, IdsOf
    <3> QED
      BY <1>6, <3>1, <3>2, RequestAnswers
  <2>8. /\ Later(R)' \subseteq Later(R) \cup {req_id}
        /\ IdsIn(answering', Publications) \subseteq IdsIn(answering, Publications)
        /\ R # Flow("thread") => Later(R)' \subseteq Later(R)
    BY <1>6, <2>3, RequestAnswers DEF Later, IdsIn
  <2>9. Now(R)' = {} \/ Later(R)' \subseteq Later(R)
    BY <2>7, <2>8, FlowsDiffer
  <2>10. Places(asked, Coming, {}, Later(R)', Now(R)', Queued(R) \cup Said(R))
    BY <1>k, <2>2, <2>6, <2>7, <2>8, <2>9 DEF PlaceInv, Places
  <2>11. PlaceInv(R)'
    BY <1>k, <2>1, <2>4, <2>5, <2>10 DEF PlaceInv
  <2>12. SaidInv(R)'
    BY <1>k, <2>1, <2>4, <2>5 DEF SaidInv
  <2>13. PubInv'
    BY <1>k, <2>4, <2>5, <2>7, <2>8 DEF PubInv
  <2>14. Added(R)
    <3>2. R # Flow("route") \/ io' = io => Now(R)' \subseteq Now(R)
      BY <2>6, <2>7 DEF Now
    <3>3. R # Flow("thread") \/ answering' = answering => Later(R)' \subseteq Later(R)
      BY <2>8 DEF Later
    <3> QED
      BY <2>5, <2>7, <2>8, <3>2, <3>3, FlowsDiffer DEF Added, Given
  <2> QED
    BY <1>6, <2>11, <2>12, <2>13, <2>14 DEF Kept
<1>7. CASE OnSubscription
  <2>1. Current' \subseteq Current /\ (WritesDone' = {} => WritesDone = {})
    BY <1>7, <1>b DEF OnSubscription
  <2>2. subscribed => subscribed'
    BY <1>7 DEF OnSubscription, TypeOK
  <2>3. UNCHANGED <<asked, answering, io, write_queue, sent, inbound, spent>>
    BY <1>7 DEF OnSubscription
  <2> QED
    BY <1>g, <2>1, <2>2, <2>3
<1>8. CASE OnWritten
  <2>1. /\ write_queue # <<>> /\ ready # <<>>
        /\ write_queue' = Tail(write_queue) /\ ready' = Tail(ready)
    BY <1>8, <1>k, FrontIsWritten DEF OnWritten, Handles, StartWrite
  <2>2. UNCHANGED <<asked, answering, io, sent, inbound, spent, subscribed, reader>>
    BY <1>8 DEF OnWritten
  <2>3. Current' \subseteq Current
    BY <1>y, <2>1, <2>2, TailCurrent DEF Current
  <2>4. UNCHANGED <<Coming, Later(R), Now(R), Said(R), Heard>>
    BY <2>2 DEF Coming, Later, Now, Said, Heard
  <2>5. Queued(R)' \subseteq Queued(R) /\ Unique(write_queue', R)
    BY <1>k, <1>y, <2>1, TailIds DEF Queued, PlaceInv
  <2>6. Places(asked, Coming, Current', Later(R), Now(R), Queued(R)' \cup Said(R))
    BY <1>k, <2>3, <2>5, FewerPlaces DEF PlaceInv
  <2>7. PlaceInv(R)'
    BY <1>k, <2>2, <2>4, <2>5, <2>6 DEF PlaceInv
  <2>8. SaidInv(R)'
    <3>1. \A i \in DOMAIN Tail(write_queue) :
             /\ i + 1 \in DOMAIN write_queue /\ i + 1 > 1
             /\ Tail(write_queue)[i] = write_queue[i + 1]
      BY <1>y, <2>1, TailIds
    <3>2. \A i \in DOMAIN Tail(write_queue) :
             Tail(write_queue)[i] \in R => Tail(write_queue)[i].id \notin Said(R)
      BY <1>k, <3>1 DEF SaidInv
    <3> QED
      BY <2>1, <2>4, <3>2 DEF SaidInv
  <2>9. PubInv'
    <3>1. IdsOf(write_queue', Publications) \subseteq IdsOf(write_queue, Publications)
      BY <1>y, <2>1, TailIds
    <3> QED
      BY <1>k, <2>2, <2>4, <3>1 DEF PubInv
  <2> QED
    BY <2>4, <2>5, <2>7, <2>8, <2>9 DEF Kept, Given
<1>9. CASE OnWriteFailed
  BY <1>9, <1>c DEF OnWriteFailed
<1>10. CASE OnTimer
  BY <1>10, <1>c DEF OnTimer
<1>11. CASE Respond
  <2> DEFINE m == Head(io)
  <2>1. /\ m \in Message /\ response(m) /\ io' = <<>>
        /\ UNCHANGED <<asked, answering, sent, inbound, spent, subscribed, reader>>
    BY <1>11, <1>y, HeadTailProperties DEF Respond
  <2>2. IdsIn({m}, R) \subseteq Now(R) /\ IdsIn({m}, Publications) \subseteq Heard
    BY <1>11, <1>k, <1>y, TailIds DEF Respond, Now, PubInv
  <2> HIDE DEF m
  <2>3. IdsIn({m}, R) \cap (Queued(R) \cup Said(R)) = {}
    BY <1>k, <2>2 DEF PlaceInv, Places
  <2>4. /\ ready' = ready /\ SaidInv(R)' /\ Unique(write_queue', R)
        /\ Queued(R)' \subseteq Queued(R) \cup IdsIn({m}, R)
        /\ IdsOf(write_queue', Publications)
           \subseteq IdsOf(write_queue, Publications) \cup IdsIn({m}, Publications)
    BY <1>k, <2>1, <2>3, ResponsePlaces
  <2>5. /\ UNCHANGED <<Coming, Current, Later(R), Said(R), Heard>>
        /\ Now(R)' = {} /\ IdsOf(io', Publications) = {}
    BY <2>1, <2>4 DEF Coming, Current, Later, Said, Heard, Now, IdsOf
  <2>6. Places(asked, Coming, Current, Later(R), {}, Queued(R)' \cup Said(R))
    BY <1>k, <2>2, <2>4 DEF PlaceInv, Places
  <2>7. PlaceInv(R)'
    BY <1>k, <2>1, <2>4, <2>5, <2>6 DEF PlaceInv
  <2>8. PubInv'
    BY <1>k, <2>1, <2>2, <2>4, <2>5 DEF PubInv
  <2> QED
    BY <2>2, <2>4, <2>5, <2>7, <2>8 DEF Kept, Given
<1>12. ASSUME NEW m \in answering, RespondLater(m) PROVE Kept(R)
  <2>1. /\ m \in Message /\ response(m) /\ answering' = answering \ {m}
        /\ UNCHANGED <<asked, io, sent, inbound, spent, subscribed, reader>>
    BY <1>12 DEF RespondLater, KeptId, NoLongerHeld, TypeOK
  <2>2. IdsIn({m}, R) \subseteq Later(R) /\ IdsIn({m}, Publications) \subseteq Heard
    BY <1>k DEF Later, PubInv, IdsIn
  <2>3. IdsIn({m}, R) \cap (Queued(R) \cup Said(R)) = {}
    BY <1>k, <2>2 DEF PlaceInv, Places
  <2>4. /\ ready' = ready /\ SaidInv(R)' /\ Unique(write_queue', R)
        /\ Queued(R)' \subseteq Queued(R) \cup IdsIn({m}, R)
        /\ IdsOf(write_queue', Publications)
           \subseteq IdsOf(write_queue, Publications) \cup IdsIn({m}, Publications)
    BY <1>k, <2>1, <2>3, ResponsePlaces
  <2>5. UNCHANGED <<Coming, Current, Now(R), Said(R), Heard>>
    BY <2>1, <2>4 DEF Coming, Current, Now, Said, Heard
  <2>6. Later(R)' \subseteq Later(R) /\ Later(R)' \cap IdsIn({m}, R) = {}
    <3>1. ASSUME NEW n \in answering, n \in R, m \in R, n.id = m.id
          PROVE  n = m
      <4>1. n.type = "req_res" /\ m.type = "req_res"
        BY <3>1 DEF Flows, Flow
      <4>2. n.id = n.of /\ m.id = m.of
        BY <4>1 DEF MatchInv, Matches
      <4> QED
        BY <1>r, <3>1, <4>2
    <3> QED
      BY <2>1, <3>1 DEF Later, IdsIn
  <2>7. Places(asked, Coming, Current, Later(R)', Now(R), Queued(R)' \cup Said(R))
    BY <1>k, <2>2, <2>4, <2>6 DEF PlaceInv, Places
  <2>8. PlaceInv(R)'
    BY <1>k, <2>1, <2>4, <2>5, <2>7 DEF PlaceInv
  <2>9. IdsIn(answering', Publications) \subseteq IdsIn(answering, Publications)
    BY <2>1 DEF IdsIn
  <2>10. PubInv'
    BY <1>k, <2>1, <2>2, <2>4, <2>5, <2>9 DEF PubInv
  <2> QED
    BY <2>2, <2>4, <2>5, <2>6, <2>8, <2>10 DEF Kept, Given
<1>13. CASE Publish
  <2> DEFINE p == Publication(spent'["publishes"])
  <2>1. /\ answering' = answering \cup {p} /\ subscribed
        /\ UNCHANGED <<asked, io, write_queue, sent, inbound, subscribed, reader, ready>>
        /\ spent'["frames"] = spent["frames"]
    BY <1>13 DEF Publish, Spend, TypeOK
  <2>2. p \notin R /\ p.id = 0
    BY DEF Publication, Flows, Flow
  <2> HIDE DEF p
  <2>3. UNCHANGED <<Coming, Current, Now(R), Queued(R), Said(R), Heard, WritesDone>>
    BY <2>1 DEF Coming, Current, Now, Queued, Said, Heard, WritesDone
  <2>4. /\ Later(R)' \subseteq Later(R)
        /\ IdsIn(answering', Publications) \subseteq IdsIn(answering, Publications) \cup {0}
    BY <2>1, <2>2 DEF Later, IdsIn
  <2>5. Places(asked, Coming, Current, Later(R)', Now(R), Queued(R) \cup Said(R))
    BY <1>k, <2>4, FewerPlaces DEF PlaceInv
  <2>6. PlaceInv(R)'
    BY <1>k, <2>1, <2>3, <2>5 DEF PlaceInv
  <2>7. SaidInv(R)'
    BY <1>k, <2>1, <2>3 DEF SaidInv
  <2>8. PubInv'
    BY <1>k, <2>1, <2>3, <2>4 DEF PubInv, Heard
  <2> QED
    BY <2>3, <2>4, <2>6, <2>7, <2>8 DEF Kept, Given
<1>14. CASE TimerExpires
  <2>1. Expired \in Completion /\ Expired.op = "timer" /\ ready' = Append(ready, Expired)
    BY <1>14, Constructors DEF TimerExpires, Completes, Expired
  <2>2. Current' \subseteq Current
    BY <1>14, <1>y, <2>1, AppendCurrent DEF TimerExpires, Current, ReadOps
  <2>3. WritesDone' = WritesDone
    BY <1>y, <2>1, AppendWrites
  <2> QED
    BY <1>14, <1>g, <2>2, <2>3 DEF TimerExpires
<1>15. CASE HeadCompletes
  <2> DEFINE f == Head(inbound)
             c == ReadDone("head", f, FALSE)
  <2>1. /\ inbound # <<>> /\ inbound' = Tail(inbound)
        /\ reader' = NoRead /\ ready' = Append(ready, c)
        /\ UNCHANGED <<asked, answering, io, write_queue, sent, spent, subscribed>>
    BY <1>15 DEF HeadCompletes, Completes
  <2>2. f \in Frame
    BY <1>y, <2>1, HeadTailProperties
  <2>3. c \in Completion /\ c.op = "head" /\ c.frame = f
    BY <2>2, Constructors DEF ReadDone
  <2>4. /\ Coming' \subseteq Coming /\ IdsIn({f}, RequestFrames) \subseteq Coming
        /\ IdsIn({f}, RequestFrames) \cap Coming' = {}
        /\ Unique(inbound', RequestFrames)
    BY <1>k, <1>y, <2>1, TailIds DEF Coming, PlaceInv
  <2> HIDE DEF c, f
  <2>5. Current' \subseteq Current \cup IdsIn({f}, RequestFrames)
    BY <1>y, <2>1, <2>3, AppendCurrent DEF Current
  <2>6. WritesDone' = WritesDone
    BY <1>y, <2>1, <2>3, AppendWrites
  <2>7. UNCHANGED <<Later(R), Now(R), Queued(R), Said(R), Heard>>
    BY <2>1 DEF Later, Now, Queued, Said, Heard
  <2>8. Places(asked, Coming', Current', Later(R), Now(R), Queued(R) \cup Said(R))
    BY <1>k, <2>4, <2>5 DEF PlaceInv, Places
  <2>9. PlaceInv(R)'
    BY <1>k, <2>1, <2>4, <2>7, <2>8 DEF PlaceInv
  <2>10. SaidInv(R)'
    BY <1>k, <2>1, <2>6, <2>7 DEF SaidInv
  <2>11. PubInv'
    BY <1>k, <2>1, <2>7 DEF PubInv
  <2> QED
    BY <2>7, <2>9, <2>10, <2>11 DEF Kept, Given
<1>16. CASE BodyCompletes
  <2> DEFINE c == ReadDone("body", reader.frame, FALSE)
  <2>1. c \in Completion /\ c.op = "body" /\ c.frame = reader.frame
    BY <1>16, <1>y, Constructors DEF BodyCompletes, Read, ReadDone
  <2>2. ready' = Append(ready, c) /\ reader' = NoRead
    BY <1>16 DEF BodyCompletes, Completes
  <2> HIDE DEF c
  <2>3. Current' \subseteq Current \cup IdsIn({reader.frame}, RequestFrames)
    BY <1>y, <2>1, <2>2, AppendCurrent DEF Current
  <2>4. IdsIn({reader.frame}, RequestFrames) \subseteq Current
    BY DEF Current, CurrentIds, IdsIn
  <2>5. WritesDone' = WritesDone
    BY <1>y, <2>1, <2>2, AppendWrites
  <2> QED
    BY <1>16, <1>g, <2>3, <2>4, <2>5 DEF BodyCompletes
<1>17. CASE ReadFails
  BY <1>17, <1>k DEF ReadFails
<1>18. ASSUME NEW ec \in BOOLEAN, WriteCompletes(ec) PROVE Kept(R)
  <2> DEFINE m == Head(writing)
             c == WriteDone(m, ec)
  <2>1. /\ m \in Message /\ write_queue # <<>> /\ m = Head(write_queue)
    BY <1>18, HeadTailProperties DEF WriteCompletes, OneWrite, TypeOK
  <2>2. c \in Completion /\ c.op = "write"
    BY <2>1, WriteDoneParts
  <2>3. /\ ready' = Append(ready, c) /\ sent' = Append(sent, m)
        /\ WritesDone = {}
        /\ UNCHANGED <<asked, answering, io, write_queue, inbound, spent, subscribed, reader>>
    BY <1>18, <1>k DEF WriteCompletes, Completes, OneWrite
  <2>4. IdsIn({m}, R) \subseteq Queued(R) /\ IdsIn({m}, Publications) \subseteq Heard
    BY <1>k, <1>y, <2>1, TailIds DEF Queued, PubInv
  <2> HIDE DEF m, c
  <2>5. Current' \subseteq Current
    BY <1>y, <2>2, <2>3, AppendCurrent DEF Current, ReadOps
  <2>6. WritesDone' # {}
    BY <1>y, <2>2, <2>3, AppendWrites
  <2>7. /\ Said(R)' \subseteq Said(R) \cup IdsIn({m}, R)
        /\ IdsOf(sent', Publications) \subseteq IdsOf(sent, Publications) \cup IdsIn({m}, Publications)
    BY <1>y, <2>1, <2>3, AppendIds DEF Said
  <2>u. Unique(sent', R)
    <3>1. m \in R => m.id \notin Said(R)
      <4>1. m = write_queue[1] /\ 1 \in DOMAIN write_queue
        BY <1>y, <2>1, LenProperties
      <4> QED
        BY <1>k, <2>3, <4>1 DEF SaidInv
    <3>2. IdsIn({m}, R) \cap Said(R) = {}
      BY <3>1 DEF IdsIn
    <3> QED
      BY <1>k, <1>y, <2>1, <2>3, <3>2, AppendIds DEF PlaceInv, Said
  <2>8. UNCHANGED <<Coming, Later(R), Now(R), Queued(R), Heard>>
    BY <2>3 DEF Coming, Later, Now, Queued, Heard
  <2>9. Places(asked, Coming, Current', Later(R), Now(R), Queued(R) \cup Said(R)')
    BY <1>k, <2>4, <2>5, <2>7 DEF PlaceInv, Places
  <2>10. PlaceInv(R)'
    BY <1>k, <2>3, <2>8, <2>9, <2>u DEF PlaceInv
  <2>11. SaidInv(R)'
    <3>1. ASSUME NEW i \in DOMAIN write_queue, i > 1, write_queue[i] \in R
          PROVE  write_queue[i].id \notin Said(R)'
      <4>1. write_queue[i].id \notin Said(R)
        BY <1>k, <3>1 DEF SaidInv
      <4>2. m = write_queue[1] /\ 1 \in DOMAIN write_queue /\ i # 1
        BY <1>y, <2>1, <3>1, LenProperties
      <4>3. m \in R => write_queue[i].id # m.id
        BY <1>k, <3>1, <4>2 DEF PlaceInv, Unique
      <4> QED
        BY <2>7, <4>1, <4>3 DEF IdsIn
    <3> QED
      BY <2>3, <2>6, <3>1 DEF SaidInv
  <2>12. PubInv'
    BY <1>k, <2>3, <2>4, <2>7, <2>8 DEF PubInv
  <2> QED
    BY <2>4, <2>7, <2>8, <2>10, <2>11, <2>12 DEF Kept, Given
<1>19. CASE LinkDrops
  BY <1>19 DEF LinkDrops
<1>20. ASSUME NEW kind \in Kinds, ClientSends(kind) PROVE Kept(R)
  <2> DEFINE id == IF kind = "request" THEN spent'["frames"] ELSE 0
             f == [kind |-> kind, id |-> id]
  <2>1. /\ inbound' = Append(inbound, f) /\ asked' = asked \cup ({id} \ {0})
        /\ UNCHANGED <<answering, io, write_queue, sent, subscribed, reader, ready>>
    BY <1>20 DEF ClientSends
  <2>2. /\ spent["frames"] \in Nat /\ spent["frames"] < MaxFrames
        /\ spent'["frames"] = spent["frames"] + 1
    BY <1>20 DEF ClientSends, Spend, TypeOK
  <2>3. f \in Frame /\ f.id = id /\ f.kind = kind
    BY <2>2, ClientAssumption, BoundAssumption DEF Frame
  <2>4. asked' \subseteq 1 .. spent'["frames"]
    <3> DEFINE n == spent["frames"]
    <3>1. asked \subseteq 1 .. n /\ n \in Nat /\ spent'["frames"] = n + 1
      BY <1>k, <2>2 DEF PlaceInv
    <3>2. {id} \ {0} \subseteq {n + 1}
      BY <3>1
    <3> HIDE DEF n, id
    <3>3. 1 .. n \subseteq 1 .. (n + 1) /\ n + 1 \in 1 .. (n + 1)
      BY <3>1
    <3> QED
      BY <2>1, <3>1, <3>2, <3>3
  <2>5. /\ IdsIn({f}, RequestFrames) \subseteq asked'
        /\ IdsIn({f}, RequestFrames) \cap asked = {}
    BY <1>k, <2>1, <2>2, <2>3 DEF PlaceInv, IdsIn, RequestFrames
  <2>6. asked \subseteq asked'
    BY <2>1
  <2> HIDE DEF f, id
  <2>7. UNCHANGED <<Current, Later(R), Now(R), Queued(R), Said(R), Heard, WritesDone>>
    BY <2>1 DEF Current, Later, Now, Queued, Said, Heard, WritesDone
  <2>8. Coming \subseteq asked
    BY <1>k DEF PlaceInv, Places
  <2>9. /\ Coming' \subseteq Coming \cup IdsIn({f}, RequestFrames)
        /\ Unique(inbound', RequestFrames)
    BY <1>k, <1>y, <2>1, <2>3, <2>5, <2>8, AppendIds DEF Coming, PlaceInv
  <2>10. Places(asked', Coming', Current, Later(R), Now(R), Queued(R) \cup Said(R))
    BY <1>k, <2>5, <2>6, <2>9 DEF PlaceInv, Places
  <2>11. PlaceInv(R)'
    BY <1>k, <2>1, <2>4, <2>7, <2>9, <2>10 DEF PlaceInv
  <2>12. SaidInv(R)'
    BY <1>k, <2>1, <2>7 DEF SaidInv
  <2>13. PubInv'
    BY <1>k, <2>1, <2>7 DEF PubInv
  <2> QED
    BY <2>7, <2>11, <2>12, <2>13 DEF Kept, Given
<1>21. CASE UNCHANGED vars
  BY <1>21, <1>g DEF vars, Current, WritesDone
<1> QED
  BY <1>1, <1>2, <1>3, <1>4, <1>5, <1>6, <1>7, <1>8, <1>9, <1>10, <1>11, <1>12, <1>13,
     <1>14, <1>15, <1>16, <1>17, <1>18, <1>19, <1>20, <1>21
     DEF Next, HandlerNext, ReadNext

LEMMA NextPromiseInv ==
    TypeOK /\ OneWrite /\ ReadInv /\ MatchInv /\ PromiseInv /\ [Next]_vars => PromiseInv'
<1> SUFFICES ASSUME TypeOK, OneWrite, ReadInv, MatchInv, PromiseInv, [Next]_vars,
                    sock' = "open"
             PROVE  PromiseInv'
  BY DEF PromiseInv
<1>1. /\ \A R \in Flows : PlaceInv(R) /\ SaidInv(R)
      /\ PubInv /\ BothInv
  BY StaysOpen DEF PromiseInv
<1>2. \A R \in Flows : Kept(R)
  BY <1>1, FlowStep
<1>3. Flow("route") \in Flows /\ Flow("thread") \in Flows
  BY DEF Flows
<1>4. doubled \subseteq doubled'
  <2>1. CASE ~OnRequest
    BY <2>1 DEF Next, HandlerNext, ReadNext, Start, OnHeadFailed, OnAlienHead, OnHead,
       OnBodyFailed, OnSubscription, OnWritten, OnWriteFailed, OnTimer, Respond,
       RespondLater, Publish, TimerExpires, HeadCompletes, BodyCompletes, ReadFails,
       WriteCompletes, LinkDrops, ClientSends, vars, sockVars, serverVars
  <2> QED
    BY <2>1, RequestAnswers
<1>5. ASSUME OnRequest
      PROVE  /\ io' = io \/ answering' = answering \/ req_id \in doubled'
             /\ req_id \notin Given(Flow("route")) \cup Given(Flow("thread"))
  <2>1. req_id \in Current
    BY <1>5, ServedIsCurrent, StaysOpen
  <2>2. \A R \in Flows : req_id \notin Given(R)
    BY <1>1, <2>1 DEF PlaceInv, Places, Given
  <2> QED
    BY <1>3, <1>5, <2>2, RequestAnswers
<1>6. BothInv'
  <2> DEFINE r  == Given(Flow("route"))   r2 == Given(Flow("route"))'
             t  == Given(Flow("thread"))  t2 == Given(Flow("thread"))'
  <2>1. /\ r2 \subseteq r \/ (OnRequest /\ Added(Flow("route")))
        /\ t2 \subseteq t \/ (OnRequest /\ Added(Flow("thread")))
    BY <1>2, <1>3 DEF Kept
  <2>2. r \cap t \subseteq doubled
    BY <1>1 DEF BothInv
  <2>3. Added(Flow("route")) => r2 \subseteq r \cup {req_id} /\ (io' = io => r2 \subseteq r)
    BY DEF Added
  <2>4. Added(Flow("thread")) =>
           t2 \subseteq t \cup {req_id} /\ (answering' = answering => t2 \subseteq t)
    BY DEF Added
  <2>5. OnRequest => req_id \notin r \cup t
    BY <1>5
  <2>6. BothInv' <=> r2 \cap t2 \subseteq doubled'
    BY DEF BothInv
  <2> HIDE DEF r, t, r2, t2
  <2> QED
    BY <1>4, <1>5, <2>1, <2>2, <2>3, <2>4, <2>5, <2>6
<1> QED
  BY <1>2, <1>3, <1>6 DEF PromiseInv, Kept

\* What the abstract specification sees
Stream == [i \in DOMAIN sent |-> sent[i].id]
Held   == WhileOpen({id \in asked : ~Answered(id)})
Failed == WhileOpen({id \in doubled : ~AnsweredTwice(id)})

\* The ids of the answers in q, and those that are there twice
Answers(q) == {q[i].id : i \in {j \in DOMAIN q : q[j].type = "req_res"}}
Repeats(q) == {q[i].id : i \in {j \in DOMAIN q : /\ q[j].type = "req_res"
                                                /\ \E k \in DOMAIN q : /\ k # j
                                                      /\ q[k].type = "req_res"
                                                      /\ q[k].id = q[j].id}}

LEMMA HeldFailed ==
    /\ Held = WhileOpen(asked \ Answers(sent)) /\ Failed = WhileOpen(doubled \ Repeats(sent))
    /\ Held' = WhileOpen(asked \ Answers(sent))'
    /\ Failed' = WhileOpen(doubled \ Repeats(sent))'
<1>1. /\ {id \in asked : ~Answered(id)} = asked \ Answers(sent)
      /\ {id \in asked : ~Answered(id)}' = (asked \ Answers(sent))'
  BY DEF Answered, IsAnswer, Answers
<1>2. /\ {id \in doubled : ~AnsweredTwice(id)} = doubled \ Repeats(sent)
      /\ {id \in doubled : ~AnsweredTwice(id)}' = (doubled \ Repeats(sent))'
  BY DEF AnsweredTwice, IsAnswer, Repeats
<1> QED
  BY <1>1, <1>2 DEF Held, Failed, WhileOpen

Flow1 == Flow("route")
Flow2 == Flow("thread")

\* An answer is of one of the flows, and a second one of the other.
LEMMA AnswersOfFlows ==
    ASSUME sent \in Seq(Message), Unique(sent, Flow1), Unique(sent, Flow2)
    PROVE  /\ Answers(sent) = Said(Flow1) \cup Said(Flow2)
           /\ Repeats(sent) \subseteq Said(Flow1) \cap Said(Flow2)
<1>1. \A i \in DOMAIN sent : sent[i] \in Message
  OBVIOUS
<1>2. \A i \in DOMAIN sent : sent[i].type = "req_res" <=> sent[i] \in Flow1 \cup Flow2
  BY <1>1 DEF Flow1, Flow2, Flow, Message
<1>3. Answers(sent) = Said(Flow1) \cup Said(Flow2)
  BY <1>2 DEF Answers, Said, IdsOf
<1>4. ASSUME NEW i \in DOMAIN sent, NEW j \in DOMAIN sent, j # i,
             sent[i].type = "req_res", sent[j].type = "req_res", sent[j].id = sent[i].id
      PROVE  sent[i].id \in Said(Flow1) \cap Said(Flow2)
  <2>1. sent[i] \in Flow1 \cup Flow2 /\ sent[j] \in Flow1 \cup Flow2
    BY <1>2, <1>4
  <2>2. /\ ~(sent[i] \in Flow1 /\ sent[j] \in Flow1)
        /\ ~(sent[i] \in Flow2 /\ sent[j] \in Flow2)
    BY <1>4 DEF Unique
  <2> QED
    BY <1>4, <2>1, <2>2 DEF Said, IdsOf
<1>5. Repeats(sent) \subseteq Said(Flow1) \cap Said(Flow2)
  BY <1>4 DEF Repeats
<1> QED
  BY <1>3, <1>5

\* What one more message adds to the answers
LEMMA AnswersAppend ==
    ASSUME NEW q \in Seq(Message), NEW m \in Message
    PROVE  /\ Answers(Append(q, m)) =
                 Answers(q) \cup (IF m.type = "req_res" THEN {m.id} ELSE {})
           /\ Repeats(Append(q, m)) =
                 Repeats(q) \cup (IF m.type = "req_res" THEN {m.id} \cap Answers(q) ELSE {})
<1> DEFINE n == Len(q)
           a == Append(q, m)
<1>1. /\ a \in Seq(Message) /\ Len(a) = n + 1 /\ a[n + 1] = m
      /\ \A i \in 1 .. n : a[i] = q[i]
  BY AppendProperties
<1>2. DOMAIN q = 1 .. n /\ n \in Nat /\ DOMAIN a = 1 .. (n + 1)
  BY <1>1, LenProperties
<1> HIDE DEF a, n
<1> DEFINE last == n + 1
<1>3. /\ \A i \in DOMAIN q : i \in DOMAIN a /\ i # last /\ a[i] = q[i]
      /\ \A i \in DOMAIN a : i = last \/ i \in DOMAIN q
      /\ last \in DOMAIN a /\ a[last] = m
  BY <1>1, <1>2
<1> HIDE DEF last
<1>4. Answers(a) = Answers(q) \cup (IF m.type = "req_res" THEN {m.id} ELSE {})
  BY ONLY <1>3 DEF Answers
<1>5. Repeats(q) \subseteq Repeats(a)
  BY ONLY <1>3 DEF Repeats
<1>6. m.type = "req_res" => {m.id} \cap Answers(q) \subseteq Repeats(a)
  BY ONLY <1>3 DEF Repeats, Answers
<1>7. ASSUME NEW i \in DOMAIN a, NEW j \in DOMAIN a, j # i,
             a[i].type = "req_res", a[j].type = "req_res", a[j].id = a[i].id
      PROVE  \/ a[i].id \in Repeats(q)
             \/ m.type = "req_res" /\ a[i].id \in {m.id} \cap Answers(q)
  BY ONLY <1>3, <1>7 DEF Repeats, Answers
<1>8. Repeats(a) \subseteq
         Repeats(q) \cup (IF m.type = "req_res" THEN {m.id} \cap Answers(q) ELSE {})
  BY ONLY <1>7 DEF Repeats
<1> QED
  BY <1>4, <1>5, <1>6, <1>8 DEF a

LEMMA StreamAppend ==
    ASSUME NEW S, NEW s \in Seq(S), NEW m \in S
    PROVE  [i \in DOMAIN Append(s, m) |-> Append(s, m)[i].id]
           = Append([i \in DOMAIN s |-> s[i].id], m.id)
<1> DEFINE a == Append(s, m)
           t == [i \in DOMAIN s |-> s[i].id]
<1>1. /\ Len(a) = Len(s) + 1 /\ a[Len(s) + 1] = m /\ a \in Seq(S)
      /\ \A i \in 1 .. Len(s) : a[i] = s[i]
  BY AppendProperties
<1>2. DOMAIN s = 1 .. Len(s) /\ Len(s) \in Nat /\ DOMAIN a = 1 .. (Len(s) + 1)
  BY <1>1, LenProperties
<1>3. t \in Seq({s[i].id : i \in DOMAIN s}) /\ Len(t) = Len(s)
  BY <1>2
<1> HIDE DEF a
<1>4. DOMAIN Append(t, m.id) = 1 .. (Len(s) + 1)
  BY <1>2, <1>3
<1>5. \A i \in 1 .. (Len(s) + 1) : a[i].id = Append(t, m.id)[i]
  <2> TAKE i \in 1 .. (Len(s) + 1)
  <2>1. CASE i \in 1 .. Len(s)
    BY <1>1, <1>2, <1>3, <2>1
  <2>2. CASE i = Len(s) + 1
    BY <1>1, <1>2, <1>3, <2>2
  <2> QED
    BY <1>2, <2>1, <2>2
<1> QED
  BY <1>2, <1>4, <1>5 DEF a

LEMMA PromiseInit == Init => Promise!Init
BY DEF Init, Promise!Init, WhileOpen

LEMMA PromiseStep ==
    TypeOK /\ OneWrite /\ ReadInv /\ PromiseInv /\ [Next]_vars => [Promise!Next]_(Promise!vars)
<1> SUFFICES ASSUME TypeOK, OneWrite, ReadInv, PromiseInv, [Next]_vars
             PROVE  [Promise!Next]_(Promise!vars)
  OBVIOUS
<1> USE DEF sockVars, serverVars, clientVars
<1>f. Flow1 \in Flows /\ Flow2 \in Flows
  BY DEF Flows, Flow1, Flow2
<1>k. ASSUME sock = "open"
      PROVE  /\ PlaceInv(Flow1) /\ SaidInv(Flow1) /\ PlaceInv(Flow2) /\ SaidInv(Flow2)
             /\ PubInv /\ BothInv
             /\ Answers(sent) = Said(Flow1) \cup Said(Flow2)
             /\ Repeats(sent) \subseteq Said(Flow1) \cap Said(Flow2)
  <2>1. /\ PlaceInv(Flow1) /\ SaidInv(Flow1) /\ PlaceInv(Flow2) /\ SaidInv(Flow2)
        /\ PubInv /\ BothInv
    BY <1>f, <1>k DEF PromiseInv
  <2>2. sent \in Seq(Message) /\ Unique(sent, Flow1) /\ Unique(sent, Flow2)
    BY <2>1 DEF TypeOK, PlaceInv
  <2> QED
    BY <2>1, <2>2, AnswersOfFlows
\* A connection that is closed, or about to be, says nothing more.
<1>s. ASSUME UNCHANGED sent,
             sock' = "open" => UNCHANGED <<asked, doubled, subscribed>>
      PROVE  [Promise!Next]_(Promise!vars)
  <2>1. CASE sock' # "open"
    BY <1>s, <2>1 DEF Promise!Next, Promise!Gone, WhileOpen
  <2>2. CASE sock' = "open"
    <3>1. sock = "open"
      BY <2>2, StaysOpen
    <3>2. UNCHANGED <<sent, asked, doubled, subscribed, sock>>
      BY <1>s, <2>2, <3>1
    <3> QED
      BY <3>2 DEF Promise!vars, Answered, AnsweredTwice, IsAnswer, WhileOpen
  <2> QED
    BY <2>1, <2>2
<1>1. CASE OnSubscription
  <2>1. UNCHANGED <<asked, doubled, sent, sock>>
    BY <1>1 DEF OnSubscription, HandlesBody
  <2>2. subscribed' = subscribed \/ subscribed' = TRUE
    BY <1>1 DEF OnSubscription
  <2>3. CASE subscribed' = subscribed \/ sock # "open"
    BY <1>s, <2>1, <2>3
  <2>4. CASE subscribed' = TRUE /\ sock = "open"
    <3>1. Held' = Held /\ Failed' = Failed /\ Stream' = Stream
      BY <2>1 DEF Held, Failed, Stream, WhileOpen, Answered, AnsweredTwice, IsAnswer
    <3> QED
      BY <2>1, <2>4, <3>1 DEF Promise!Next, Promise!Subscribe, Held, Failed, Stream
  <2> QED
    BY <2>2, <2>3, <2>4
<1>2. ASSUME NEW ec \in BOOLEAN, WriteCompletes(ec)
      PROVE  [Promise!Next]_(Promise!vars)
  <2>1. CASE sock # "open"
    BY <1>2, <1>s, <2>1 DEF WriteCompletes
  <2>2. CASE sock = "open"
    <3> DEFINE m == Head(writing)
    <3>1. /\ m \in Message /\ write_queue # <<>> /\ m = Head(write_queue)
          /\ write_queue \in Seq(Message) /\ sent \in Seq(Message)
          /\ WritesDone = {}
      BY <1>2, HeadTailProperties DEF WriteCompletes, OneWrite, TypeOK
    <3>2. sent' = Append(sent, m) /\ UNCHANGED <<sock, asked, doubled, subscribed>>
      BY <1>2, <2>2 DEF WriteCompletes
    <3>a. m = write_queue[1] /\ 1 \in DOMAIN write_queue
      BY <3>1, LenProperties
    <3> HIDE DEF m
    <3>3. Stream' = Append(Stream, m.id)
      BY <3>1, <3>2, StreamAppend DEF Stream
    <3>4. /\ PlaceInv(Flow1) /\ SaidInv(Flow1) /\ PlaceInv(Flow2) /\ SaidInv(Flow2)
          /\ PubInv /\ BothInv
          /\ Answers(sent) = Said(Flow1) \cup Said(Flow2)
          /\ Repeats(sent) \subseteq Said(Flow1) \cap Said(Flow2)
      BY <1>k, <2>2
    <3>5. /\ Answers(sent') = Answers(sent) \cup (IF m.type = "req_res" THEN {m.id} ELSE {})
          /\ Repeats(sent') = Repeats(sent) \cup
                 (IF m.type = "req_res" THEN {m.id} \cap Answers(sent) ELSE {})
      BY <3>1, <3>2, AnswersAppend
    <3>6. CASE m.type = "req_res"
      <4>1. PICK R \in {Flow1, Flow2} : m \in R
        BY <3>1, <3>6 DEF Flow1, Flow2, Flow, Message
      <4>2. PlaceInv(R) /\ SaidInv(R)
        BY <3>4, <4>1
      <4>3. m.id \in Queued(R)
        BY <3>a, <4>1 DEF Queued, IdsOf
      <4>4. m.id \in asked
        BY <4>2, <4>3 DEF PlaceInv, Places
      <4>5. m.id \notin Said(R)
        BY <3>1, <3>a, <4>1, <4>2 DEF SaidInv
      <4>6. PICK id \in Ids : id = m.id
        BY <4>4 DEF TypeOK
      <4>7. id \notin Repeats(sent) /\ Answers(sent') = Answers(sent) \cup {id}
        BY <3>4, <3>5, <3>6, <4>1, <4>5, <4>6
      <4>8. CASE id \notin Answers(sent)
        <5>1. Repeats(sent') = Repeats(sent)
          BY <3>5, <3>6, <4>6, <4>8
        <5>2. id \in Held /\ Held' = Held \ {id}
          BY <2>2, <3>2, <4>4, <4>6, <4>7, <4>8, HeldFailed DEF WhileOpen
        <5>3. Failed' = Failed
          BY <3>2, <5>1, HeldFailed DEF WhileOpen
        <5>4. Promise!Answer(id)
          BY <3>2, <3>3, <4>6, <5>2, <5>3 DEF Promise!Answer, Held, Failed, Stream
        <5> QED
          BY <5>4 DEF Promise!Next
      <4>9. CASE id \in Answers(sent)
        <5>1. Repeats(sent') = Repeats(sent) \cup {id} /\ Answers(sent') = Answers(sent)
          BY <3>5, <3>6, <4>6, <4>7, <4>9
        <5>2. id \in Queued(R) /\ id \in Said(Flow1) \cup Said(Flow2) /\ id \notin Said(R)
          BY <3>4, <4>3, <4>5, <4>6, <4>9
        <5>3. id \in Given(Flow1) \cap Given(Flow2)
          BY <4>1, <5>2 DEF Given
        <5>4. id \in doubled
          BY <3>4, <5>3 DEF BothInv, Flow1, Flow2
        <5>5. id \in Failed /\ Failed' = Failed \ {id}
          BY <2>2, <3>2, <4>7, <5>1, <5>4, HeldFailed DEF WhileOpen
        <5>6. id \notin Held /\ Held' = Held
          BY <2>2, <3>2, <4>9, <5>1, HeldFailed DEF WhileOpen
        <5>7. Promise!AnswerAgain(id)
          BY <3>2, <3>3, <4>6, <5>5, <5>6 DEF Promise!AnswerAgain, Held, Failed, Stream
        <5> QED
          BY <5>7 DEF Promise!Next
      <4> QED
        BY <4>8, <4>9
    <3>7. CASE m.type # "req_res"
      <4>1. m \in Publications
        BY <3>1, <3>7 DEF Publications, Message
      <4>2. m.id \in Heard
        <5>1. m.id \in IdsOf(write_queue, Publications)
          BY <3>a, <4>1 DEF IdsOf
        <5> QED
          BY <3>4, <5>1 DEF PubInv
      <4>3. m.id = 0 /\ subscribed
        BY <4>2 DEF Heard
      <4>4. Held' = Held /\ Failed' = Failed
        BY <3>2, <3>5, <3>7, HeldFailed DEF WhileOpen
      <4>5. Promise!Publish
        BY <2>2, <3>2, <3>3, <4>3, <4>4 DEF Promise!Publish, Held, Failed, Stream
      <4> QED
        BY <4>5 DEF Promise!Next
    <3> QED
      BY <3>6, <3>7
  <2> QED
    BY <2>1, <2>2
<1>3. ASSUME NEW kind \in Kinds, ClientSends(kind)
      PROVE  [Promise!Next]_(Promise!vars)
  <2> DEFINE n == spent["frames"]
  <2>1. /\ sock = "open" /\ UNCHANGED <<sock, sent, doubled, subscribed>>
        /\ n \in Nat /\ n < MaxFrames /\ spent'["frames"] = n + 1
    BY <1>3 DEF ClientSends, Spend, TypeOK
  <2>2. CASE kind # "request"
    <3>1. asked' = asked
      BY <1>3, <2>2 DEF ClientSends
    <3> QED
      BY <1>s, <2>1, <3>1
  <2>3. CASE kind = "request"
    <3>1. asked' = asked \cup {n + 1}
      BY <1>3, <2>1, <2>3 DEF ClientSends
    <3>2. /\ PlaceInv(Flow1) /\ PlaceInv(Flow2) /\ PubInv
          /\ Answers(sent) = Said(Flow1) \cup Said(Flow2)
      BY <1>k, <2>1
    <3>3. asked \subseteq 1 .. n /\ Said(Flow1) \cup Said(Flow2) \subseteq asked
      BY <3>2 DEF PlaceInv, Places
    <3>4. n + 1 \notin asked /\ n + 1 \in Ids /\ n + 1 # 0
      BY <2>1, <3>3, BoundAssumption DEF Ids
    <3>5. n + 1 \notin Answers(sent)
      BY <3>2, <3>3, <3>4
    <3>6. \A i \in DOMAIN sent : sent[i].id # n + 1
      <4> SUFFICES ASSUME NEW i \in DOMAIN sent, sent[i].id = n + 1 PROVE FALSE
        OBVIOUS
      <4>1. sent[i] \in Message
        BY DEF TypeOK
      <4>2. CASE sent[i].type = "req_res"
        BY <3>5, <4>2 DEF Answers
      <4>3. CASE sent[i] \in Publications
        <5>1. n + 1 \in IdsOf(sent, Publications)
          BY <4>3 DEF IdsOf
        <5>2. n + 1 \in Heard
          BY <3>2, <5>1 DEF PubInv
        <5> QED
          BY <3>4, <5>2 DEF Heard
      <4> QED
        BY <4>1, <4>2, <4>3 DEF Publications, Message
    <3> HIDE DEF n
    <3>7. Failed' = Failed
      BY <2>1, HeldFailed DEF WhileOpen
    <3>8. n + 1 \notin Held /\ Held' = Held \cup {n + 1}
      BY <2>1, <3>1, <3>4, <3>5, HeldFailed DEF WhileOpen
    <3>9. Stream' = Stream /\ \A i \in DOMAIN Stream : Stream[i] # n + 1
      BY <2>1, <3>6 DEF Stream
    <3>10. Promise!Ask(n + 1)
      BY <2>1, <3>7, <3>8, <3>9 DEF Promise!Ask, Held, Failed, Stream
    <3> QED
      BY <3>4, <3>10 DEF Promise!Next
  <2> QED
    BY <2>2, <2>3
<1>4. CASE OnRequest
  <2>1. UNCHANGED <<sent, asked, subscribed, sock>>
    BY <1>4 DEF OnRequest
  <2>2. CASE doubled' = doubled \/ sock # "open"
    BY <1>s, <2>1, <2>2
  <2>3. CASE doubled' = doubled \cup {req_id} /\ sock = "open"
    <3>1. /\ PlaceInv(Flow1) /\ PlaceInv(Flow2)
          /\ Answers(sent) = Said(Flow1) \cup Said(Flow2)
          /\ Repeats(sent) \subseteq Said(Flow1) \cap Said(Flow2)
      BY <1>k, <2>3
    <3>2. req_id \in Current
      BY <1>4, <2>3, ServedIsCurrent
    <3>3. req_id \in asked /\ req_id \notin Answers(sent) /\ req_id \notin Repeats(sent)
      BY <3>1, <3>2 DEF PlaceInv, Places
    <3>4. PICK id \in Ids : id = req_id
      BY <3>3 DEF TypeOK
    <3>6. id \in Held /\ Held' = Held
      BY <2>1, <2>3, <3>3, <3>4, HeldFailed DEF WhileOpen
    <3>7. Failed' = Failed \cup {id}
      BY <2>1, <2>3, <3>3, <3>4, HeldFailed DEF WhileOpen
    <3>8. Stream' = Stream
      BY <2>1 DEF Stream
    <3>9. Promise!Fail(id)
      BY <2>1, <3>6, <3>7, <3>8 DEF Promise!Fail, Held, Failed, Stream
    <3> QED
      BY <3>9 DEF Promise!Next
  <2> QED
    BY <1>4, <2>2, <2>3, RequestAnswers
<1>5. CASE HandlerNext
  <2>1. CASE ~OnSubscription /\ ~OnRequest
    <3>1. UNCHANGED <<asked, doubled, sent, subscribed>>
      BY <1>5, <2>1 DEF HandlerNext, Start, OnHeadFailed, OnAlienHead, OnHead, OnBodyFailed,
         OnWritten, OnWriteFailed, OnTimer, Respond
    <3> QED
      BY <1>s, <3>1
  <2> QED
    BY <1>1, <1>4, <2>1
<1>6. ASSUME \/ \E m \in answering : RespondLater(m)
             \/ Publish \/ TimerExpires \/ ReadNext \/ LinkDrops \/ UNCHANGED vars
      PROVE  [Promise!Next]_(Promise!vars)
  <2>1. UNCHANGED <<asked, doubled, sent, subscribed>>
    BY <1>6 DEF RespondLater, Publish, TimerExpires, ReadNext, HeadCompletes, BodyCompletes,
       ReadFails, LinkDrops, vars
  <2> QED
    BY <1>s, <2>1
<1> QED
  BY <1>2, <1>3, <1>5, <1>6 DEF Next

\* For any number of frames, threads, publications and failures, and however
\* late an asynchronous function throws, what the far end is sent is what PeerEnd
\* promises: an answer only to a request it holds, a second one only to a request
\* that failed once it was handed on, and publications only after a subscription.
THEOREM PeerPromiseKept == Spec => PromiseKept
<1>1. Init => Promise!Init /\ ReadInv /\ MatchInv /\ PromiseInv
  BY PromiseInit, InitReads, InitMatches, InitPromise
<1>2. /\ TypeOK /\ OneWrite /\ ReadInv /\ MatchInv /\ PromiseInv /\ [Next]_vars
      => ReadInv' /\ MatchInv' /\ PromiseInv'
  BY NextReads, NextMatches, NextPromiseInv
<1>3. TypeOK /\ OneWrite /\ ReadInv /\ PromiseInv /\ [Next]_vars => [Promise!Next]_(Promise!vars)
  BY PromiseStep
<1> QED
  BY <1>1, <1>2, <1>3, TypesAndOneWrite, PTL DEF Spec, PromiseKept, Promise!Spec

=============================================================================
