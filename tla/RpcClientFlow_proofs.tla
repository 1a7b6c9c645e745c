------------------------ MODULE RpcClientFlow_proofs ------------------------
(****************************************************************************)
(* How messages flow through the client: that the callers, the heartbeat,   *)
(* the write handler, failures and reconnects, in any order, leave at most  *)
(* one async_write under way, of the outbox's front, and leave no message   *)
(* waiting for a write that nobody started.  What else happens is the whole *)
(* of what it takes: clear_cache, for the first, and the handler of a       *)
(* failed write, for the second.                                            *)
(****************************************************************************)
EXTENDS RpcClient_proofs

-----------------------------------------------------------------------------
(* Counting the writes, under way or with their handlers to come, of the   *)
(* messages in K                                                           *)

WritesOf(K)    == {c \in Ops({"write"}) : c.msg \in K}
Sends(w, q, K) == Count(w, K) + Count(q, WritesOf(K))

\* What holds of the writes under way, with their handlers, and of the outbox
FrontAlone(w, q, o) ==
    \/ Sends(w, q, Message) = 0
    \/ /\ Sends(w, q, Message) = 1 /\ o # <<>>
       /\ Sends(w, q, Message \ {Head(o)}) = 0
Served(w, q, o) == o = <<>> \/ Sends(w, q, Message) > 0

LEMMA SendsType ==
    ASSUME NEW w \in Seq(Message), NEW q \in Seq(Completion), NEW K
    PROVE  /\ q \in Seq(Item) /\ Sends(w, q, K) \in Nat
           /\ Count(w, K) \in Nat /\ Count(q, WritesOf(K)) \in Nat
<1>1. q \in Seq(Item)
  BY SeqItems
<1> QED
  BY <1>1, CountType DEF Sends

LEMMA SendsFewer ==
    ASSUME NEW w \in Seq(Message), NEW q \in Seq(Completion), NEW K, NEW L \in SUBSET K,
           Sends(w, q, K) = 0
    PROVE  Sends(w, q, L) = 0
<1>1. /\ Count(w, K) \in Nat /\ Count(q, WritesOf(K)) \in Nat /\ q \in Seq(Item)
      /\ Count(w, K) + Count(q, WritesOf(K)) = 0
  BY SendsType DEF Sends
<1>2. Count(w, K) = 0 /\ Count(q, WritesOf(K)) = 0
  BY ONLY <1>1
<1>3. \A i \in DOMAIN w : w[i] \notin L
  <2>1. \A i \in DOMAIN w : w[i] \notin K
    BY <1>2, CountType
  <2> QED
    BY <2>1
<1>4. \A i \in DOMAIN q : q[i] \notin WritesOf(L)
  <2>1. \A i \in DOMAIN q : q[i] \notin WritesOf(K)
    BY <1>1, <1>2, CountType
  <2>2. WritesOf(L) \subseteq WritesOf(K)
    BY DEF WritesOf
  <2> QED
    BY <2>1, <2>2
<1>5. Count(w, L) = 0 /\ Count(q, WritesOf(L)) = 0
  BY <1>1, <1>3, <1>4, CountNone
<1> QED
  BY <1>5 DEF Sends

LEMMA OneWriteOf ==
    ASSUME NEW K
    PROVE  /\ \A c \in Item : One(c, WritesOf(K)) = IF c.op = "write" /\ c.msg \in K
                                                   THEN 1 ELSE 0
           /\ \A m : One(m, K) = IF m \in K THEN 1 ELSE 0
BY DEF One, WritesOf, Ops, Item

\* A sequence holds at most one element of K when it is counted once.
LEMMA CountUnique ==
    ASSUME NEW S, NEW s \in Seq(S), NEW K
    PROVE  Count(s, K) <= 1 <=> \A i, j \in DOMAIN s : s[i] \in K /\ s[j] \in K => i = j
<1>1. IsFiniteSet(Places(s, K)) /\ Count(s, K) \in Nat
  BY CountType
<1>2. Count(s, K) <= 1 <=> Count(s, K) = 0 \/ Count(s, K) = 1
  BY ONLY <1>1
<1>3. Count(s, K) = 0 <=> Places(s, K) = {}
  BY <1>1, FS_EmptySet DEF Count
<1>4. Count(s, K) = 1 <=> \E i : Places(s, K) = {i}
  BY <1>1, FS_Singleton DEF Count
<1>5. /\ \A i \in Places(s, K) : i \in DOMAIN s /\ s[i] \in K
      /\ \A i \in DOMAIN s : s[i] \in K => i \in Places(s, K)
  BY DEF Places
<1> HIDE DEF Places, Count
<1>6. (\A i, j \in DOMAIN s : s[i] \in K /\ s[j] \in K => i = j)
      <=> \A i, j \in Places(s, K) : i = j
  BY <1>5
<1>7. (\A i, j \in Places(s, K) : i = j) <=> Places(s, K) = {} \/ \E i : Places(s, K) = {i}
  OBVIOUS
<1> QED
  BY <1>2, <1>3, <1>4, <1>6, <1>7

-----------------------------------------------------------------------------
(* The two properties in terms of the counts                               *)

FrontOf(o, m) == o # <<>> /\ Head(o) = m
DoneOf(q)     == {i \in DOMAIN q : q[i].op = "write"}

LEMMA QueuedWrites ==
    ASSUME NEW q \in Seq(Completion), NEW K
    PROVE  /\ \A i \in DOMAIN q : q[i] \in WritesOf(K) <=> q[i].op = "write" /\ q[i].msg \in K
           /\ \A i \in DOMAIN q : q[i].msg \in Message
<1>1. \A i \in DOMAIN q : q[i] \in Completion /\ q[i] \in Item
  BY ElementOfSeq, LenProperties, Items
<1> QED
  BY <1>1 DEF WritesOf, Ops, Item

LEMMA AloneCounts ==
    ASSUME NEW w \in Seq(Message), NEW q \in Seq(Completion), NEW o \in Seq(Message)
    PROVE  FrontAlone(w, q, o)
             <=> /\ \A i \in DOMAIN w : i = 1 /\ FrontOf(o, w[i]) /\ DoneOf(q) = {}
                 /\ \A i, j \in DoneOf(q) : i = j /\ FrontOf(o, q[i].msg)
<1> DEFINE W(K) == Count(w, K)
           Q(K) == Count(q, WritesOf(K))
           B    == Message \ {Head(o)}
<1>1. /\ \A K : W(K) \in Nat /\ Q(K) \in Nat
      /\ \A K : Sends(w, q, K) = W(K) + Q(K)
      /\ q \in Seq(Item)
  BY SendsType DEF Sends
<1>2. \A i \in DOMAIN w : w[i] \in Message
  BY ElementOfSeq, LenProperties
<1>3. /\ W(Message) = 0 <=> DOMAIN w = {}
      /\ W(Message) <= 1 <=> \A i, j \in DOMAIN w : i = j
      /\ W(B) = 0 <=> \A i \in DOMAIN w : w[i] = Head(o)
  <2>1. W(Message) = 0 <=> \A i \in DOMAIN w : w[i] \notin Message
    BY CountType
  <2>2. W(Message) <= 1 <=> \A i, j \in DOMAIN w : w[i] \in Message /\ w[j] \in Message => i = j
    BY CountUnique
  <2>3. W(B) = 0 <=> \A i \in DOMAIN w : w[i] \notin B
    BY CountType
  <2>4. (\A i \in DOMAIN w : w[i] \notin B) <=> \A i \in DOMAIN w : w[i] = Head(o)
    BY <1>2
  <2>5. (\A i \in DOMAIN w : w[i] \notin Message) <=> DOMAIN w = {}
    BY <1>2
  <2>6. (\A i, j \in DOMAIN w : w[i] \in Message /\ w[j] \in Message => i = j)
        <=> \A i, j \in DOMAIN w : i = j
    BY <1>2
  <2> QED
    BY ONLY <2>1, <2>2, <2>3, <2>4, <2>5, <2>6
<1>4. /\ Q(Message) = 0 <=> DoneOf(q) = {}
      /\ Q(Message) <= 1 <=> \A i, j \in DoneOf(q) : i = j
      /\ Q(B) = 0 <=> \A i \in DoneOf(q) : q[i].msg = Head(o)
  <2>0. /\ \A K : \A i \in DOMAIN q : q[i] \in WritesOf(K) <=> q[i].op = "write" /\ q[i].msg \in K
        /\ \A i \in DOMAIN q : q[i].msg \in Message
    BY QueuedWrites
  <2>1. Q(Message) = 0 <=> \A i \in DOMAIN q : q[i] \notin WritesOf(Message)
    BY <1>1, CountType
  <2>2. Q(Message) <= 1
        <=> \A i, j \in DOMAIN q : q[i] \in WritesOf(Message) /\ q[j] \in WritesOf(Message) => i = j
    BY <1>1, CountUnique
  <2>3. Q(B) = 0 <=> \A i \in DOMAIN q : q[i] \notin WritesOf(B)
    BY <1>1, CountType
  <2>4. (\A i \in DOMAIN q : q[i] \notin WritesOf(B)) <=> \A i \in DoneOf(q) : q[i].msg = Head(o)
    <3>1. \A i \in DOMAIN q : q[i].msg \in B <=> q[i].msg # Head(o)
      BY <2>0
    <3>2. \A i : i \in DoneOf(q) <=> i \in DOMAIN q /\ q[i].op = "write"
      BY DEF DoneOf
    <3> QED
      BY ONLY <2>0, <3>1, <3>2
  <2>5. (\A i \in DOMAIN q : q[i] \notin WritesOf(Message)) <=> DoneOf(q) = {}
    BY <2>0 DEF DoneOf
  <2>6. (\A i, j \in DOMAIN q : q[i] \in WritesOf(Message) /\ q[j] \in WritesOf(Message) => i = j)
        <=> \A i, j \in DoneOf(q) : i = j
    <3>1. /\ \A i \in DOMAIN q : q[i] \in WritesOf(Message) <=> i \in DoneOf(q)
          /\ \A i \in DoneOf(q) : i \in DOMAIN q
      BY <2>0 DEF DoneOf
    <3> QED
      BY ONLY <3>1
  <2> QED
    BY ONLY <2>1, <2>2, <2>3, <2>4, <2>5, <2>6
<1>5. DOMAIN w = 1 .. Len(w) /\ Len(w) \in Nat
  BY LenProperties
<1>6. (\A i, j \in DOMAIN w : i = j) <=> \A i \in DOMAIN w : i = 1
  <2>1. \A i \in DOMAIN w : 1 \in DOMAIN w
    BY <1>5
  <2> QED
    BY ONLY <2>1
<1>0. /\ Sends(w, q, Message) = W(Message) + Q(Message)
      /\ Sends(w, q, B) = W(B) + Q(B)
      /\ FrontAlone(w, q, o) <=> \/ Sends(w, q, Message) = 0
                                \/ /\ Sends(w, q, Message) = 1 /\ o # <<>>
                                   /\ Sends(w, q, B) = 0
  BY <1>1 DEF FrontAlone
<1>8. /\ \A i \in DOMAIN w : FrontOf(o, w[i]) <=> o # <<>> /\ w[i] = Head(o)
      /\ \A i \in DoneOf(q) : FrontOf(o, q[i].msg) <=> o # <<>> /\ q[i].msg = Head(o)
  BY DEF FrontOf
<1> DEFINE D == DOMAIN w
           E == DoneOf(q)
           wf == \A i \in D : w[i] = Head(o)
           ef == \A i \in E : q[i].msg = Head(o)
           some == o # <<>>
<1>9. (/\ \A i \in DOMAIN w : i = 1 /\ FrontOf(o, w[i]) /\ DoneOf(q) = {}
       /\ \A i, j \in DoneOf(q) : i = j /\ FrontOf(o, q[i].msg))
      <=> /\ D = {} \/ ((\A i \in D : i = 1) /\ some /\ wf /\ E = {})
          /\ E = {} \/ ((\A i, j \in E : i = j) /\ some /\ ef)
  <2>1. (\A i \in D : i = 1 /\ FrontOf(o, w[i]) /\ E = {})
        <=> D = {} \/ ((\A i \in D : i = 1) /\ some /\ wf /\ E = {})
    BY <1>8
  <2>2. (\A i, j \in E : i = j /\ FrontOf(o, q[i].msg))
        <=> E = {} \/ ((\A i, j \in E : i = j) /\ some /\ ef)
    BY <1>8
  <2> QED
    BY ONLY <2>1, <2>2
<1> HIDE DEF W, Q, B
<1>7. FrontAlone(w, q, o)
        <=> \/ W(Message) = 0 /\ Q(Message) = 0
            \/ /\ o # <<>> /\ W(B) = 0 /\ Q(B) = 0
               /\ \/ W(Message) = 0 /\ Q(Message) <= 1
                  \/ W(Message) <= 1 /\ Q(Message) = 0
  <2>1. FrontAlone(w, q, o)
          <=> \/ W(Message) + Q(Message) = 0
              \/ o # <<>> /\ W(B) + Q(B) = 0 /\ W(Message) + Q(Message) = 1
    BY ONLY <1>0
  <2>2. /\ W(Message) = 0 => W(B) = 0
        /\ Q(Message) = 0 => Q(B) = 0
    BY <1>3, <1>4
  <2>3. W(Message) \in Nat /\ Q(Message) \in Nat /\ W(B) \in Nat /\ Q(B) \in Nat
    BY <1>1
  <2> QED
    BY ONLY <2>1, <2>2, <2>3
<1>10. FrontAlone(w, q, o)
         <=> \/ D = {} /\ E = {}
             \/ /\ some /\ wf /\ ef
                /\ \/ D = {} /\ \A i, j \in E : i = j
                   \/ (\A i \in D : i = 1) /\ E = {}
  BY ONLY <1>3, <1>4, <1>6, <1>7
<1>11. (D = {} => wf /\ \A i \in D : i = 1) /\ (E = {} => ef /\ \A i, j \in E : i = j)
  OBVIOUS
<1> HIDE DEF D, E, wf, ef, some
<1> QED
  BY ONLY <1>9, <1>10, <1>11

LEMMA ServedCounts ==
    ASSUME NEW w \in Seq(Message), NEW q \in Seq(Completion), NEW o
    PROVE  Served(w, q, o) <=> (o # <<>> => w # <<>> \/ DoneOf(q) # {})
<1>1. /\ q \in Seq(Item) /\ Count(w, Message) \in Nat
      /\ Count(q, WritesOf(Message)) \in Nat
  BY SendsType
<1>2. Count(w, Message) > 0 <=> w # <<>>
  <2>1. \A i \in DOMAIN w : w[i] \in Message
    BY ElementOfSeq, LenProperties
  <2>2. w # <<>> <=> \E i \in DOMAIN w : TRUE
    <3>1. w # <<>> <=> Len(w) # 0
      BY EmptySeq
    <3> QED
      BY <3>1, LenProperties
  <2> QED
    BY <2>1, <2>2, CountType
<1>3. Count(q, WritesOf(Message)) > 0 <=> DoneOf(q) # {}
  BY <1>1, QueuedWrites, CountType DEF DoneOf
<1> QED
  BY <1>1, <1>2, <1>3 DEF Served, Sends

-----------------------------------------------------------------------------
(* Queues that hold the writes' handlers they held                         *)

\* q holds the writes' handlers of ready.
SameWrites(q) == /\ q \in Seq(Item)
                 /\ \A K : Count(q, WritesOf(K)) = Count(ready, WritesOf(K))

LEMMA ReadyWrites == ASSUME TypeOK PROVE SameWrites(ready)
BY SeqItems DEF SameWrites, TypeOK

LEMMA AppendedWrites ==
    ASSUME TypeOK, NEW q, SameWrites(q), NEW c \in Completion, c.op # "write"
    PROVE  SameWrites(Append(q, c))
<1>1. c \in Item
  BY Items
<1>2. ASSUME NEW K PROVE Count(Append(q, c), WritesOf(K)) = Count(ready, WritesOf(K))
  <2>1. Count(Append(q, c), WritesOf(K)) = Count(q, WritesOf(K)) + One(c, WritesOf(K))
    BY <1>1, CountAppend DEF SameWrites
  <2>2. One(c, WritesOf(K)) = 0 /\ Count(q, WritesOf(K)) \in Nat
    BY <1>1, OneWriteOf, CountType DEF SameWrites
  <2> QED
    BY <2>1, <2>2 DEF SameWrites
<1>3. Append(q, c) \in Seq(Item)
  BY <1>1, AppendProperties DEF SameWrites
<1> QED
  BY <1>2, <1>3 DEF SameWrites

LEMMA TailWrites ==
    ASSUME TypeOK, ready # <<>>
    PROVE  /\ Tail(ready) \in Seq(Item) /\ Head(ready) \in Item /\ Head(ready).msg \in Message
           /\ \A K : /\ Count(Tail(ready), WritesOf(K)) \in Nat
                     /\ Count(ready, WritesOf(K))
                          = One(Head(ready), WritesOf(K)) + Count(Tail(ready), WritesOf(K))
           /\ Head(ready).op # "write" => SameWrites(Tail(ready))
<1>1. ready \in Seq(Item) /\ Head(ready) \in Item /\ Tail(ready) \in Seq(Item)
  BY SeqItems, NumTail DEF TypeOK
<1>2. \A K : /\ Count(Tail(ready), WritesOf(K)) \in Nat
             /\ Count(ready, WritesOf(K))
                  = One(Head(ready), WritesOf(K)) + Count(Tail(ready), WritesOf(K))
  BY <1>1, CountTail, CountType
<1>3. Head(ready).op # "write" => SameWrites(Tail(ready))
  BY <1>1, <1>2, OneWriteOf DEF SameWrites
<1> QED
  BY <1>1, <1>2, <1>3, HandledMessage

LEMMA FrontWrites ==
    ASSUME TypeOK, NEW q, SameWrites(q), NEW c \in Completion, c.op # "write"
    PROVE  SameWrites(<<c>> \o q)
<1> DEFINE one == <<c>>
<1>1. c \in Item
  BY Items
<1>2. /\ one \in Seq(Item)
      /\ \A K : Count(one, WritesOf(K)) = 0
  BY <1>1, SequenceOfOne, CountOne, OneWriteOf
<1> HIDE DEF one
<1>3. /\ one \o q \in Seq(Item)
      /\ \A K : Count(one \o q, WritesOf(K)) = Count(one, WritesOf(K)) + Count(q, WritesOf(K))
  BY <1>2, CountConcat, ConcatProperties DEF SameWrites
<1>4. \A K : Count(ready, WritesOf(K)) \in Nat
  BY SendsType DEF TypeOK
<1>5. SameWrites(one \o q)
  BY <1>2, <1>3, <1>4 DEF SameWrites
<1> QED
  BY <1>5 DEF one

-----------------------------------------------------------------------------
(* The writes that fail together only move into the queue.                 *)

LEMMA FailedWrites ==
    ASSUME NEW s \in Seq(Message)
    PROVE  LET failed == [i \in DOMAIN s |-> Done("write", s[i], TRUE)]
           IN  /\ failed \in Seq(Item)
               /\ \A K : Count(failed, WritesOf(K)) = Count(s, K)
<1> DEFINE failed == [i \in DOMAIN s |-> Done("write", s[i], TRUE)]
<1>1. failed \in Seq(Completion) /\ failed \in Seq(Item)
  BY WriteFailures, SeqItems
<1>2. DOMAIN failed = DOMAIN s
      /\ \A i \in DOMAIN s : failed[i].op = "write" /\ failed[i].msg = s[i]
  BY DEF Done
<1> HIDE DEF failed
<1>3. \A K : Places(failed, WritesOf(K)) = Places(s, K)
  BY <1>1, <1>2, QueuedWrites DEF Places
<1> QED
  BY <1>1, <1>3 DEF Count, failed

LEMMA FailedReads ==
    ASSUME NEW s \in Seq(Read)
    PROVE  LET failed == [i \in DOMAIN s |-> Failed(s[i])]
           IN  /\ failed \in Seq(Item)
               /\ \A K : Count(failed, WritesOf(K)) = 0
<1> DEFINE failed == [i \in DOMAIN s |-> Failed(s[i])]
<1>1. failed \in Seq(Completion) /\ failed \in Seq(Item)
  BY ReadFailures, SeqItems
<1>2. \A i \in DOMAIN failed : failed[i].op # "write"
  <2>1. \A i \in DOMAIN s : s[i] \in Read
    BY ElementOfSeq, LenProperties
  <2> QED
    BY <2>1 DEF Failed, Done, Read
<1> HIDE DEF failed
<1>3. \A K : \A i \in DOMAIN failed : failed[i] \notin WritesOf(K)
  BY <1>1, <1>2, QueuedWrites
<1>4. \A K : Count(failed, WritesOf(K)) = 0
  BY <1>1, <1>3, CountNone
<1> QED
  BY <1>1, <1>4 DEF failed

LEMMA CancelledWrites ==
    ASSUME TypeOK
    PROVE  /\ Cancelled \in Seq(Item)
           /\ \A K : Count(Cancelled, WritesOf(K)) = Count(writing, K)
<1> DEFINE reads    == [i \in DOMAIN reader |-> Failed(reader[i])]
           connects == IF sock = "connecting"
                       THEN <<Done("connect", NoMessage, TRUE)>> ELSE <<>>
           writes   == [i \in DOMAIN writing |-> Done("write", writing[i], TRUE)]
<1>1. reads \in Seq(Item) /\ \A K : Count(reads, WritesOf(K)) = 0
  BY FailedReads DEF TypeOK
<1>2. connects \in Seq(Item) /\ \A K : Count(connects, WritesOf(K)) = 0
  <2> DEFINE d == Done("connect", NoMessage, TRUE)
  <2>1. d \in Item /\ d.op = "connect"
    BY Constructors, Items DEF Done
  <2>2. connects = <<d>> \/ connects = <<>>
    OBVIOUS
  <2> HIDE DEF d, connects
  <2>3. <<d>> \in Seq(Item) /\ \A K : Count(<<d>>, WritesOf(K)) = 0
    BY <2>1, SequenceOfOne, CountOne, OneWriteOf
  <2> QED
    BY <2>2, <2>3, CountEmpty, EmptySeq
<1>3. writes \in Seq(Item) /\ \A K : Count(writes, WritesOf(K)) = Count(writing, K)
  BY FailedWrites DEF TypeOK
<1> HIDE DEF reads, connects, writes
<1>4. reads \o connects \in Seq(Item) /\ \A K : Count(reads \o connects, WritesOf(K)) = 0
  BY <1>1, <1>2, CountConcat, ConcatProperties
<1> DEFINE first == reads \o connects
<1>5. /\ first \o writes \in Seq(Item)
      /\ \A K : Count(first \o writes, WritesOf(K)) = 0 + Count(writing, K)
  <2>1. first \in Seq(Item) /\ \A K : Count(first, WritesOf(K)) = 0
    BY <1>4
  <2> HIDE DEF first
  <2> QED
    BY <1>3, <2>1, CountConcat, ConcatProperties
<1>6. \A K : Count(writing, K) \in Nat
  BY CountType DEF TypeOK
<1>7. Cancelled = (reads \o connects) \o writes
  BY DEF Cancelled, reads, connects, writes
<1> QED
  BY <1>5, <1>6, <1>7

-----------------------------------------------------------------------------
(* Most steps leave the outbox and its writes as they are: a write that is *)
(* under way may move into the queue with its handler.                     *)

Kept == /\ outbox' = outbox
        /\ \A K : Sends(writing', ready', K) = Sends(writing, ready, K)

LEMMA KeptQueue ==
    ASSUME TypeOK, TypeOK', SameWrites(ready'), UNCHANGED <<outbox, writing>>
    PROVE  Kept
BY DEF Kept, Sends, SameWrites

LEMMA KeptAbandoned ==
    ASSUME TypeOK, TypeOK', NEW state, NEW q, SameWrites(q), AbandonSocket(state, q),
           UNCHANGED outbox
    PROVE  Kept
<1>1. /\ writing' = <<>> /\ ready' = q \o Cancelled
      /\ Cancelled \in Seq(Item) /\ q \in Seq(Item)
      /\ \A K : Count(Cancelled, WritesOf(K)) = Count(writing, K)
      /\ \A K : Count(q, WritesOf(K)) = Count(ready, WritesOf(K))
  BY CancelledWrites DEF AbandonSocket, SameWrites
<1>2. ASSUME NEW K PROVE Sends(writing', ready', K) = Sends(writing, ready, K)
  <2>1. Count(ready', WritesOf(K)) = Count(q, WritesOf(K)) + Count(Cancelled, WritesOf(K))
    BY <1>1, CountConcat
  <2>2. Count(writing', K) = 0
    BY <1>1, CountEmpty
  <2>3. Count(writing, K) \in Nat /\ Count(ready, WritesOf(K)) \in Nat
    BY SendsType DEF TypeOK
  <2> QED
    BY <1>1, <2>1, <2>2, <2>3 DEF Sends
<1> QED
  BY <1>2 DEF Kept

LEMMA KeptRead ==
    ASSUME TypeOK, TypeOK', NEW r \in Read, NEW q, SameWrites(q), StartRead(r, q),
           UNCHANGED <<outbox, writing>>
    PROVE  Kept
<1>1. \A c \in ReadResults(r) : c \in Completion /\ c.op # "write"
  <2>1. \A c \in ReadResults(r) : c \in Completion /\ c.op = r.op
    BY ReadResultsType, ReadResultOp
  <2> QED
    BY <2>1, ReadDone
<1>2. Done(r.op, r.msg, TRUE) \in Completion /\ Done(r.op, r.msg, TRUE).op # "write"
  <2>1. Failed(r) \in Completion /\ Failed(r).op = r.op /\ r.op # "write"
    BY ReadDone DEF Failed, Done
  <2> QED
    BY <2>1 DEF Failed
<1>3. \/ ready' = q
      \/ \E c \in Completion : c.op # "write" /\ ready' = Append(q, c)
  BY <1>1, <1>2 DEF StartRead
<1>4. SameWrites(ready')
  BY <1>3, AppendedWrites
<1> QED
  BY <1>4, KeptQueue

LEMMA KeptUser ==
    ASSUME TypeOK, TypeOK', NEW u \in Users, UserNext(u) \/ Stop(u)
    PROVE  Kept
<1>1. /\ Done("connect", NoMessage, TRUE) \in Completion
      /\ Done("connect", NoMessage, TRUE).op # "write"
  BY Constructors DEF Done
<1>2. /\ UNCHANGED <<outbox, writing>>
      /\ ready' = ready \/ ready' = Append(ready, Done("connect", NoMessage, TRUE))
  BY DEF UserNext, AsyncCallFuture, AsyncCallCallback, RegisterCallback, Subscribe,
     RecordToken, Connect, UserClose, Destroy, Stop, sockVars
<1>3. SameWrites(ready')
  BY <1>1, <1>2, ReadyWrites, AppendedWrites
<1> QED
  BY <1>2, <1>3, KeptQueue

LEMMA KeptShared ==
    ASSUME TypeOK, TypeOK', NEW t \in Threads, Close(t) \/ ClearMaps(t) \/ ErrorCallback(t)
    PROVE  Kept
<1>1. /\ UNCHANGED outbox
      /\ \/ UNCHANGED <<writing, ready>>
         \/ \E state \in {"closed", "connecting"} : AbandonSocket(state, ready)
  BY DEF Close, ClearMaps, ErrorCallback, AsyncReconnect, sockVars
<1> QED
  BY <1>1, ReadyWrites, KeptQueue, KeptAbandoned

LEMMA KeptHandler ==
    ASSUME TypeOK, TypeOK', HandlerNext, ~OnWritten, ~OnWriteFailed
    PROVE  Kept
<1>1. CASE OnHead
  <2>1. ready # <<>> /\ Head(ready).op = "head"
    BY <1>1 DEF OnHead, Handles
  <2>2. SameWrites(Tail(ready)) /\ BodyRead(Head(ready).msg) \in Read
    BY <2>1, TailWrites, Constructors
  <2> QED
    BY <1>1, <2>2, KeptRead DEF OnHead
<1>2. CASE DoRead
  BY <1>2, KeptRead, ReadyWrites, Constructors DEF DoRead
<1>3. CASE FailCallbacks \/ CallBack
  BY <1>3, ReadyWrites, KeptQueue DEF FailCallbacks, CallBack, sockVars
<1>4. CASE OnConnectFailed
  <2>1. ready # <<>> /\ Head(ready).op = "connect" /\ UNCHANGED outbox
    BY <1>4 DEF OnConnectFailed, Handles
  <2>2. SameWrites(Tail(ready))
    BY <2>1, TailWrites
  <2>3. \/ ready' = Tail(ready) /\ UNCHANGED writing
        \/ AbandonSocket("connecting", Tail(ready))
    BY <1>4 DEF OnConnectFailed, AsyncReconnect, sockVars
  <2> QED
    BY <2>1, <2>2, <2>3, KeptQueue, KeptAbandoned
<1>5. CASE \/ OnConnectIgnored \/ \E o \in Orders : OnConnected(o)
           \/ OnHeadClosed \/ OnHeadFailed
           \/ OnBodyClosed \/ OnBody \/ OnBodyFailed
  <2>1. /\ ready # <<>> /\ Head(ready).op # "write"
        /\ ready' = Tail(ready) /\ UNCHANGED <<outbox, writing>>
    BY <1>5 DEF OnConnectIgnored, OnConnected, OnHeadClosed, OnHeadFailed, OnBodyClosed,
       OnBody, OnBodyFailed, Handles, sockVars
  <2> QED
    BY <2>1, TailWrites, KeptQueue
<1> QED
  BY <1>1, <1>2, <1>3, <1>4, <1>5 DEF HandlerNext

LEMMA KeptReactor ==
    ASSUME TypeOK, TypeOK', PollNothing \/ PollReports \/ EventStale
    PROVE  Kept
<1>1. /\ Poll \in Completion /\ Poll.op # "write"
      /\ Event \in Completion /\ Event.op # "write"
  BY Constructors DEF Poll, Event, Done
<1>2. /\ ready # <<>> /\ Head(ready).op \in {"poll", "event"}
      /\ \/ ready' = Append(Tail(ready), Poll)
         \/ ready' = Tail(ready) \o <<Event, Poll>>
         \/ ready' = Tail(ready)
      /\ UNCHANGED <<outbox, writing>>
  BY DEF PollNothing, PollReports, EventStale, Handles, sockVars
<1>3. SameWrites(Tail(ready)) /\ Tail(ready) \in Seq(Item)
  BY <1>2, TailWrites
<1>4. Tail(ready) \o <<Event, Poll>> = Append(Append(Tail(ready), Event), Poll)
  <2> DEFINE e == Event
             p == Poll
  <2>1. \A s \in Seq(Item) : \A c, d \in Item : s \o <<c, d>> = Append(Append(s, c), d)
    OBVIOUS
  <2>2. e \in Item /\ p \in Item
    BY Constructors, Items
  <2> HIDE DEF e, p
  <2>3. Tail(ready) \o <<e, p>> = Append(Append(Tail(ready), e), p)
    BY <1>3, <2>1, <2>2
  <2> QED
    BY <2>3 DEF e, p
<1>5. SameWrites(ready')
  BY <1>1, <1>2, <1>3, <1>4, AppendedWrites
<1> QED
  BY <1>2, <1>5, KeptQueue

LEMMA KeptConnects ==
    ASSUME TypeOK, TypeOK', ConnectSucceeds \/ ConnectFails
    PROVE  Kept
<1>0. /\ ready # <<>> /\ Head(ready).op = "event" /\ UNCHANGED outbox
      /\ Done("connect", NoMessage, TRUE) \in Completion
      /\ Done("connect", NoMessage, TRUE).op # "write"
      /\ Done("connect", NoMessage, FALSE) \in Completion
      /\ Done("connect", NoMessage, FALSE).op # "write"
  BY Constructors DEF ConnectSucceeds, ConnectFails, Handles, Done
<1>1. SameWrites(Tail(ready))
  BY <1>0, TailWrites
<1>2. CASE ConnectSucceeds
  <2>1. SameWrites(ready') /\ UNCHANGED writing
    BY <1>0, <1>1, <1>2, FrontWrites DEF ConnectSucceeds
  <2> QED
    BY <1>0, <2>1, KeptQueue
<1>3. CASE ConnectFails
  <2> DEFINE q      == <<Done("connect", NoMessage, TRUE)>> \o Tail(ready)
             writes == [i \in DOMAIN writing |-> Done("write", writing[i], TRUE)]
             reads  == [i \in DOMAIN reader |-> Failed(reader[i])]
  <2>1. /\ q \in Seq(Item)
        /\ \A K : Count(q, WritesOf(K)) = Count(ready, WritesOf(K))
    BY <1>0, <1>1, FrontWrites DEF SameWrites
  <2>2. writes \in Seq(Item) /\ \A K : Count(writes, WritesOf(K)) = Count(writing, K)
    BY FailedWrites DEF TypeOK
  <2>3. reads \in Seq(Item) /\ \A K : Count(reads, WritesOf(K)) = 0
    BY FailedReads DEF TypeOK
  <2>4. ready' = (q \o writes) \o reads /\ writing' = <<>>
    BY <1>3 DEF ConnectFails
  <2> HIDE DEF q, writes, reads
  <2> DEFINE first == q \o writes
  <2>5. /\ first \in Seq(Item)
        /\ \A K : Count(first, WritesOf(K)) = Count(ready, WritesOf(K)) + Count(writing, K)
    BY <2>1, <2>2, CountConcat, ConcatProperties
  <2> HIDE DEF first
  <2>6. ready' = first \o reads
    BY <2>4 DEF first
  <2>7. ASSUME NEW K PROVE Sends(writing', ready', K) = Sends(writing, ready, K)
    <3>1. Count(ready', WritesOf(K)) = Count(first, WritesOf(K)) + Count(reads, WritesOf(K))
      BY <2>3, <2>5, <2>6, CountConcat
    <3>2. Count(writing', K) = 0
      BY <2>4, CountEmpty
    <3>3. Count(writing, K) \in Nat /\ Count(ready, WritesOf(K)) \in Nat
      BY SendsType DEF TypeOK
    <3> QED
      BY <2>3, <2>5, <3>1, <3>2, <3>3 DEF Sends
  <2> QED
    BY <1>0, <2>7 DEF Kept
<1> QED
  BY <1>2, <1>3

LEMMA KeptSocket ==
    ASSUME TypeOK, TypeOK',
           ReadCompletes \/ LinkDrops \/ \E ec \in BOOLEAN : WriteCompletes(ec)
    PROVE  Kept
<1>1. CASE ReadCompletes
  <2>1. /\ ready # <<>> /\ Head(ready).op = "event" /\ UNCHANGED <<outbox, writing>>
        /\ Head(reader) \in Read
    BY <1>1, HeadTailProperties DEF ReadCompletes, Handles, TypeOK
  <2>2. PICK c \in ReadResults(Head(reader)) : ready' = <<c>> \o Tail(ready)
    BY <1>1 DEF ReadCompletes
  <2>3. c \in Completion /\ c.op # "write"
    BY <2>1, ReadResultsType, ReadResultOp, ReadDone
  <2> QED
    BY <2>1, <2>2, <2>3, TailWrites, FrontWrites, KeptQueue
<1>2. CASE LinkDrops
  BY <1>2, ReadyWrites, KeptQueue DEF LinkDrops
<1>3. ASSUME NEW ec \in BOOLEAN, WriteCompletes(ec) PROVE Kept
  <2>1. /\ writing \in Seq(Message) /\ writing # <<>> /\ writing' = Tail(writing)
        /\ ready' = Append(ready, Done("write", Head(writing), ec)) /\ UNCHANGED outbox
    BY <1>3 DEF WriteCompletes, Completes, TypeOK
  <2>2. PICK m \in Message : m = Head(writing)
    BY <2>1, HeadTailProperties
  <2>3. PICK c \in Item : c = Done("write", m, ec)
    BY Constructors, Items
  <2>4. c.op = "write" /\ c.msg = m
    BY <2>3 DEF Done
  <2>5. ASSUME NEW K PROVE Sends(writing', ready', K) = Sends(writing, ready, K)
    <3>1. Count(writing, K) = One(m, K) + Count(writing', K) /\ Count(writing', K) \in Nat
      <4>1. Tail(writing) \in Seq(Message)
        BY <2>1, HeadTailProperties
      <4> QED
        BY <2>1, <2>2, <4>1, CountTail, CountType
    <3>2. /\ Count(ready', WritesOf(K)) = Count(ready, WritesOf(K)) + One(c, WritesOf(K))
          /\ Count(ready, WritesOf(K)) \in Nat
      <4>1. ready \in Seq(Item) /\ Count(ready, WritesOf(K)) \in Nat
        BY SendsType DEF TypeOK
      <4> QED
        BY <2>1, <2>2, <2>3, <4>1, CountAppend
    <3>3. One(c, WritesOf(K)) = One(m, K) /\ One(m, K) \in Nat
      BY <2>4, OneWriteOf
    <3> QED
      BY ONLY <3>1, <3>2, <3>3 DEF Sends
  <2> QED
    BY <2>1, <2>5 DEF Kept
<1> QED
  BY <1>1, <1>2, <1>3

\* What may start a write, ends one, or empties the outbox
Touches == \/ \E t \in Threads : Write(t) \/ ClearOutbox(t)
           \/ OnWritten \/ OnWriteFailed
           \/ \E u \in Users : Join(u)

LEMMA KeptNext == TypeOK /\ TypeOK' /\ [Next]_vars => Kept \/ Touches
<1> SUFFICES ASSUME TypeOK, TypeOK', [Next]_vars, ~Touches PROVE Kept
  OBVIOUS
<1>1. CASE UNCHANGED vars
  BY <1>1, ReadyWrites, KeptQueue DEF vars, sockVars
<1>2. CASE \E u \in Users : UserNext(u) \/ Stop(u)
  BY <1>2, KeptUser
<1>3. CASE \E t \in Threads : SharedNext(t)
  BY <1>3, KeptShared DEF SharedNext, Touches
<1>4. CASE HandlerNext
  BY <1>4, KeptHandler DEF Touches
<1>5. CASE TimerNext \/ PeerNext
  <2>1. UNCHANGED <<ready, writing, outbox>>
    BY <1>5 DEF TimerNext, OnHeartbeat, OnTimer, PeerNext, PeerAnswers, PeerRepeats,
       PeerPublishes, sockVars
  <2> QED
    BY <2>1, ReadyWrites, KeptQueue
<1>6. CASE SocketNext
  BY <1>6, KeptReactor, KeptConnects, KeptSocket DEF SocketNext
<1>7. ~\E u \in Users : Join(u)
  BY DEF Touches
<1> QED
  BY <1>1, <1>2, <1>3, <1>4, <1>5, <1>6, <1>7 DEF Next

-----------------------------------------------------------------------------
(* The write functions                                                     *)

\* The write of m that starts is one more.
LEMMA StartedSends ==
    ASSUME TypeOK, NEW m \in Message, NEW q \in Seq(Completion), StartWrite(m, q), NEW K
    PROVE  /\ Sends(writing', ready', K) = Sends(writing, q, K) + One(m, K)
           /\ Sends(writing, q, K) \in Nat
<1>1. /\ q \in Seq(Item) /\ writing \in Seq(Message)
      /\ Count(writing, K) \in Nat /\ Count(q, WritesOf(K)) \in Nat
      /\ Sends(writing, q, K) = Count(writing, K) + Count(q, WritesOf(K))
  BY SendsType DEF TypeOK, Sends
<1>2. One(m, K) \in Nat
  BY DEF One
<1>3. CASE writing' = Append(writing, m) /\ ready' = q
  <2>1. Count(writing', K) = Count(writing, K) + One(m, K)
    BY <1>1, <1>3, CountAppend
  <2>2. Sends(writing', ready', K) = Count(writing', K) + Count(q, WritesOf(K))
    BY <1>3 DEF Sends
  <2> QED
    BY ONLY <1>1, <1>2, <2>1, <2>2
<1>4. CASE ready' = Append(q, Done("write", m, TRUE)) /\ UNCHANGED writing
  <2>1. PICK c \in Item : c = Done("write", m, TRUE)
    BY Constructors, Items
  <2>2. One(c, WritesOf(K)) = One(m, K)
    <3>1. c.op = "write" /\ c.msg = m
      BY <2>1 DEF Done
    <3> QED
      BY <3>1, OneWriteOf
  <2>3. Count(ready', WritesOf(K)) = Count(q, WritesOf(K)) + One(m, K)
    <3>1. ready' = Append(q, c)
      BY <1>4, <2>1
    <3>2. Count(Append(q, c), WritesOf(K)) = Count(q, WritesOf(K)) + One(c, WritesOf(K))
      BY <1>1, CountAppend
    <3> QED
      BY <2>2, <3>1, <3>2
  <2>4. Sends(writing', ready', K) = Count(writing, K) + Count(ready', WritesOf(K))
    BY <1>4 DEF Sends
  <2> QED
    BY ONLY <1>1, <1>2, <2>3, <2>4
<1> QED
  BY <1>3, <1>4 DEF StartWrite

WriteGood == /\ FrontAlone(writing, ready, outbox) => FrontAlone(writing', ready', outbox')
             /\ Served(writing, ready, outbox) => Served(writing', ready', outbox')

LEMMA WriteKeeps ==
    ASSUME TypeOK, TypeOK', NEW t \in Threads, Write(t)
    PROVE  WriteGood
<1>1. PICK m \in Message : /\ outbox' = Append(outbox, m)
                           /\ \/ outbox = <<>> /\ StartWrite(m, ready)
                              \/ outbox # <<>> /\ UNCHANGED <<writing, ready>>
  <2>1. Head(todo[t]).msg \in Message
    BY StepParts DEF Write, At, TypeOK
  <2> QED
    BY <2>1 DEF Write, WriteIfFirst
<1>2. outbox \in Seq(Message) /\ ready \in Seq(Completion)
  BY DEF TypeOK
<1>3. outbox' # <<>> /\ Head(outbox') = IF outbox = <<>> THEN m ELSE Head(outbox)
  <2>1. outbox' \in Seq(Message) /\ Len(outbox') = Len(outbox) + 1 /\ Len(outbox) \in Nat
        /\ outbox'[1] = IF outbox = <<>> THEN m ELSE outbox[1]
    BY <1>1, <1>2, AppendProperties, EmptySeq, LenProperties
  <2> QED
    BY <1>2, <2>1, EmptySeq, HeadTailProperties
<1>4. CASE outbox # <<>>
  BY <1>1, <1>3, <1>4 DEF WriteGood, FrontAlone, Served
<1>5. CASE outbox = <<>>
  <2>1. \A K : /\ Sends(writing', ready', K) = Sends(writing, ready, K) + One(m, K)
               /\ Sends(writing, ready, K) \in Nat
    BY <1>1, <1>2, <1>5, StartedSends
  <2>2. One(m, Message) = 1 /\ One(m, Message \ {m}) = 0
    BY DEF One
  <2>3. Sends(writing, ready, Message) = 0 => Sends(writing, ready, Message \ {m}) = 0
    BY SendsFewer DEF TypeOK
  <2>4. FrontAlone(writing, ready, outbox) <=> Sends(writing, ready, Message) = 0
    BY <1>5 DEF FrontAlone
  <2> DEFINE all  == Sends(writing, ready, Message)
             rest == Sends(writing, ready, Message \ {m})
  <2>5. /\ Sends(writing', ready', Message) = all + 1 /\ all \in Nat
        /\ Sends(writing', ready', Message \ {m}) = rest + 0 /\ rest \in Nat
    BY ONLY <2>1, <2>2
  <2>6. all = 0 => rest = 0
    BY <2>3
  <2>7. FrontAlone(writing', ready', outbox')
          <=> \/ Sends(writing', ready', Message) = 0
              \/ /\ Sends(writing', ready', Message) = 1
                 /\ Sends(writing', ready', Message \ {m}) = 0
    BY <1>3, <1>5 DEF FrontAlone
  <2> HIDE DEF all, rest
  <2>8. all = 0 => FrontAlone(writing', ready', outbox')
    BY ONLY <2>5, <2>6, <2>7
  <2>9. Sends(writing', ready', Message) > 0
    BY ONLY <2>5
  <2> QED
    BY <2>4, <2>8, <2>9 DEF WriteGood, Served, all
<1> QED
  BY <1>4, <1>5

LEMMA WrittenKeeps ==
    ASSUME TypeOK, TypeOK', OnWritten
    PROVE  WriteGood
<1>1. /\ ready # <<>> /\ Head(ready).op = "write"
      /\ outbox' = (IF outbox = <<>> THEN <<>> ELSE Tail(outbox))
      /\ WriteNext(Tail(ready))
  BY DEF OnWritten, Handles
<1>2. /\ outbox \in Seq(Message) /\ Tail(ready) \in Seq(Completion)
      /\ writing \in Seq(Message) /\ ready \in Seq(Completion)
  BY <1>1, HeadTailProperties DEF TypeOK
<1>3. PICK d \in Message : d = Head(ready).msg
  BY <1>1, TailWrites
<1> DEFINE left(K) == Sends(writing, Tail(ready), K)
<1>4. \A K : /\ Sends(writing, ready, K) = One(d, K) + left(K)
             /\ left(K) \in Nat
  <2> TAKE K
  <2>1. /\ Count(ready, WritesOf(K)) = One(d, K) + Count(Tail(ready), WritesOf(K))
        /\ Count(Tail(ready), WritesOf(K)) \in Nat
    <3>1. One(Head(ready), WritesOf(K)) = One(d, K)
      BY <1>1, <1>3, TailWrites, OneWriteOf
    <3> QED
      BY <1>1, <3>1, TailWrites
  <2>2. Count(writing, K) \in Nat /\ One(d, K) \in Nat
    BY <1>2, CountType DEF One
  <2> QED
    BY <2>1, <2>2 DEF Sends
<1>5. One(d, Message) = 1
  BY DEF One
<1> HIDE DEF left
<1>6. CASE Len(outbox) > 1
  <2>1. PICK m \in Message : m = outbox[2]
    BY <1>2, <1>6, ElementOfSeq, LenProperties
  <2>2. outbox' # <<>> /\ Head(outbox') = m /\ outbox # <<>>
    <3>1. outbox # <<>>
      BY <1>6, EmptySeq
    <3>2. /\ outbox' \in Seq(Message) /\ Len(outbox') = Len(outbox) - 1
          /\ \A i \in 1 .. Len(outbox') : outbox'[i] = outbox[i + 1]
      BY <1>1, <1>2, <3>1, HeadTailProperties
    <3>3. Len(outbox) \in Nat
      BY <1>2, LenProperties
    <3>4. Len(outbox') > 0 /\ 1 \in 1 .. Len(outbox') /\ 1 + 1 = 2
      BY ONLY <1>6, <3>2, <3>3
    <3> QED
      BY <2>1, <3>1, <3>2, <3>4, EmptySeq, HeadTailProperties
  <2>3. \A K : Sends(writing', ready', K) = left(K) + One(m, K)
    BY <1>1, <1>2, <1>6, <2>1, StartedSends DEF WriteNext, left
  <2>4. One(m, Message) = 1 /\ One(m, Message \ {m}) = 0
    BY DEF One
  <2>5. left(Message) = 0 => left(Message \ {m}) = 0
    BY <1>2, SendsFewer DEF left
  <2> DEFINE all == left(Message)
             rest == left(Message \ {m})
             b == Sends(writing, ready, Message)
             n == Sends(writing', ready', Message)
             r == Sends(writing', ready', Message \ {m})
  <2>6. /\ all \in Nat /\ rest \in Nat /\ b = 1 + all /\ n = all + 1 /\ r = rest + 0
        /\ all = 0 => rest = 0
    BY <1>4, <1>5, <2>3, <2>4, <2>5
  <2>7. FrontAlone(writing', ready', outbox') <=> n = 0 \/ (n = 1 /\ r = 0)
    BY <2>2 DEF FrontAlone
  <2>8. FrontAlone(writing, ready, outbox) => b = 0 \/ b = 1
    BY DEF FrontAlone
  <2>9. n > 0 => Served(writing', ready', outbox')
    BY DEF Served
  <2> HIDE DEF all, rest, b, n, r
  <2> QED
    BY ONLY <2>6, <2>7, <2>8, <2>9 DEF WriteGood
<1>7. CASE ~(Len(outbox) > 1)
  <2>1. ready' = Tail(ready) /\ writing' = writing
    BY <1>1, <1>7 DEF WriteNext
  <2>2. outbox' = <<>>
    <3>1. CASE outbox = <<>>
      BY <1>1, <3>1
    <3>2. CASE outbox # <<>>
      <4>1. /\ outbox' \in Seq(Message) /\ Len(outbox') = Len(outbox) - 1
            /\ Len(outbox) \in Nat /\ Len(outbox) # 0
        BY <1>1, <1>2, <3>2, HeadTailProperties, LenProperties, EmptySeq
      <4>2. Len(outbox') = 0
        BY ONLY <1>7, <4>1
      <4> QED
        BY <4>1, <4>2, EmptySeq
    <3> QED
      BY <3>1, <3>2
  <2>3. Sends(writing', ready', Message) = left(Message)
    BY <2>1 DEF left
  <2>4. FrontAlone(writing, ready, outbox) => left(Message) = 0
    <3>1. FrontAlone(writing, ready, outbox)
            => Sends(writing, ready, Message) = 0 \/ Sends(writing, ready, Message) = 1
      BY DEF FrontAlone
    <3>2. Sends(writing, ready, Message) = 1 + left(Message) /\ left(Message) \in Nat
      BY <1>4, <1>5
    <3> QED
      BY ONLY <3>1, <3>2
  <2> QED
    BY <2>2, <2>3, <2>4 DEF WriteGood, FrontAlone, Served
<1> QED
  BY <1>6, <1>7

\* The handler of a failed write leaves no write that is not the front's.
LEMMA FailureKeeps ==
    ASSUME TypeOK, TypeOK', OnWriteFailed
    PROVE  FrontAlone(writing, ready, outbox) => FrontAlone(writing', ready', outbox')
<1>1. /\ ready # <<>> /\ Head(ready).op = "write" /\ ready' = Tail(ready)
      /\ UNCHANGED <<writing, outbox>>
  BY DEF OnWriteFailed, Handles, sockVars
<1>2. Head(ready).msg \in Message
  BY <1>1, TailWrites
<1>3. One(Head(ready), WritesOf(Message)) = 1
  BY <1>1, <1>2, TailWrites, OneWriteOf
<1>4. /\ Sends(writing, ready, Message) = 1 + Sends(writing', ready', Message)
      /\ Sends(writing', ready', Message) \in Nat
  <2>1. /\ Count(ready, WritesOf(Message)) = 1 + Count(ready', WritesOf(Message))
        /\ Count(ready', WritesOf(Message)) \in Nat
        /\ Count(writing, Message) \in Nat /\ writing' = writing
    BY <1>1, <1>3, TailWrites, SendsType DEF TypeOK
  <2> QED
    BY <2>1 DEF Sends
<1>5. FrontAlone(writing, ready, outbox)
        => Sends(writing, ready, Message) = 0 \/ Sends(writing, ready, Message) = 1
  BY DEF FrontAlone
<1>6. FrontAlone(writing, ready, outbox) => Sends(writing', ready', Message) = 0
  BY ONLY <1>4, <1>5
<1> QED
  BY <1>6 DEF FrontAlone

LEMMA EndKeeps ==
    ASSUME NEW u \in Users, Join(u)
    PROVE  WriteGood
<1>1. writing' = <<>> /\ ready' = <<>> /\ outbox' = <<>>
  BY DEF Join
<1>2. Sends(writing', ready', Message) = 0
  BY <1>1, CountEmpty DEF Sends
<1> QED
  BY <1>1, <1>2 DEF WriteGood, FrontAlone, Served

-----------------------------------------------------------------------------
(* The theorems                                                            *)

LEMMA FrontMeans ==
    /\ TypeOK => (FrontOnly <=> FrontAlone(writing, ready, outbox))
                 /\ (OutboxServed <=> Served(writing, ready, outbox))
    /\ TypeOK' => (FrontOnly' <=> FrontAlone(writing', ready', outbox'))
                  /\ (OutboxServed' <=> Served(writing', ready', outbox'))
<1>1. ASSUME TypeOK
      PROVE  /\ FrontOnly <=> FrontAlone(writing, ready, outbox)
             /\ OutboxServed <=> Served(writing, ready, outbox)
  <2>1. /\ writing \in Seq(Message) /\ ready \in Seq(Completion) /\ outbox \in Seq(Message)
    BY <1>1 DEF TypeOK
  <2> QED
    BY <2>1, AloneCounts, ServedCounts
       DEF FrontOnly, OutboxServed, IsFront, FrontOf, WritesDone, DoneOf
<1>2. ASSUME TypeOK'
      PROVE  /\ FrontOnly' <=> FrontAlone(writing', ready', outbox')
             /\ OutboxServed' <=> Served(writing', ready', outbox')
  <2>1. /\ writing' \in Seq(Message) /\ ready' \in Seq(Completion) /\ outbox' \in Seq(Message)
    BY <1>2 DEF TypeOK
  <2> QED
    BY <2>1, AloneCounts, ServedCounts
       DEF FrontOnly, OutboxServed, IsFront, FrontOf, WritesDone, DoneOf
<1> QED
  BY <1>1, <1>2

LEMMA FlowStep ==
    ASSUME TypeOK, TypeOK', [Next]_vars
    PROVE  /\ FrontOnly => FrontOnly' \/ \E t \in Threads : ClearOutbox(t)
           /\ OutboxServed => OutboxServed' \/ OnWriteFailed
<1>1. CASE Kept
  <2>1. outbox' = outbox /\ \A K : Sends(writing', ready', K) = Sends(writing, ready, K)
    BY <1>1 DEF Kept
  <2> QED
    BY <2>1, FrontMeans DEF FrontAlone, Served
<1>2. CASE WriteGood
  BY <1>2, FrontMeans DEF WriteGood
<1>3. CASE \E t \in Threads : ClearOutbox(t)
  <2>1. outbox' = <<>>
    BY <1>3 DEF ClearOutbox
  <2> QED
    BY <1>3, <2>1 DEF OutboxServed
<1>4. CASE OnWriteFailed
  BY <1>4, FailureKeeps, FrontMeans
<1> QED
  BY <1>1, <1>2, <1>3, <1>4, KeptNext, WriteKeeps, WrittenKeeps, EndKeeps DEF Touches

(***************************************************************************)
(* One async_write at a time, of the outbox's front: header_ and            *)
(* write_size_ stay one message's whatever callers, heartbeats, handlers,   *)
(* failures, closes and reconnects do, as long as clear_cache does not      *)
(* empty the outbox under a write.                                          *)
(***************************************************************************)
THEOREM OneWriteAtATime == Spec => OneWrite
<1>1. TypeOK /\ TypeOK' /\ [Next]_vars
        => [FrontOnly => FrontOnly' \/ \E t \in Threads : ClearOutbox(t)]_vars
  BY FlowStep
<1> QED
  BY <1>1, TypeCorrect, PTL DEF Spec, OneWrite

(***************************************************************************)
(* No message is left in the outbox without a write under way or a write's  *)
(* handler to come, but by the handler of a failed write.                   *)
(***************************************************************************)
THEOREM OnlyFailuresStrand == Spec => OutboxAlive
<1>1. TypeOK /\ TypeOK' /\ [Next]_vars
        => [OutboxServed => OutboxServed' \/ OnWriteFailed]_vars
  BY FlowStep
<1> QED
  BY <1>1, TypeCorrect, PTL DEF Spec, OutboxAlive
=============================================================================
