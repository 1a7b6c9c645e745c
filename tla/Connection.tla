----------------------------- MODULE Connection -----------------------------
(***************************************************************************)
(* The server end of an RPC connection: class connection of                 *)
(* include/rest_rpc/connection.h, with what router::route (router.h) and     *)
(* rpc_server::publish (rpc_server.h) do to it.                              *)
(*                                                                           *)
(* One thread of the pool, Io, runs the connection's completion handlers one *)
(* at a time.  The threads that asynchronous functions leave a request to    *)
(* and the threads that publish call response() too: the write queue is      *)
(* shared by all of them, under write_mtx_.  Whether a request is answered   *)
(* by route(), later by another thread, or by both is a choice here; Router  *)
(* says which function makes it.                                             *)
(*                                                                           *)
(* The socket, its operations and the timer's clock stand for the vendored   *)
(* asio and the kernel.  Bytes, the codec, SSL and the user's callbacks for  *)
(* errors are left out.                                                      *)
(***************************************************************************)
EXTENDS Integers, Sequences

CONSTANTS
    Timeout,        \* whether timeout_seconds_ is not 0
    Kinds,          \* the kinds of frames the client sends
    MaxFrames,      \* bound: frames the client sends
    MaxPublishes,   \* bound: publications to this connection
    MaxDrops        \* bound: failures of the link

\* What a frame's header says: a request or a subscription with a body, an
\* empty body (a heartbeat), a body_len of MAX_BUF_LEN or more, a wrong magic.
AllKinds == {"request", "subscribe", "heartbeat", "oversized", "alien"}

ASSUME ClientAssumption == Timeout \in BOOLEAN /\ Kinds \subseteq AllKinds
ASSUME BoundAssumption  == {MaxFrames, MaxPublishes, MaxDrops} \subseteq Nat

VARIABLES
    started,        \* whether start() was called
    has_closed,     \* has_closed_
    sock,           \* the state of socket_
    reader,         \* the pending async_read, if any, and the frame it is in
    writing,        \* the pending async_writes, oldest first
    timer,          \* whether a wait on timer_ is pending
    ready,          \* completed operations whose handler Io has not run
    req_id,         \* req_id_
    write_queue,    \* write_queue_
    io,             \* the response Io is about to hand to response(), if any
    answering,      \* the responses other threads are about to give
    doubled,        \* history: the requests that route() and a thread answer
    subscribed,     \* whether the server's sub_map_ has this connection
    inbound,        \* frames the client has sent and nobody has read
    asked,          \* history: the ids of the requests the client has sent
    sent,           \* history: the messages the client was sent, in order
    spent           \* how much of each bound is used up

sockVars   == <<sock, reader, writing>>
serverVars == <<answering, doubled, subscribed>>
clientVars == <<inbound, asked, sent, spent>>
vars == <<started, has_closed, sockVars, timer, ready, req_id, write_queue, io,
          serverVars, clientVars>>

-----------------------------------------------------------------------------
Ids   == 1 .. MaxFrames
Frame == [kind : AllKinds, id : 0 .. MaxFrames]

\* A message for the client; of is the request (or the publication) whose
\* content it has, id the request id in its header, by who calls response().
Message == [type : {"req_res", "sub_pub"}, id : 0 .. MaxFrames,
            of : 0 .. (MaxFrames + MaxPublishes), by : {"route", "thread"}]
Response(id, of, by) == [type |-> "req_res", id |-> id, of |-> of, by |-> by]
Publication(n) == [type |-> "sub_pub", id |-> 0, of |-> n, by |-> "thread"]

NoFrame   == [kind |-> "heartbeat", id |-> 0]
NoMessage == Response(0, 0, "route")

Read == [op : {"none", "head"}, frame : {NoFrame}] \cup [op : {"body"}, frame : Frame]
NoRead      == [op |-> "none", frame |-> NoFrame]
HeadRead    == [op |-> "head", frame |-> NoFrame]
BodyRead(f) == [op |-> "body", frame |-> f]

Completion == [op : {"head", "body", "write", "timer"}, frame : Frame,
               msg : Message, ec : BOOLEAN]
ReadDone(op, f, ec) == [op |-> op, frame |-> f, msg |-> NoMessage, ec |-> ec]
WriteDone(m, ec)    == [op |-> "write", frame |-> NoFrame, msg |-> m, ec |-> ec]
Expired == [op |-> "timer", frame |-> NoFrame, msg |-> NoMessage, ec |-> FALSE]

Spend(what, limit) == /\ spent[what] < limit
                      /\ spent' = [spent EXCEPT ![what] = @ + 1]

-----------------------------------------------------------------------------
(* Starting and cancelling operations *)

\* An async_write fails at once on a closed socket.
StartWrite(m, queue) ==
    IF sock = "closed" THEN /\ ready' = Append(queue, WriteDone(m, TRUE))
                            /\ UNCHANGED writing
                       ELSE writing' = Append(writing, m) /\ ready' = queue

\* reset_timer(): a wait that has not expired is replaced.
reset_timer == timer' = Timeout

\* cancel_timer(): a wait that has expired already is not called back.
cancel_timer == timer' = FALSE

\* read_head(), on an open socket
read_head == reset_timer /\ reader' = HeadRead

\* Mutant: has_closed_ is not set.
close_silently(queue) ==
    /\ sock' = "closed" /\ reader' = NoRead /\ writing' = <<>> /\ ready' = queue
    /\ UNCHANGED has_closed

\* close(): what is pending on the socket is cancelled, reads first; queue is
\* what is left of ready once the current handler is taken off it.
close(queue) ==
    IF has_closed THEN ready' = queue /\ UNCHANGED <<has_closed, sockVars>>
    ELSE /\ has_closed' = TRUE
         /\ sock' = "closed"
         /\ reader' = NoRead
         /\ writing' = <<>>
         /\ ready' = queue
              \o (IF reader = NoRead THEN <<>>
                  ELSE <<ReadDone(reader.op, reader.frame, TRUE)>>)
              \o [i \in DOMAIN writing |-> WriteDone(writing[i], TRUE)]

-----------------------------------------------------------------------------
(* The handlers Io runs *)

Handles(op) == io = <<>> /\ ready # <<>> /\ Head(ready).op = op

Start ==
    /\ ~started
    /\ started' = TRUE
    /\ read_head
    /\ UNCHANGED <<has_closed, sock, writing, ready, req_id, write_queue, io,
                   serverVars, clientVars>>

\* read_head's handler on a closed socket, and on an error
OnHeadFailed ==
    /\ Handles("head")
    /\ \/ /\ sock = "closed"
          /\ ready' = Tail(ready)
          /\ UNCHANGED <<has_closed, sockVars>>
       \/ sock # "closed" /\ Head(ready).ec /\ close(Tail(ready))
    /\ UNCHANGED <<started, timer, req_id, write_queue, io, serverVars, clientVars>>

HandlesHead == Handles("head") /\ sock # "closed" /\ ~Head(ready).ec

\* read_head's handler: the magic number is wrong.
OnAlienHead ==
    /\ HandlesHead
    /\ Head(ready).frame.kind = "alien"
    /\ close(Tail(ready))
    /\ UNCHANGED <<started, timer, req_id, write_queue, io, serverVars, clientVars>>

\* read_head's handler: the id is remembered and the body is read.  A length
\* of 0 goes on with the next header, one of MAX_BUF_LEN or more with nothing.
OnHead ==
    /\ HandlesHead
    /\ LET f == Head(ready).frame
       IN  /\ f.kind # "alien"
           /\ req_id' = f.id
           /\ \/ /\ f.kind \in {"request", "subscribe"}
                 /\ reader' = BodyRead(f)
                 /\ UNCHANGED timer
              \/ f.kind = "heartbeat" /\ read_head
              \/ f.kind = "oversized" /\ UNCHANGED <<reader, timer>>
    /\ ready' = Tail(ready)
    /\ UNCHANGED <<started, has_closed, sock, writing, write_queue, io,
                   serverVars, clientVars>>

\* read_body's handler on a closed socket, and on an error: in both cases the
\* timer is cancelled and the read loop ends.
OnBodyFailed ==
    /\ Handles("body")
    /\ sock = "closed" \/ Head(ready).ec
    /\ cancel_timer
    /\ ready' = Tail(ready)
    /\ UNCHANGED <<started, has_closed, sockVars, req_id, write_queue, io,
                   serverVars, clientVars>>

\* Mutant: the read loop does not go on.
read_no_more == cancel_timer /\ reader' = NoRead

\* read_body's handler goes on with the next header before it serves this body.
read_next == read_head

HandlesBody(kind) ==
    /\ Handles("body")
    /\ sock # "closed"
    /\ ~Head(ready).ec
    /\ Head(ready).frame.kind = kind
    /\ read_next
    /\ ready' = Tail(ready)

\* read_body's handler, a request: route() takes request_id() and answers, or
\* runs an asynchronous function that keeps the id for another thread; if that
\* function throws once it has done so, route() answers too.
OnRequest ==
    /\ HandlesBody("request")
    /\ LET answer(by) == Response(req_id, Head(ready).frame.id, by)
           Routes == io' = <<answer("route")>>
           Hands  == answering' = answering \cup {answer("thread")}
       IN  \/ Routes /\ UNCHANGED <<answering, doubled>>
           \/ Hands /\ UNCHANGED <<io, doubled>>
           \/ Routes /\ Hands /\ doubled' = doubled \cup {req_id}
    /\ UNCHANGED <<started, has_closed, sock, writing, req_id, write_queue,
                   subscribed, clientVars>>

\* read_body's handler, a subscription, whose body may not unpack
OnSubscription ==
    /\ HandlesBody("subscribe")
    /\ subscribed' \in {subscribed, TRUE}
    /\ UNCHANGED <<started, has_closed, sock, writing, req_id, write_queue, io,
                   answering, doubled, clientVars>>

\* on_write, on success: nothing is popped once the connection has closed.
OnWritten ==
    /\ Handles("write")
    /\ ~Head(ready).ec
    /\ IF has_closed
         THEN ready' = Tail(ready) /\ UNCHANGED <<write_queue, writing>>
         ELSE /\ write_queue' = Tail(write_queue)
              /\ IF Len(write_queue) > 1 THEN StartWrite(write_queue[2], Tail(ready))
                 ELSE ready' = Tail(ready) /\ UNCHANGED writing
    /\ UNCHANGED <<started, has_closed, sock, reader, timer, req_id, io,
                   serverVars, clientVars>>

OnWriteFailed ==
    /\ Handles("write")
    /\ Head(ready).ec
    /\ close(Tail(ready))
    /\ UNCHANGED <<started, timer, req_id, write_queue, io, serverVars, clientVars>>

\* The handler of a wait that expired closes the connection, whatever has
\* happened since it expired.
OnTimer ==
    /\ Handles("timer")
    /\ close(Tail(ready))
    /\ UNCHANGED <<started, timer, req_id, write_queue, io, serverVars, clientVars>>

-----------------------------------------------------------------------------
(* response(), which Io and other threads call *)

\* Mutant: a message is sent at once, whatever is being sent.
WriteAlways(m) == StartWrite(m, ready)

\* if(write_queue_.size()>1) return; write();
WriteIfFirst(m) == IF write_queue = <<>> THEN StartWrite(m, ready)
                                         ELSE UNCHANGED <<writing, ready>>

response(m) == /\ write_queue' = Append(write_queue, m)
               /\ WriteIfFirst(m)

\* route() responds.
Respond ==
    /\ io # <<>>
    /\ response(Head(io))
    /\ io' = <<>>
    /\ UNCHANGED <<started, has_closed, sock, reader, timer, req_id, serverVars,
                   clientVars>>

\* Mutant: the thread asks for request_id() when it responds.
LateId(m) == IF m.type = "req_res" THEN [m EXCEPT !.id = req_id] ELSE m

\* The id a thread responds with is the one it was handed.
KeptId(m) == m

\* Mutant: the thread responds, and will respond again.
StillHeld(m) == answering

\* A thread that was handed a request responds to it and ends.
NoLongerHeld(m) == answering \ {m}

\* Another thread responds, or publishes.
RespondLater(m) ==
    /\ m \in answering
    /\ response(KeptId(m))
    /\ answering' = NoLongerHeld(m)
    /\ UNCHANGED <<started, has_closed, sock, reader, timer, req_id, io,
                   doubled, subscribed, clientVars>>

\* rpc_server::publish finds the connection in sub_map_ and not closed; the
\* message is handed to response() in a later step.
Publish ==
    /\ subscribed
    /\ ~has_closed
    /\ Spend("publishes", MaxPublishes)
    /\ answering' = answering \cup {Publication(spent'["publishes"])}
    /\ UNCHANGED <<started, has_closed, sockVars, timer, ready, req_id,
                   write_queue, io, doubled, subscribed, inbound, asked, sent>>

-----------------------------------------------------------------------------
(* The clock, the kernel and the client.  The reactor, which Io runs between *)
(* two handlers, carries out reads and looks at the timers.                  *)

Completes(c) == ready' = Append(ready, c)

TimerExpires ==
    /\ io = <<>>
    /\ timer
    /\ timer' = FALSE
    /\ Completes(Expired)
    /\ UNCHANGED <<started, has_closed, sockVars, req_id, write_queue, io,
                   serverVars, clientVars>>

\* A frame is taken off the stream with its header; its body follows.
HeadCompletes ==
    /\ io = <<>>
    /\ reader.op = "head"
    /\ inbound # <<>>
    /\ inbound' = Tail(inbound)
    /\ reader' = NoRead
    /\ Completes(ReadDone("head", Head(inbound), FALSE))
    /\ UNCHANGED <<started, has_closed, sock, writing, timer, req_id,
                   write_queue, io, serverVars, asked, sent, spent>>

BodyCompletes ==
    /\ io = <<>>
    /\ reader.op = "body"
    /\ reader' = NoRead
    /\ Completes(ReadDone("body", reader.frame, FALSE))
    /\ UNCHANGED <<started, has_closed, sock, writing, timer, req_id,
                   write_queue, io, serverVars, clientVars>>

ReadFails ==
    /\ io = <<>>
    /\ sock = "broken"
    /\ reader # NoRead
    /\ reader' = NoRead
    /\ Completes(ReadDone(reader.op, reader.frame, TRUE))
    /\ UNCHANGED <<started, has_closed, sock, writing, timer, req_id,
                   write_queue, io, serverVars, clientVars>>

\* The oldest write completes; what is written to a broken link is lost.
WriteCompletes(ec) ==
    /\ writing # <<>>
    /\ sock = "open" => ~ec
    /\ writing' = Tail(writing)
    /\ Completes(WriteDone(Head(writing), ec))
    /\ sent' = IF sock = "open" THEN Append(sent, Head(writing)) ELSE sent
    /\ UNCHANGED <<started, has_closed, sock, reader, timer, req_id,
                   write_queue, io, serverVars, inbound, asked, spent>>

LinkDrops ==
    /\ sock = "open"
    /\ Spend("drops", MaxDrops)
    /\ sock' = "broken"
    /\ UNCHANGED <<started, has_closed, reader, writing, timer, ready, req_id,
                   write_queue, io, serverVars, inbound, asked, sent>>

\* The client never uses a request id twice on a connection.
ClientSends(kind) ==
    /\ sock = "open"
    /\ Spend("frames", MaxFrames)
    /\ LET id == IF kind = "request" THEN spent'["frames"] ELSE 0
       IN  /\ inbound' = Append(inbound, [kind |-> kind, id |-> id])
           /\ asked' = asked \cup ({id} \ {0})
    /\ UNCHANGED <<started, has_closed, sockVars, timer, ready, req_id,
                   write_queue, io, serverVars, sent>>

-----------------------------------------------------------------------------
Init ==
    /\ started = FALSE
    /\ has_closed = FALSE
    /\ sock = "open"
    /\ reader = NoRead
    /\ writing = <<>>
    /\ timer = FALSE
    /\ ready = <<>>
    /\ req_id \in {0}
    /\ write_queue = <<>>
    /\ io = <<>>
    /\ answering = {} /\ doubled = {}
    /\ subscribed = FALSE
    /\ inbound = <<>>
    /\ asked = {}
    /\ sent = <<>>
    /\ spent = [what \in {"frames", "publishes", "drops"} |-> 0]

HandlerNext ==
    \/ Start
    \/ OnHeadFailed \/ OnAlienHead \/ OnHead
    \/ OnBodyFailed \/ OnRequest \/ OnSubscription
    \/ OnWritten \/ OnWriteFailed
    \/ OnTimer
    \/ Respond

ReadNext == HeadCompletes \/ BodyCompletes \/ ReadFails

Next ==
    \/ HandlerNext
    \/ \E m \in answering : RespondLater(m)
    \/ Publish
    \/ TimerExpires
    \/ ReadNext
    \/ \E ec \in BOOLEAN : WriteCompletes(ec)
    \/ LinkDrops
    \/ \E kind \in Kinds : ClientSends(kind)

Spec == Init /\ [][Next]_vars

\* The pool's thread runs the handlers that are due, the threads that hold a
\* request respond to it, time passes and the kernel carries out reads and
\* writes.  The client need not send anything and nobody need publish.
Fairness ==
    /\ WF_vars(HandlerNext)
    /\ \A m \in Message : WF_vars(RespondLater(m))
    /\ WF_vars(TimerExpires)
    /\ WF_vars(ReadNext)
    /\ WF_vars(\E ec \in BOOLEAN : WriteCompletes(ec))

FairSpec == Spec /\ Fairness

-----------------------------------------------------------------------------
(* Properties *)

\* Every variable keeps its type, and has_closed_ tells of the socket.
TypeOK ==
    /\ has_closed <=> sock = "closed"
    /\ {started, has_closed, timer, subscribed} \subseteq BOOLEAN
    /\ sock \in {"open", "broken", "closed"}
    /\ reader \in Read
    /\ {writing, write_queue, io, sent} \subseteq Seq(Message)
    /\ ready \in Seq(Completion)
    /\ req_id \in 0 .. MaxFrames
    /\ answering \subseteq Message
    /\ inbound \in Seq(Frame)
    /\ asked \subseteq Ids /\ doubled \subseteq 0 .. MaxFrames
    /\ spent \in [{"frames", "publishes", "drops"} -> Nat]

\* header_ and write_size_ belong to one message at a time: of all the threads
\* that call response(), one async_write is under way, of the queue's front.
WritesDone == {i \in DOMAIN ready : ready[i].op = "write"}
OneWrite ==
    /\ Len(writing) <= 1
    /\ writing # <<>> => /\ WritesDone = {}
                         /\ write_queue # <<>>
                         /\ Head(writing) = Head(write_queue)
    /\ \A i \in WritesDone : /\ WritesDone = {i}
                             /\ write_queue # <<>>
                             /\ ready[i].msg = Head(write_queue)

\* req_id_ is overwritten by every header: the id a response carries is still
\* that of the request it answers, whichever thread gives it and however late.
Matches(m) == m.type = "req_res" => m.id = m.of
AnswersMatch ==
    /\ \A i \in DOMAIN sent : Matches(sent[i])
    /\ \A i \in DOMAIN write_queue : Matches(write_queue[i])

\* While its link is up a connection is being read or timed, or is about to be:
\* otherwise nothing would ever close it, and connections_ would keep it.
Watched == started /\ sock = "open" =>
    \/ reader # NoRead \/ timer
    \/ \E i \in DOMAIN ready : ready[i].op \in {"head", "body", "timer"}

\* Drops and closes included, what the client is sent is what a peer promises:
\* nothing is answered that was not asked, and no request is answered twice but
\* one whose asynchronous function threw after it had handed the request on,
\* which is never answered a third time.
IsAnswer(i, id)   == sent[i].type = "req_res" /\ sent[i].id = id
Answered(id)      == \E i \in DOMAIN sent : IsAnswer(i, id)
AnsweredTwice(id) == \E i, j \in DOMAIN sent : i # j /\ IsAnswer(i, id) /\ IsAnswer(j, id)
WhileOpen(ids)    == IF sock = "open" THEN ids ELSE {}
Promise == INSTANCE PeerEnd WITH
    NoId       <- 0,
    held       <- WhileOpen({id \in asked : ~Answered(id)}),
    failed     <- WhileOpen({id \in doubled : ~AnsweredTwice(id)}),
    subscribed <- sock = "open" /\ subscribed,
    stream     <- [i \in DOMAIN sent |-> sent[i].id]
PromiseKept == Promise!Spec

\* Every request the client sends is answered, unless the link fails or the
\* connection is closed first.
AllAnswered == \A id \in Ids : id \in asked ~> Answered(id) \/ sock # "open"

\* A connection whose link is gone is closed in the end.
Reaped == sock = "broken" ~> has_closed

=============================================================================
