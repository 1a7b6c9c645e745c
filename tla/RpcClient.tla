----------------------------- MODULE RpcClient -----------------------------
(***************************************************************************)
(* The client end of an RPC connection: class rpc_client of                *)
(* include/rest_rpc/rpc_client.hpp.                                        *)
(*                                                                         *)
(* User threads issue calls, subscribe, connect and close.  One more       *)
(* thread, Io, runs the completion handlers of the client's io_context one *)
(* at a time.  The threads share has_connected_, the socket, the outbox    *)
(* (under write_mtx_) and the two maps of pending calls (under cb_mtx_).   *)
(* A thread's step is the code between two points where another thread can *)
(* interleave: one critical section, or one access to the socket.          *)
(*                                                                         *)
(* The socket, its pending operations and the scheduler's queue stand for  *)
(* the vendored asio.  In the queue, "poll" is the scheduler's task (the   *)
(* reactor) and "event" the descriptor epoll has reported; their places    *)
(* decide which handlers run before an operation on a socket completes.    *)
(* The peer stands for the server.  Header and body bytes, the codec, the  *)
(* MD5 function ids and SSL are left out.                                  *)
(***************************************************************************)
EXTENDS Integers, Sequences, FiniteSets

CONSTANTS
    Users,              \* the user threads
    Io,                 \* the thread that runs ios_.run()
    Keys,               \* the keys a user may subscribe to
    NoKey,              \* the key of a message that carries none
    TopBit,             \* 2^63: the bit that marks a callback's request id
    ReconnectCount,     \* the value given to set_reconnect_count (0 acts as the default, -1)
    Endless,            \* INT_MAX, which enable_auto_reconnect sets: it never runs out
    EnableReconnect,    \* whether enable_auto_reconnect was called
    MaxFutures,         \* bound: future calls issued
    MaxCallbacks,       \* bound: callback calls issued
    MaxConnects,        \* bound: connect() calls that start an attempt
    MaxCloses,          \* bound: close() calls made by users
    MaxDrops,           \* bound: failures of the link or of a connect
    MaxPublishes,       \* bound: publications sent by the peer
    MaxUnasked,         \* bound: heartbeats and the peer's second answers, together
    MayDestroy          \* whether a user destroys the client

FutureIds   == 1 .. MaxFutures
CallbackIds == TopBit .. (2 * TopBit - 1)
CallIds     == FutureIds \cup CallbackIds
Threads     == Users \cup {Io}

\* A bounded number of calls never wraps an id counter (2^63 calls would).
ASSUME CallAssumption ==
    /\ TopBit \in Nat
    /\ MaxFutures \in Nat /\ MaxFutures < TopBit
    /\ MaxCallbacks \in Nat /\ MaxCallbacks < TopBit
ASSUME ThreadAssumption == Io \notin Users
ASSUME KeyAssumption == IsFiniteSet(Keys) /\ NoKey \notin Keys
ASSUME EnvironmentAssumption ==
    /\ {ReconnectCount, Endless} \subseteq Nat
    /\ EnableReconnect => ReconnectCount = Endless
    /\ {EnableReconnect, MayDestroy} \subseteq BOOLEAN
    /\ {MaxConnects, MaxCloses, MaxDrops} \subseteq Nat
    /\ {MaxPublishes, MaxUnasked} \subseteq Nat

VARIABLES
    has_connected,  \* has_connected_
    reconnect_cnt,  \* reconnect_cnt_
    life,           \* how far the client's destruction has come
    sock,           \* the state of socket_
    reader,         \* the pending async_reads on socket_, oldest first
    writing,        \* the pending async_writes on socket_, oldest first
    ready,          \* the queue of what Io is to run
    outbox,         \* outbox_
    fu_id,          \* fu_id_
    callback_id,    \* callback_id_
    future_map,     \* the ids in future_map_
    callback_map,   \* the ids in callback_map_
    timed_out,      \* the ids of calls whose call_t has has_timeout_ set
    sub_map,        \* the keys in sub_map_
    key_token_set,  \* the keys in key_token_set_
    todo,           \* per thread, the steps left of the function it is in
    aborted,        \* an assert of call_back has failed
    inbound,        \* frames sent by the peer and not yet read off the stream
    peer,           \* what the peer received on this connection and still holds
    answers,        \* history: per call, what its future or callback was given
    spent           \* how much of each bound is used up

connVars == <<has_connected, reconnect_cnt, life>>
sockVars == <<sock, reader, writing>>
callVars == <<fu_id, callback_id, future_map, callback_map, timed_out, answers>>
subVars  == <<sub_map, key_token_set>>
peerVars == <<inbound, peer>>
otherVars == <<subVars, peerVars, aborted, spent>>
vars == <<connVars, sockVars, ready, outbox, callVars, todo, otherVars>>

-----------------------------------------------------------------------------
(* Messages, frames, steps and completions *)

Message == [type : {"req_res", "sub_pub"}, id : {0} \cup CallIds,
            key : Keys \cup {NoKey}]

Request(id)     == [type |-> "req_res", id |-> id, key |-> NoKey]
Subscription(k) == [type |-> "sub_pub", id |-> 0, key |-> k]
NoMessage       == Request(0)       \* also the heartbeat's empty request

\* What a thread does next; ec is the error code the handler was given.
Step ==
    [op : {"write", "register", "close", "clear_outbox", "clear_maps",
           "error_callback", "fail_callbacks", "call_back", "do_read",
           "stop", "join"},
     msg : Message, ec : BOOLEAN]
    \cup [op : {"token"}, msg : {Subscription(k) : k \in Keys}, ec : BOOLEAN]
Do(op) == [op |-> op, msg |-> NoMessage, ec |-> FALSE]
WriteOf(m) == [op |-> "write", msg |-> m, ec |-> FALSE]
CallBackOf(m, ec) == [op |-> "call_back", msg |-> m, ec |-> ec]

\* What waits for Io: the handlers of completed operations, and the reactor's.
Completion == [op : {"poll", "event", "connect", "write", "head", "body"},
               msg : Message, ec : BOOLEAN]
Done(op, m, ec) == [op |-> op, msg |-> m, ec |-> ec]
Poll  == Done("poll", NoMessage, FALSE)
Event == Done("event", NoMessage, FALSE)

\* A pending read: of a header, or of the body that belongs to a header.
Read == [op : {"head", "body"}, msg : Message, ec : {FALSE}]
HeadRead    == Done("head", NoMessage, FALSE)
BodyRead(m) == Done("body", m, FALSE)

cb_flag(id) == id >= TopBit

-----------------------------------------------------------------------------
(* The thread that takes a step *)

Idle(t)   == todo[t] = <<>>
Free      == Idle(Io) /\ life \in {"running", "closing"}   \* ios_.run() may run a handler
At(t, op) == todo[t] # <<>> /\ Head(todo[t]).op = op

\* Thread t's current step ends, and steps come before what was left.
Continue(t, steps) == todo' = [todo EXCEPT ![t] = steps \o Tail(@)]
Start(t, steps)    == todo' = [todo EXCEPT ![t] = steps]

Bounded == {"callbacks", "connects", "closes", "drops", "publishes", "repeats",
            "heartbeats"}
Spend(what, limit) == /\ spent[what] < limit
                      /\ spent' = [spent EXCEPT ![what] = @ + 1]

-----------------------------------------------------------------------------
(* Starting and cancelling operations on socket_.  An operation waits on a *)
(* socket that is connecting, connected or broken, and fails at once on    *)
(* one that is closed or was never connected.                              *)

SocketStates == {"closed", "opened", "connecting", "connected", "broken"}
Waits == sock \in {"connecting", "connected", "broken"}

\* (queue is what is left of ready once the current handler is taken off it)
StartWrite(m, queue) ==
    IF Waits THEN writing' = Append(writing, m) /\ ready' = queue
             ELSE /\ ready' = Append(queue, Done("write", m, TRUE))
                  /\ UNCHANGED writing

\* What a read that is tried now may end in: data, or the end of a broken link.
ReadResults(r) ==
    {Done(r.op, IF r.op = "head" THEN m ELSE r.msg, FALSE) :
       m \in IF inbound = <<>> THEN {} ELSE {Head(inbound)}}
    \cup IF sock = "broken" THEN {Done(r.op, r.msg, TRUE)} ELSE {}

\* A frame leaves the stream with its body; an error leaves nothing to read.
Consume(c) == inbound' = IF c.ec THEN <<>>
                         ELSE IF c.op = "body" THEN Tail(inbound) ELSE inbound

\* A read is tried at once unless others wait, and waits for an event if there
\* is nothing yet.
StartRead(r, queue) ==
    \/ Waits /\ reader' = Append(reader, r) /\ ready' = queue /\ UNCHANGED inbound
    \/ /\ reader = <<>>
       /\ \E c \in ReadResults(r) : ready' = Append(queue, c) /\ Consume(c)
       /\ UNCHANGED reader
    \/ /\ ~Waits
       /\ ready' = Append(queue, Done(r.op, r.msg, TRUE))
       /\ UNCHANGED <<reader, inbound>>

Failed(c) == Done(c.op, c.msg, TRUE)

\* The handlers of the operations a closing socket cancels, in the order in
\* which deregister_descriptor posts them: reads, then connect and writes.
Cancelled ==
    [i \in DOMAIN reader |-> Failed(reader[i])]
    \o (IF sock = "connecting" THEN <<Done("connect", NoMessage, TRUE)>>
        ELSE <<>>)
    \o [i \in DOMAIN writing |-> Done("write", writing[i], TRUE)]

\* The old socket's stream and the peer's end of it are gone.
AbandonSocket(state, queue) ==
    /\ sock' = state
    /\ reader' = <<>>
    /\ writing' = <<>>
    /\ ready' = queue \o Cancelled
    /\ inbound' = <<>>
    /\ peer' = {}

\* async_reconnect: reset_socket() then async_connect() on the new socket.
AsyncReconnect(queue) == AbandonSocket("connecting", queue)

-----------------------------------------------------------------------------
(* What a user thread does *)

\* Mutant: the id is the number of calls that are pending.
CountedFutureId == Cardinality(future_map) + 1

\* fu_id_++: an id is never given out twice.
NextFutureId == fu_id + 1

\* async_call<FUTURE>: the promise enters future_map_ under cb_mtx_; the
\* request is written in a later step.
AsyncCallFuture(u) ==
    /\ Idle(u)
    /\ fu_id < MaxFutures
    /\ fu_id' = NextFutureId
    /\ future_map' = future_map \cup {fu_id'}
    /\ Start(u, <<WriteOf(Request(fu_id'))>>)
    /\ UNCHANGED <<connVars, sockVars, ready, outbox, callback_id,
                   callback_map, timed_out, answers, otherVars>>

\* async_call with a callback: has_connected_ is read outside any lock.  A
\* call made while it is false is refused on the spot and leaves no trace.
AsyncCallCallback(u) ==
    /\ Idle(u)
    /\ has_connected
    /\ Spend("callbacks", MaxCallbacks)
    /\ Start(u, <<Do("register")>>)
    /\ UNCHANGED <<connVars, sockVars, ready, outbox, callVars, subVars,
                   aborted, peerVars>>

\* Mutant: the top bit is not set.
PlainCallbackId == callback_id + 1

\* callback_id_++; callback_id_ |= uint64_t(1) << 63
NextCallbackId ==
    LET next == IF callback_id + 1 = 2 * TopBit THEN 0 ELSE callback_id + 1
    IN  IF cb_flag(next) THEN next ELSE next + TopBit

\* The second half of async_call: under cb_mtx_ the call_t enters
\* callback_map_ and its timer is armed.
RegisterCallback(u) ==
    /\ At(u, "register")
    /\ callback_id' = NextCallbackId
    /\ callback_map' = callback_map \cup {callback_id'}
    /\ Continue(u, <<WriteOf(Request(callback_id'))>>)
    /\ UNCHANGED <<connVars, sockVars, ready, outbox, fu_id, future_map,
                   timed_out, answers, otherVars>>

\* Mutant: a message is sent at once, whatever is being sent.
WriteAlways(m) == StartWrite(m, ready)

\* if(outbox_.size()>1) return; write();
WriteIfFirst(m) == IF outbox = <<>> THEN StartWrite(m, ready)
                                    ELSE UNCHANGED <<writing, ready>>

\* write(req_id, type, message, func_id), under write_mtx_: the message joins
\* the outbox, and is sent now if it is the only one there.
Write(t) ==
    /\ At(t, "write")
    /\ LET m == Head(todo[t]).msg
       IN  /\ outbox' = Append(outbox, m)
           /\ WriteIfFirst(m)
    /\ Continue(t, <<>>)
    /\ UNCHANGED <<connVars, sock, reader, callVars, otherVars>>

\* subscribe: a key already in sub_map_ is refused.  The subscription is sent
\* before key_token_set_, which resend_subscribe reads, records it.
Subscribe(u, k) ==
    /\ Idle(u)
    /\ k \notin sub_map
    /\ sub_map' = sub_map \cup {k}
    /\ Start(u, <<WriteOf(Subscription(k)),
                  [Do("token") EXCEPT !.msg = Subscription(k)]>>)
    /\ UNCHANGED <<connVars, sockVars, ready, outbox, callVars, key_token_set,
                   aborted, peerVars, spent>>

RecordToken(u) ==
    /\ At(u, "token")
    /\ key_token_set' = key_token_set \cup {Head(todo[u]).msg.key}
    /\ Continue(u, <<>>)
    /\ UNCHANGED <<connVars, sockVars, ready, outbox, callVars, sub_map,
                   aborted, peerVars, spent>>

\* connect() on a client that is not connected: async_connect opens a closed
\* socket, and fails at once on one that is connecting or was connected.
Connect(u) ==
    /\ Idle(u)
    /\ ~has_connected
    /\ Spend("connects", MaxConnects)
    /\ IF Waits THEN /\ ready' = Append(ready, Done("connect", NoMessage, TRUE))
                     /\ UNCHANGED sock
                ELSE sock' = "connecting" /\ UNCHANGED ready
    /\ UNCHANGED <<connVars, reader, writing, outbox, callVars, subVars, todo,
                   aborted, peerVars>>

\* The maps are emptied: the promises are destroyed, which their futures see;
\* the callbacks are destroyed without being called.
ForgetCalls ==
    /\ future_map' = {}
    /\ callback_map' = {}
    /\ answers' = [id \in CallIds |->
                     IF id \in future_map THEN Append(answers[id], "dropped")
                                          ELSE answers[id]]

UserClose(u) ==
    /\ Idle(u)
    /\ Spend("closes", MaxCloses)
    /\ Start(u, <<Do("close")>>)
    /\ UNCHANGED <<connVars, sockVars, ready, outbox, callVars, subVars,
                   aborted, peerVars>>

\* ~rpc_client: close(), then stop().  Whoever destroys a client sees to it that
\* no other thread is in one of its functions.
Destroy(u) ==
    /\ MayDestroy
    /\ \A t \in Users : Idle(t)
    /\ life' = "closing"
    /\ Start(u, <<Do("close"), Do("stop"), Do("join")>>)
    /\ UNCHANGED <<has_connected, reconnect_cnt, sockVars, ready, outbox,
                   callVars, otherVars>>

\* ios_.stop(): the handler that is running is the last one.
Stop(u) ==
    /\ At(u, "stop")
    /\ life' = "stopped"
    /\ Continue(u, <<>>)
    /\ UNCHANGED <<has_connected, reconnect_cnt, sockVars, ready, outbox,
                   callVars, otherVars>>

\* Mutant: stop() does not wait for the thread.
Detached == TRUE

\* thd_->join() returns when ios_.run() has returned.
Joined == Idle(Io)

\* After the join the members go: the socket, the handlers that never ran, the
\* messages, the callbacks, and the promises, which their futures see.
Join(u) ==
    /\ At(u, "join")
    /\ Joined
    /\ life' = "destroyed"
    /\ sock' = "closed" /\ reader' = <<>> /\ writing' = <<>>
    /\ inbound' = <<>> /\ peer' = {}
    /\ ready' = <<>>
    /\ outbox' = <<>>
    /\ ForgetCalls
    /\ Continue(u, <<>>)
    /\ UNCHANGED <<has_connected, reconnect_cnt, fu_id, callback_id, timed_out,
                   subVars, aborted, spent>>

-----------------------------------------------------------------------------
(* close() and error_callback(), which handlers and users share *)

\* close() does nothing on a client that is not connected.
Close(t) ==
    /\ At(t, "close")
    /\ \/ /\ ~has_connected
          /\ Continue(t, <<>>)
          /\ UNCHANGED <<has_connected, sockVars, ready, peerVars>>
       \/ /\ has_connected
          /\ has_connected' = FALSE
          /\ AbandonSocket("closed", ready)
          /\ Continue(t, <<Do("clear_outbox"), Do("clear_maps")>>)
    /\ UNCHANGED <<reconnect_cnt, life, outbox, callVars, subVars, aborted, spent>>

\* clear_cache, first critical section (write_mtx_)
ClearOutbox(t) ==
    /\ At(t, "clear_outbox")
    /\ outbox' = <<>>
    /\ Continue(t, <<>>)
    /\ UNCHANGED <<connVars, sockVars, ready, callVars, otherVars>>

\* clear_cache, second critical section (cb_mtx_)
ClearMaps(t) ==
    /\ At(t, "clear_maps")
    /\ ForgetCalls
    /\ Continue(t, <<>>)
    /\ UNCHANGED <<connVars, sockVars, ready, outbox, fu_id, callback_id,
                   timed_out, otherVars>>

\* Mutant: error_callback does not reconnect.
ErrorCallbackQuiet(t) ==
    /\ At(t, "error_callback")
    /\ Continue(t, <<>>)
    /\ UNCHANGED <<connVars, sockVars, ready, outbox, callVars, otherVars>>

\* error_callback: reconnects if enable_auto_reconnect was called.
ErrorCallback(t) ==
    /\ At(t, "error_callback")
    /\ IF EnableReconnect THEN AsyncReconnect(ready)
                          ELSE UNCHANGED <<sockVars, ready, peerVars>>
    /\ Continue(t, <<>>)
    /\ UNCHANGED <<connVars, outbox, callVars, subVars, aborted, spent>>

-----------------------------------------------------------------------------
(* The handlers Io runs *)

\* Io takes the oldest completion when it is in no handler.
Handles(op) == Free /\ ready # <<>> /\ Head(ready).op = op

\* async_connect's handler: ignored when already connected.
OnConnectIgnored ==
    /\ Handles("connect")
    /\ has_connected
    /\ ready' = Tail(ready)
    /\ UNCHANGED <<connVars, sockVars, outbox, callVars, todo, otherVars>>

\* async_connect's handler, on error: retried while reconnect_cnt_ lasts.
OnConnectFailed ==
    /\ Handles("connect")
    /\ ~has_connected
    /\ Head(ready).ec
    /\ \/ /\ reconnect_cnt <= 0
          /\ ready' = Tail(ready)
          /\ UNCHANGED <<reconnect_cnt, sockVars, peerVars>>
       \/ /\ reconnect_cnt > 0
          /\ reconnect_cnt' = IF reconnect_cnt = Endless THEN Endless
                              ELSE reconnect_cnt - 1
          /\ AsyncReconnect(Tail(ready))
    /\ UNCHANGED <<has_connected, life, outbox, callVars, subVars, todo, aborted,
                   spent>>

\* Mutant: a new connection does not subscribe.
NoOrder == {<<>>}

\* The orders in which resend_subscribe may go through key_token_set_
Orders == {order \in [1 .. Cardinality(key_token_set) -> key_token_set] :
             \A i, j \in DOMAIN order : order[i] = order[j] => i = j}

\* async_connect's handler, on success: do_read, then resend_subscribe.
OnConnected(order) ==
    /\ Handles("connect")
    /\ ~has_connected
    /\ ~Head(ready).ec
    /\ has_connected' = TRUE
    /\ ready' = Tail(ready)
    /\ Start(Io, <<Do("do_read")>>
                 \o [i \in DOMAIN order |-> WriteOf(Subscription(order[i]))])
    /\ UNCHANGED <<reconnect_cnt, life, sockVars, outbox, callVars, otherVars>>

\* Mutant: the write chain ends with its first message.
WriteNoMore(queue) == ready' = queue /\ UNCHANGED writing

\* if(!outbox_.empty()) this->write(), once the front has been popped
WriteNext(queue) == IF Len(outbox) > 1 THEN StartWrite(outbox[2], queue)
                                       ELSE ready' = queue /\ UNCHANGED writing

\* The write handler: on success the front of the outbox is popped, whatever
\* it is by now, and the next message is sent.
OnWritten ==
    /\ Handles("write")
    /\ ~Head(ready).ec
    /\ outbox' = IF outbox = <<>> THEN <<>> ELSE Tail(outbox)
    /\ WriteNext(Tail(ready))
    /\ UNCHANGED <<connVars, sock, reader, callVars, todo, otherVars>>

\* The write handler, on error: has_connected_ is cleared before close() looks
\* at it.
OnWriteFailed ==
    /\ Handles("write")
    /\ Head(ready).ec
    /\ has_connected' = FALSE
    /\ ready' = Tail(ready)
    /\ Start(Io, <<Do("close"), Do("error_callback")>>)
    /\ UNCHANGED <<reconnect_cnt, life, sockVars, outbox, callVars, otherVars>>

\* do_read's handler on a socket that was closed meanwhile
OnHeadClosed ==
    /\ Handles("head")
    /\ sock = "closed"
    /\ has_connected' = FALSE
    /\ ready' = Tail(ready)
    /\ UNCHANGED <<reconnect_cnt, life, sockVars, outbox, callVars, todo, otherVars>>

\* do_read's handler: the header is remembered and the body is read.
OnHead ==
    /\ Handles("head")
    /\ sock # "closed"
    /\ ~Head(ready).ec
    /\ StartRead(BodyRead(Head(ready).msg), Tail(ready))
    /\ UNCHANGED <<connVars, sock, writing, outbox, callVars, todo, subVars, peer,
                   aborted, spent>>

\* do_read's handler, on error: every registered callback is called.
OnHeadFailed ==
    /\ Handles("head")
    /\ sock # "closed"
    /\ Head(ready).ec
    /\ ready' = Tail(ready)
    /\ Start(Io, <<Do("fail_callbacks"), Do("close"), Do("error_callback")>>)
    /\ UNCHANGED <<connVars, sockVars, outbox, callVars, otherVars>>

\* read_body's handler on a socket that was closed meanwhile
OnBodyClosed ==
    /\ Handles("body")
    /\ sock = "closed"
    /\ ready' = Tail(ready)
    /\ Start(Io, <<CallBackOf(Head(ready).msg, TRUE)>>)
    /\ UNCHANGED <<connVars, sockVars, outbox, callVars, otherVars>>

\* callback_sub: a subscriber's function that throws, and a publication that
\* does not unpack, end in error_callback.
CallbackSub == {<<>>, <<Do("error_callback")>>}

\* Mutant: a response ends the loop.
BodyStepsOnce(m) ==
    IF m.type = "req_res" THEN {<<CallBackOf(m, FALSE)>>}
    ELSE {steps \o <<Do("do_read")>> : steps \in CallbackSub}

\* Mutant: a response both goes on reading and lets the loop go on.
BodyStepsTwice(m) ==
    {steps \o <<Do("do_read")>> :
       steps \in IF m.type = "req_res" THEN {<<CallBackOf(m, FALSE), Do("do_read")>>}
                                       ELSE CallbackSub}

\* What read_body's handler may do with the body it was given: a response
\* completes its call, a publication runs the subscriber's function; either way
\* the loop goes on.
BodySteps(m) ==
    {steps \o <<Do("do_read")>> :
       steps \in IF m.type = "req_res" THEN {<<CallBackOf(m, FALSE)>>}
                                       ELSE CallbackSub}

OnBody ==
    /\ Handles("body")
    /\ sock # "closed"
    /\ ~Head(ready).ec
    /\ ready' = Tail(ready)
    /\ \E steps \in BodySteps(Head(ready).msg) : Start(Io, steps)
    /\ UNCHANGED <<connVars, sockVars, outbox, callVars, otherVars>>

\* read_body's handler, on error
OnBodyFailed ==
    /\ Handles("body")
    /\ sock # "closed"
    /\ Head(ready).ec
    /\ has_connected' = FALSE
    /\ ready' = Tail(ready)
    /\ Start(Io, <<CallBackOf(Head(ready).msg, TRUE), Do("close"),
                   Do("error_callback")>>)
    /\ UNCHANGED <<reconnect_cnt, life, sockVars, outbox, callVars, otherVars>>

DoRead ==
    /\ At(Io, "do_read")
    /\ StartRead(HeadRead, ready)
    /\ Continue(Io, <<>>)
    /\ UNCHANGED <<connVars, sock, writing, outbox, callVars, subVars, peer,
                   aborted, spent>>

\* for(auto& item : callback_map_) item.second->callback(ec, {}), under
\* cb_mtx_; the entries stay in the map.
FailCallbacks ==
    /\ At(Io, "fail_callbacks")
    /\ answers' = [id \in CallIds |->
                     IF id \in callback_map THEN Append(answers[id], "error")
                                            ELSE answers[id]]
    /\ Continue(Io, <<>>)
    /\ UNCHANGED <<connVars, sockVars, ready, outbox, fu_id, callback_id,
                   future_map, callback_map, timed_out, otherVars>>

Answer(id, ec) == IF cb_flag(id) /\ id \in timed_out THEN "timed_out"
                  ELSE IF ec THEN "error" ELSE "data"

\* Mutant: a settled call stays in its map.
KeepEntry(map, id) == map

\* future_map_.erase(req_id), callback_map_.erase(req_id)
Erase(map, id) == map \ {id}

\* call_back(req_id, ec, data): operator[] yields a null entry for an id that
\* is not in the map, which assert(cl) and assert(f) reject.
CallBack ==
    /\ At(Io, "call_back")
    /\ LET id == Head(todo[Io]).msg.id
           ec == Head(todo[Io]).ec
       IN  IF id \in future_map \cup callback_map
             THEN /\ answers' = [answers EXCEPT ![id] = Append(@, Answer(id, ec))]
                  /\ future_map' = Erase(future_map, id)
                  /\ callback_map' = Erase(callback_map, id)
                  /\ UNCHANGED aborted
             ELSE /\ aborted' = TRUE
                  /\ UNCHANGED <<answers, future_map, callback_map>>
    /\ Continue(Io, <<>>)
    /\ UNCHANGED <<connVars, sockVars, ready, outbox, fu_id, callback_id,
                   timed_out, subVars, peerVars, spent>>

\* The reactor finds a call_t's timer expired; its handler only marks the call.
OnTimer(id) ==
    /\ Handles("poll")
    /\ id \in callback_map \ timed_out
    /\ timed_out' = timed_out \cup {id}
    /\ UNCHANGED <<connVars, sockVars, ready, outbox, fu_id, callback_id,
                   future_map, callback_map, answers, todo, otherVars>>

\* The handler of deadline_, when it was not cancelled: an empty request is
\* written, among the users' messages.
OnHeartbeat ==
    /\ Handles("poll")
    /\ has_connected
    /\ Spend("heartbeats", MaxUnasked - spent["repeats"])
    /\ Start(Io, <<WriteOf(NoMessage)>>)
    /\ UNCHANGED <<connVars, sockVars, ready, outbox, callVars, subVars,
                   aborted, peerVars>>

-----------------------------------------------------------------------------
(* The socket's operations complete; the peer answers, publishes or goes.  *)
(* Connects and reads are carried out when Io comes to the descriptor's    *)
(* event: the first operation that completes has its handler run at once.  *)
(* A write is tried by the thread that starts it.                          *)

Completes(c) == ready' = Append(ready, c)

\* An operation that waits for the descriptor could complete.
Due == sock = "connecting" \/ (reader # <<>> /\ ReadResults(Head(reader)) # {})

\* The reactor has found nothing, and has its next turn after what is queued.
PollNothing ==
    /\ Handles("poll")
    /\ ready' = Append(Tail(ready), Poll)
    /\ UNCHANGED <<connVars, sockVars, outbox, callVars, todo, otherVars>>

\* epoll reports the socket: its descriptor is queued, unless it is already.
PollReports ==
    /\ Handles("poll")
    /\ Due
    /\ \A i \in DOMAIN ready : ready[i] # Event
    /\ ready' = Tail(ready) \o <<Event, Poll>>
    /\ UNCHANGED <<connVars, sockVars, outbox, callVars, todo, otherVars>>

\* The event has come to nothing: a descriptor that was closed while it was
\* queued, and may be in use again by the next socket.
EventStale ==
    /\ Handles("event")
    /\ ready' = Tail(ready)
    /\ UNCHANGED <<connVars, sockVars, outbox, callVars, todo, otherVars>>

ConnectSucceeds ==
    /\ Handles("event")
    /\ sock = "connecting"
    /\ sock' = "connected"
    /\ ready' = <<Done("connect", NoMessage, FALSE)>> \o Tail(ready)
    /\ UNCHANGED <<connVars, reader, writing, outbox, callVars, todo,
                   otherVars>>

\* Everything pending on the descriptor fails with the connect: the writes
\* queued behind it, then the reads.
ConnectFails ==
    /\ Handles("event")
    /\ sock = "connecting"
    /\ Spend("drops", MaxDrops)
    /\ sock' = "opened"
    /\ reader' = <<>>
    /\ writing' = <<>>
    /\ ready' = <<Done("connect", NoMessage, TRUE)>> \o Tail(ready)
                \o [i \in DOMAIN writing |-> Done("write", writing[i], TRUE)]
                \o [i \in DOMAIN reader |-> Failed(reader[i])]
    /\ UNCHANGED <<connVars, outbox, callVars, subVars, todo, aborted,
                   peerVars>>

\* The oldest read completes; another one waits for the next event.
ReadCompletes ==
    /\ Handles("event")
    /\ reader # <<>>
    /\ \E c \in ReadResults(Head(reader)) :
         ready' = <<c>> \o Tail(ready) /\ Consume(c)
    /\ reader' = Tail(reader)
    /\ UNCHANGED <<connVars, sock, writing, outbox, callVars, subVars, todo,
                   aborted, peer, spent>>

LinkDrops ==
    /\ sock = "connected"
    /\ Spend("drops", MaxDrops)
    /\ sock' = "broken"
    /\ peer' = {}
    /\ UNCHANGED <<connVars, reader, writing, ready, outbox, callVars, subVars,
                   todo, aborted, inbound>>

\* The oldest write completes; what is written to a broken link is lost.
WriteCompletes(ec) ==
    /\ writing # <<>>
    /\ \/ sock = "connected" /\ ~ec
       \/ sock = "broken"
    /\ writing' = Tail(writing)
    /\ Completes(Done("write", Head(writing), ec))
    /\ peer' = IF sock = "connected" THEN peer \cup {Head(writing)} ELSE peer
    /\ UNCHANGED <<connVars, sock, reader, outbox, callVars, subVars, todo,
                   aborted, inbound, spent>>

\* A request is answered under its own id; a heartbeat is not answered.
PeerAnswers(m) ==
    /\ m \in peer
    /\ m.type = "req_res" /\ m # NoMessage
    /\ peer' = peer \ {m}
    /\ inbound' = Append(inbound, m)
    /\ UNCHANGED <<connVars, sockVars, ready, outbox, callVars, subVars, todo,
                   aborted, spent>>

\* The server's second answer to one request (AnswerAgain of PeerEnd)
PeerRepeats(m) ==
    /\ m \in peer
    /\ m.type = "req_res" /\ m # NoMessage
    /\ Spend("repeats", MaxUnasked - spent["heartbeats"])
    /\ inbound' = Append(inbound, m)
    /\ UNCHANGED <<connVars, sockVars, ready, outbox, callVars, subVars, todo,
                   aborted, peer>>

\* A publication carries request id 0 and stays subscribed to.
PeerPublishes(m) ==
    /\ m \in peer
    /\ m.type = "sub_pub"
    /\ Spend("publishes", MaxPublishes)
    /\ inbound' = Append(inbound, m)
    /\ UNCHANGED <<connVars, sockVars, ready, outbox, callVars, subVars, todo,
                   aborted, peer>>

-----------------------------------------------------------------------------
Init ==
    /\ has_connected = FALSE
    /\ reconnect_cnt = ReconnectCount
    /\ life = "running"
    /\ sock = "closed"
    /\ reader = <<>>
    /\ writing = <<>>
    /\ ready = <<Poll>>
    /\ outbox = <<>>
    /\ fu_id = 0
    /\ callback_id = 0
    /\ future_map = {}
    /\ callback_map = {}
    /\ timed_out = {}
    /\ sub_map = {}
    /\ key_token_set = {}
    /\ todo = [t \in Threads |-> <<>>]
    /\ aborted = FALSE
    /\ inbound = <<>>
    /\ peer = {}
    /\ answers = [id \in CallIds |-> <<>>]
    /\ spent = [what \in Bounded |-> 0]

UserNext(u) ==
    \/ AsyncCallFuture(u) \/ AsyncCallCallback(u) \/ RegisterCallback(u)
    \/ \E k \in Keys : Subscribe(u, k)
    \/ RecordToken(u)
    \/ Connect(u)
    \/ UserClose(u) \/ Destroy(u)

\* The steps that a user's call and a handler have in common
SharedNext(t) ==
    \/ Write(t) \/ Close(t) \/ ClearOutbox(t) \/ ClearMaps(t)
    \/ ErrorCallback(t)

HandlerNext ==
    \/ OnConnectIgnored \/ OnConnectFailed \/ \E o \in Orders : OnConnected(o)
    \/ OnWritten \/ OnWriteFailed
    \/ OnHeadClosed \/ OnHead \/ OnHeadFailed
    \/ OnBodyClosed \/ OnBody \/ OnBodyFailed
    \/ DoRead \/ FailCallbacks \/ CallBack

TimerNext == OnHeartbeat \/ \E id \in CallbackIds : OnTimer(id)

SocketNext ==
    \/ PollNothing \/ PollReports \/ EventStale
    \/ ConnectSucceeds \/ ConnectFails \/ ReadCompletes
    \/ LinkDrops
    \/ \E ec \in BOOLEAN : WriteCompletes(ec)

PeerNext == \E m \in peer : PeerAnswers(m) \/ PeerRepeats(m) \/ PeerPublishes(m)

\* A failed assertion stops the program.
Next == /\ ~aborted
        /\ \/ life = "running" /\ \E u \in Users : UserNext(u)
           \/ \E u \in Users : Stop(u) \/ Join(u)
           \/ \E t \in Threads : SharedNext(t)
           \/ HandlerNext
           \/ TimerNext
           \/ SocketNext
           \/ PeerNext

Spec == Init /\ [][Next]_vars

\* The threads are scheduled, ios_.run() runs the handlers that are due, and the
\* kernel carries out the operations on the socket.  Nobody has to call, connect
\* or close, and no link has to fail.
LocalFairness ==
    /\ \A u \in Users : WF_vars(~aborted /\ (RegisterCallback(u) \/ RecordToken(u)))
    /\ \A u \in Users : WF_vars(~aborted /\ (Stop(u) \/ Join(u)))
    /\ \A t \in Threads : WF_vars(~aborted /\ SharedNext(t))
    /\ WF_vars(~aborted /\ (HandlerNext \/ PollNothing \/ EventStale))
    /\ SF_vars(~aborted /\ PollReports)
    /\ SF_vars(~aborted /\ (ConnectSucceeds \/ ConnectFails \/ ReadCompletes))
    /\ WF_vars(~aborted /\ \E ec \in BOOLEAN : WriteCompletes(ec))

\* The peer answers every request it holds.
PeerFairness ==
    \A id \in CallIds : WF_vars(~aborted /\ PeerAnswers(Request(id)))

FairSpec == Spec /\ LocalFairness /\ PeerFairness

-----------------------------------------------------------------------------
(* Properties *)

Outcomes == {"data", "error", "timed_out", "dropped"}

\* Every variable keeps its type, and the callback ids keep their top bit.
TypeOK ==
    /\ has_connected \in BOOLEAN
    /\ reconnect_cnt \in 0 .. ReconnectCount
    /\ life \in {"running", "closing", "stopped", "destroyed"}
    /\ sock \in SocketStates
    /\ reader \in Seq(Read)
    /\ writing \in Seq(Message)
    /\ ready \in Seq(Completion)
    /\ outbox \in Seq(Message)
    /\ fu_id \in 0 .. MaxFutures
    /\ callback_id \in {0} \cup CallbackIds
    /\ future_map \subseteq FutureIds
    /\ callback_map \subseteq CallbackIds
    /\ timed_out \subseteq CallbackIds
    /\ sub_map \subseteq Keys
    /\ key_token_set \subseteq Keys
    /\ todo \in [Threads -> Seq(Step)]
    /\ aborted \in BOOLEAN
    /\ inbound \in Seq(Message)
    /\ peer \subseteq Message
    /\ answers \in [CallIds -> Seq(Outcomes)]
    /\ spent \in [Bounded -> Nat]

\* The write completions that wait for Io
WritesDone == {i \in DOMAIN ready : ready[i].op = "write"}

\* At most one async_write is under way, and it is of the outbox's front.
IsFront(m) == outbox # <<>> /\ Head(outbox) = m
FrontOnly ==
    /\ \A i \in DOMAIN writing : i = 1 /\ IsFront(writing[i]) /\ WritesDone = {}
    /\ \A i, j \in WritesDone : i = j /\ IsFront(ready[i].msg)

\* header_ and write_size_ belong to one message at a time.  Callers, heartbeats,
\* write handlers, failures and reconnects leave it so, in any order; only
\* clear_cache, which empties the outbox whatever is under way, lets a second
\* async_write start before the first one's handler has run.
OneWrite == [][FrontOnly => FrontOnly' \/ \E t \in Threads : ClearOutbox(t)]_vars

\* A queued message does not wait for a write that nobody started: while the
\* outbox holds something, some async_write's handler is still to come.  Only
\* the handler of a failed write leaves it otherwise, a call's before the
\* connection is there included.
OutboxServed == outbox # <<>> => writing # <<>> \/ WritesDone # {}
OutboxAlive == [][OutboxServed => OutboxServed' \/ OnWriteFailed]_vars

\* What the asserts of call_back rely on.  A response names a call that is
\* pending: none comes for a call that was told its result, whatever fails in
\* whichever order.  It may come for one that clear_cache has forgotten, after
\* close(); the error path also passes a publication's id, 0, which names none.
\* (One connect() and no automatic reconnection: then there is one read loop.)
Undone(id) == answers[id] \in {<<>>, <<"dropped">>}
NoAbort ==
    At(Io, "call_back") /\ Head(todo[Io]).msg.type = "req_res"
    /\ ~EnableReconnect /\ spent["connects"] <= 1 /\ spent["repeats"] = 0 =>
        LET id == Head(todo[Io]).msg.id
        IN  \/ id \in future_map \cup callback_map
            \/ Undone(id) /\ (spent["closes"] > 0 \/ life # "running")

\* A promise is set or destroyed once: set_value would throw the second time.
FutureOnce == \A id \in FutureIds : Len(answers[id]) <= 1

\* A callback is called once, by its response or by the failed read: without
\* automatic reconnection, once for each connect() that started an attempt.
CallbackOnce == ~EnableReconnect =>
    \A id \in CallbackIds : Len(answers[id]) <= spent["connects"]

\* The asynchronous reads that are pending, completed or about to be started
ReadsDone == {i \in DOMAIN ready : ready[i].op \in {"head", "body"}}
ReadsDue  == {i \in DOMAIN todo[Io] : todo[Io][i].op = "do_read"}
Readers   == Len(reader) + Cardinality(ReadsDone) + Cardinality(ReadsDue)

\* head_ and body_ belong to one read loop: without automatic reconnection no
\* connect() leads to two, however often the attempt is retried, whatever fails
\* and whoever closes the client meanwhile.
SingleReader == ~EnableReconnect => Readers <= spent["connects"]

\* A client that believes it is connected is reading: nothing else would tell
\* it of responses or of the end of the connection.
ReaderAlive == has_connected /\ life # "destroyed" =>
    \/ Readers >= 1
    \/ \E i \in DOMAIN todo[Io] : todo[Io][i].op = "close"

\* With enable_auto_reconnect, however the reconnect attempts overtake and
\* cancel each other, a client that was told to connect, and not to close, is in
\* the end connected for as long as the link lasts.
Reconnects == <>[](\/ spent["connects"] = 0
                   \/ has_connected /\ sock = "connected"
                   \/ aborted \/ spent["closes"] > 0 \/ life # "running")

\* What each future call has come to, in the terms of PendingCalls
Status == [id \in FutureIds |->
             IF id \in future_map THEN "pending"
             ELSE IF answers[id] = <<>> THEN "unused"
             ELSE answers[id][Len(answers[id])]]

\* The future calls behave as PendingCalls says: drops, reconnects and closes
\* included, no promise is lost track of, settled twice or shared by two calls.
Calls == INSTANCE PendingCalls WITH Ids <- FutureIds, status <- Status
CallsRefined == Calls!Spec

\* Until the link fails, a subscriber's function fails while the client
\* reconnects by itself, or somebody closes or destroys the client
Calm == /\ spent["drops"] = 0 /\ spent["closes"] = 0
        /\ EnableReconnect => spent["publishes"] = 0
        /\ life = "running"

\* Every call that was issued is told something in the end, unless one that was
\* written before the connection was there has left the outbox stuck.
Told(id) == answers[id] # <<>> \/ ~OutboxServed \/ ~Calm \/ aborted
AllSettled ==
    /\ \A id \in FutureIds : fu_id >= id ~> Told(id)
    /\ \A id \in CallbackIds : id \in callback_map ~> Told(id)

\* With enable_auto_reconnect, what was subscribed to is subscribed to again on
\* the next connection, unless an earlier failure has left the outbox stuck, a
\* subscriber's function has failed (its reconnection is no new connection to
\* async_connect's handler, which does not subscribe), or somebody closed the
\* client.
Resubscribes == \A k \in Keys :
    k \in key_token_set /\ ~has_connected ~>
        \/ Subscription(k) \in peer
        \/ ~OutboxServed
        \/ spent["publishes"] > 0
        \/ aborted \/ spent["closes"] > 0 \/ life # "running"

\* Nothing runs in a client that was destroyed: no handler that was due, no
\* operation that was pending, no timer.
Untouched == [][life # "destroyed"]_vars

====
