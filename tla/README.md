# A verification of ZK_RPC in TLA+

ZK_RPC is a header-only RPC framework in C++: a server registers functions under names, a client calls them by name over
TCP, synchronously, with a future or with a callback; a client may subscribe to keys and the server publishes to them;
servers enter their address in ZooKeeper and clients find them there. The library is `src/include/rest_rpc/`; everything
else in the repository is a vendored library, an example or a test.

This directory holds TLA+ modules translated from that code, TLC configurations that check them on small instances,
theorems checked by TLAPS, and `PROJECT.json`, which relates every definition to its lines (`map`), every property to the
run that checks it and to a plausible bug that breaks it (`mutants`), and every hazard of the code to its properties.

Line numbers below are of `src/include/rest_rpc/`. Modules are checked with `tlc -config X.cfg M` (which module goes with
which configuration: section 4) and proofs with `tlapm M_proofs.tla`, in this directory.

## 1. The system

### Components

| component | code | state | operations |
|---|---|---|---|
| RPC client | `rpc_client.hpp` | `has_connected_`, `reconnect_cnt_`, `socket_`, `outbox_`, `fu_id_`, `callback_id_`, `future_map_`, `callback_map_`, `sub_map_`, `key_token_set_` | connect, async_call (future, callback), call, subscribe, close, write, do_read/read_body, call_back, clear_cache, error_callback/async_reconnect, resend_subscribe, stop, the destructor, wait_conn, update_addr |
| heartbeat | `rpc_client.hpp`, `connection.h` | `deadline_`; the connection's `timer_` | enable_auto_heartbeat, reset_deadline_timer and its handler, against reset_timer/cancel_timer |
| server connection | `connection.h` | `has_closed_`, `socket_`, `timer_`, `req_id_`, `write_queue_` | start, read_head, read_body, response, write/on_write, publish, close, reset_timer/cancel_timer |
| router | `router.h` | `map_invokers_`, `key2func_name_` | register_handler, remove_handler, route, invoker::apply |
| RPC server | `rpc_server.h` | `connections_`, `conn_id_`, `stop_check_`, `has_stoped_`, its threads | accept, clean, run, async_run, stop, the signal handler |
| publish and subscribe | `rpc_server.h` | `sub_map_`, `token_list_`, `stop_check_pub_sub_` | the subscription callback, publish, clean_sub_pub |
| service registry | `zookeeperclient.hpp`, `rpc_server.h`, `rpc_client.hpp` | znodes, sessions, the client's `host_`/`port_` | start, create, create_method, get_data, and their callers |
| configuration file | `configure.hpp` | `configure_map_` | load, trim, find |
| thread pool | `io_service_pool.h` | io_contexts, their threads | run, stop, get_io_service |
| codec, MD5, metaprogramming | `codec.h`, `client_util.hpp`, `md5.hpp`, `meta_util.hpp`, ... | none | pure functions |

### How they interact

* **Client - connection**: one TCP connection carries frames (header: magic, type, length, request id, hash of the
  function's name; then the body). A request's id comes back with its response; a publication has id 0. Nothing else tells
  the client which call an answer belongs to.
* **Connection - router**: `read_body`'s handler calls `router::route`, which either answers through
  `connection::response` on the same thread, or runs an asynchronous function that answers later on a thread of its own.
* **Connection - server**: the accept handler stores a connection under a number; a subscription goes to the server's
  `sub_map_` through a callback; `publish` finds connections in it. Two cleaning threads poll `has_closed()`. A connection
  never tells the server that it has closed.
* **Server, client - ZooKeeper**: the server's constructor creates the service's persistent znode (its value is
  `host:port`), `register_handler` an ephemeral znode per function; a client's constructor and `connect(name)` read the former.

### What is hard

* **Threads.** In the client: user threads and the thread that runs `ios_` share the outbox (`write_mtx_`), the maps
  (`cb_mtx_`), and without any lock `has_connected_` and the socket. A call is checked, registered and written in three
  steps. On the server: one io_context per thread, threads of asynchronous functions and publishers that respond on a
  connection, two cleaning threads, the signal handler and the destructor.
* **Completion handlers.** Between starting an operation and its handler anything may happen: the socket may be closed,
  replaced (`reset_socket`) and connected again, and the handler of the old operation then acts on the new socket.
* **Failure.** Every handler has an error branch, with its own order of `has_connected_ = false`, `call_back`, `close`
  and `error_callback`. Reconnecting, retrying and closing overtake each other.
* **Time.** A connection's idle timer against the client's heartbeat, a call's timer, polling threads.
* **Distribution.** `create()` is two requests; sessions expire; servers crash and are started again.

### What makes each component correct

* *Client*: one message is sent at a time and it is the outbox's front; what is queued has a write to send it; every call is
  settled, once, with its own answer; a response finds its call; the read loop runs once, and runs whenever the client counts as connected; with automatic
  reconnection the client is connected in the end, and subscribed to what it was; nothing runs in a client that was destroyed.
* *Connection*: the same for its queue; every answer carries its request's id; every request is answered, once (twice only if
  its function throws late), or the connection closes; a connection is read or timed until it closes.
* *Router*: a call by name runs the function registered under that name, or under one with the same hash; it is answered, or
  a thread has taken on to answer it.
* *Server*: an accepted connection is stored under its own number until it has closed and its end has been reported, once;
  `publish()` reaches all subscribers that are open; tokens go with their subscriptions; whoever has returned
  from `stop()` leaves no thread behind that uses the server's members.
* *Heartbeat*: a silent client is given up, one that beats is not.
* *Configuration*: what `rpc.conf` says of a key is what `find` returns.
* *Registry*: a server's functions are entered in ZooKeeper while it is in its session, and disappear with it; clients agree on
  an address and keep it.

## 2. The modules

| module | models | |
|---|---|---|
| `RpcClient` | `rpc_client.hpp` | user threads, the handlers, the socket and the peer |
| `PendingCalls` | - | abstract: what a client promises about its future calls |
| `Connection` | `connection.h` | one connection's handlers, responders and publishers, its client |
| `PeerEnd` | - | abstract: what the far end of a connection promises to a client |
| `Router` | `router.h` | the tables and `route` |
| `FunctionTable` | - | abstract: a table from names to functions |
| `RpcServer` | `rpc_server.h` | accept loop, both cleaning threads, `publish`, `stop` |
| `Registry` | `zookeeperclient.hpp` and its callers | servers, clients, sessions, znodes |
| `Heartbeat` | `rpc_client.hpp`, `connection.h` | the client's and the connection's timers, in time |
| `Configure` | `configure.hpp` | the parser of `rpc.conf` |
| `MCRpcClient`, `MCRouter`, `MCRpcServer` | - | symmetry and function-valued constants for TLC |
| `RpcClient_proofs`, `RpcClientFlow_proofs`, `Connection_proofs`, `Router_proofs`, `RpcServer_proofs`, `Registry_proofs`, `Heartbeat_proofs`, `Configure_proofs` | - | theorems |

**How the parts fit.** `RpcClient` does not contain a server: `PeerAnswers`, `PeerRepeats` and `PeerPublishes` are its assumption, that a
request held by the peer is answered under its own id, once or, if its function threw after it had handed the request on, twice,
and that a publication comes after a subscription. `PeerEnd` states that assumption as a specification, and `Connection` is shown
to implement it (`PromiseKept`). `Connection` in turn leaves to a choice whether a function answers at once, hands its
request to a thread, or does both; `Router` has that decision (`OneReply`). `RpcServer` treats a connection as its life (unused, open,
closed) and a publication to it as reaching it; `Connection` has the queue it goes through.

### RpcClient

`todo[t]` is the rest of the function that thread `t` is in, as a sequence of steps. A step is the code between two
points at which another thread can interleave: a critical section, or an access to the socket. So `async_call` with a
callback is `AsyncCallCallback` (the test of `has_connected_`, 269), `RegisterCallback` (under `cb_mtx_`, 275-284) and
`Write` (under `write_mtx_`, 394-404); `close()` is `Close`, then `clear_cache`'s two sections `ClearOutbox` and
`ClearMaps`. The thread `Io` runs one handler at a time: `ready` is asio's scheduler queue, and `OnX` takes the first entry
and does what the handler does, in its order, error branches included.

The socket is asio's: `sock` is closed, opened (a connect failed), connecting, connected or broken; `reader` and `writing`
are the operations pending on it, oldest first: asio queues a second read behind the first, and does not try it until the next event. Closing or replacing the socket posts the handlers of what was pending with an error
(`Cancelled`), in asio's order. That the handlers run *later*, when the socket may be another one, is what makes this
module interesting. Which of them run before an operation on the new socket completes is not arbitrary: asio completes reads
and connects only when `Io` takes its reactor out of the queue. So the queue also holds `poll`, the reactor, and `event`,
a descriptor that it has reported: `PollReports` and `PollNothing` are one run of the reactor, `ConnectSucceeds`, `ConnectFails`
and `ReadCompletes` perform a reported operation, `EventStale` is a report of a socket that was replaced meanwhile.

A subscriber's function may throw (`CallbackSub`, 546-560), which resets the socket while `has_connected_` stays true.
The heartbeat is one more request, with id 0, that `Io` writes (`OnHeartbeat`); when it is due is the subject of `Heartbeat`.
Future calls and subscriptions may be made at any time, before the connection too, as the code allows and `client.cpp` does
(src/example/client/client.cpp:297-302).
`life` is the client's destruction: `Destroy` is the destructor's `close()`, `Stop` is `ios_.stop()`, after which
no handler is started, `Join` waits for the handler that is running, and then the object is gone.

`answers[id]` is a history variable: what the call's future or callback was told (`data`, `error`, `timed_out`, `dropped`
by `clear_cache`). Request ids are the code's: futures count from 1, callbacks have the top bit set (`TopBit`, 2^63).

### Connection

The same picture from the other side. `io` holds the answer that `route` is about to hand to `response()` - between the
two, another thread may respond - and `answering` what other threads have been handed and will respond with. An asynchronous
function that hands its request on and then throws puts one answer in each (`OnRequest`, `doubled`; router.h:83-87, 172-174). `req_id` is
overwritten by each header (151), while a response carries the id taken when its request was routed: a message is
`[type, id, of]`, the id in its header and the request whose content it has, so that a mix-up can be seen.
The kinds of frames are the ways through `read_head`'s handler: a body that is a request or a subscription, an empty body
(heartbeat), a length of `MAX_BUF_LEN` or more, and a wrong magic number.

### Router

`map_invokers` and `key2func_name` are the tables, `MD5Hash32` any function from names to ids. A handler is a function
and its mode. `route` is one step with its outcomes: the key is unknown, the arguments do not unpack, the function throws,
the result is too long to send. `registered` is a history variable: what was registered last under each *name*, which is
what a user thinks the table is. `owed` is whether a thread has been given the request: an asynchronous function
that throws may have done that before or not (`HandsOver`). The hash may map names to one id; the run has such names.

### RpcServer

`Accept` starts a connection, `Emplace` gives it its number under `mtx_` (107-127): in between it is alive and not stored.
The cleaning threads visit the entries they found, one at a time, holding their mutex (`MtxFree`, `SubMtxFree`); a wait
between rounds may end at any time, which covers both the timed wait (check_seconds_) and a notification, early, late or lost.
`publish` is `PubCall` (the first section: is there any subscription), `PubLock`, `PubSend` per entry, `PubReturn`.
`stop()` is one action per statement that another thread can see; `stopper` says where the signal handler and `main` are in it. The
constructor registers the signals (36-41), so that a signal may come under `run()` and under `async_run()`.

`sub_map` is a multimap: an entry has a number that makes it different from an equal one. Topics are what `key + token`
makes of keys and tokens (`Topic`, any function), and `Within` is `std::string::find`.

### Registry

One service. A server is down, up, or between `zoo_exists` and `zoo_create` of a path (`exists`, `create`). Sessions are
numbered and never reused; `live` are those ZooKeeper holds open. A crash leaves the session open until `Expire`; a
`Partition` expires it under a running server, which `global_watcher` (13-24) ignores. A client's lookup may fail,
at construction and at `connect`. ZooKeeper itself is not under `src/`: its actions are marked external in `map`, and
modelled as linearizable requests that fail when the session has expired.

### Heartbeat

`RpcClient` has no clock and `Connection` only has that its timer may expire; here time is counted in seconds. `wait` is the
client's `async_wait` on `deadline_`: pending, expired or aborted with its handler still to run. That handler sends an
empty frame if the wait expired on a connected client, and sets the timer again in any case (381-390). `timer` is the
connection's, set by `start()` and by every frame, empty or not. A frame under way is its age; `unaware` is how long the server has
had a connection of which the client's connect handler does not know yet. What the code does not determine, the time that frames and
handlers take, is `MaxDelay`; `Tick` advances all of it together, and only when nothing is due.

### Configure

A file is a sequence of characters, of which `load` tells four from the rest: blank, `#`, `=` and the newline. `ReadLine` is
one turn of its loop: `fgets` into a buffer of `BufferSize`, `trim`, the tests for a comment, an empty line and a line without
`=`, and the insertion of key and value. The end of the file is noticed as `feof` does, only once a read has met
it. What a file *says* is defined beside it, by the places of its characters (`Settings`, `KeyOf`, `ValueOf`).

## 3. Abstract specifications

* `PendingCalls`: ids are given out in increasing order; a call is pending until it is settled, once; all pending calls may
  be abandoned together. `RpcClient` implements it for its future calls under `Status`, which reads a call's state off
  `future_map` and `answers` (`CallsRefined`; run `client_calls`; theorem `FutureCallsRefine`).
* `PeerEnd`: what a client may assume of the far end of a connection. A request is answered once, and once again if it has
  failed after being handed on. `Connection` implements it, reading `held` off the requests sent and not yet answered while
  the socket is open, and `failed` off those with two answers to come (`PromiseKept`; run `connection_serves`; theorem
  `PeerPromiseKept`).
* `FunctionTable`: registering, removing and calling by name, where a name may be `Alike` others that it cannot be told from.
  `Router`, which looks up by hash, implements it with the names of the same hash alike (`OwnFunction`; run `router`;
  theorem `OwnFunctionIsCalled`): a name whose hash is its own always gets its own function.

## 4. The runs

A bound is named in the guard it caps (`Spend`), so the last action of each kind is always explored. Deadlock is not
checked where the bounds make a system come to rest (`CHECK_DEADLOCK FALSE`: a server that has stopped, users with no calls
left). `Router` never rests, and deadlock is checked there.

### Passing

| run | module, configuration | instance | shows |
|---|---|---|---|
| `client_calls` | `MCRpcClient`, `RpcClient_calls` | 2 users (symmetric), 2 future calls, 1 callback call, 1 `connect()`, 1 `close()`, 1 failure of link or connect with one retry, 1 heartbeat or second answer, a destructor; `Spec`; 2.8 million states | `TypeOK`; `OneWrite`: only `clear_cache` lets a second write start beside one that is under way; `OutboxAlive`: only the handler of a failed write leaves a queued message without a write before it; `NoAbort`: a response names a call that is pending, or one that `close()` has made the client forget; `SingleReader`: no more read loops than `connect()` calls that started an attempt; `CallbackOnce`: a callback is told once at most for each such `connect()`; `FutureOnce`: no promise is settled twice; `CallsRefined`; `Untouched`: nothing runs in a destroyed client |
| `client_reconnect` | `MCRpcClient`, `RpcClient_reconnect` | automatic reconnection, 1 user, 1 future, 1 callback, 1 `connect()`, 1 key, 1 publication whose function may throw, 1 failure; `FairSpec` | `ReaderAlive`: connected implies reading; `Reconnects`: connected in the end; `Resubscribes`: to what it was subscribed to; `AllSettled`: every call is told something |
| `connection_serves` | `Connection`, `Connection_serves` | 2 frames of 5 kinds, functions that throw late included, 2 publications, 1 failure, idle timer; `FairSpec` | `TypeOK`; `OneWrite`; `AnswersMatch`: a late answer has its request's id; `Watched`: an open connection is read or timed; `PromiseKept`; `AllAnswered` |
| `router` | `MCRouter`, `Router` | 3 names, two of them with the same hash, 2 functions in both modes | `TypeOK`; `OneReply`: a request is answered or taken on, both only after a late throw; `OwnFunction` |
| `server_publishes` | `MCRpcServer`, `RpcServer_publishes` | 2 connections (symmetric), 1 key, 1 token, 2 subscriptions, 1 publication | `TypeOK`; `Accounted`; `PublishReaches`; `TokensUsed` |
| `server_stops` | `MCRpcServer`, `RpcServer_stops` | 1 connection, 2 subscriptions, `run()` or `async_run()`, a signal at any time; `FairSpec` | `StopComplete`: who has returned from `stop()` leaves no thread behind, and a thread is joined twice only if the destructor and the signal handler overlap after `async_run()`; `ClosedForgotten`; `StopReturns`: `stop()` returns, except to a signal handler after `async_run()` |
| `registry` | `Registry`, `Registry` | 2 servers, 1 client, 1 function, 3 sessions, 1 partition, 1 failed lookup; `FairSpec` | `TypeOK`; `Entered`: a server in its session has its functions entered until the session that entered them ends; `SameAddress`; `AddressKept`; `FunctionsVanish` |
| `heartbeat` | `Heartbeat`, `Heartbeat` | the code's 5 and 15 seconds, `MaxDelay` 2, 1 call of `enable_auto_heartbeat(false)`; `FairSpec` | `TypeOK`; `KeptAlive`: a client that enabled the heartbeat before it connected is not given up; `SilentClosed`: a silent one without it is |
| `configure` | `Configure`, `Configure` | every file of at most 7 characters out of 5, a buffer of 5 (4 characters and the terminator) | `TypeOK`, which here says that no newline gets into a key or a value, however lines are cut; `LoadsWhatIsWritten`: of a file in the expected form, the table is what the file says; `LoadEnds` |

`OneWrite`, `OutboxAlive` and `NoAbort` hold on every path, failures and calls before the connection included, because each names
the one step of the code that breaks what it is about: `clear_cache`, which empties the outbox under a write (hazard H3 of
`PROJECT.json`); the error branch of the write handler, which leaves the outbox as it is; `close()` between a response's header
and its body. So they show that nothing else does. Only `AllSettled` is about a client that is `Calm` (until the link fails,
somebody closes or destroys the client or, with automatic reconnection, a publication comes, whose function may throw): after a
failure, or behind a call that was written before the connection was there, calls may wait for ever (section 6; that a message is
stuck in no other way is `OutboxAlive`). `Reconnects` and `Resubscribes` name what they exclude in their formulas.

### Violations: what the code does against what it says

| run | property | what happens |
|---|---|---|
| `client_stuck_outbox` | `OutboxServed` | The write handler's error branch clears `has_connected_` (417), so `close()` returns at once (195) and `clear_cache` never runs: the outbox keeps its message with no write under way, and whatever is written later returns at 401, after a reconnection too |
| `connection_leak` | `Reaped` | A read of a body fails: the timer has been cancelled (connection.h:180) and nobody closes (203). The connection stays in `connections_` for good |
| `server_async_signal` | `StopEnds` | After `async_run()` the signal handler, on a thread of the pool, joins `thd_` (rpc_server.h:217), which joins the pool's threads: it waits for itself |

### Why the bounds are enough

The hazards are pairs. Two users are enough for one to be between two steps of `async_call` while the other closes or writes;
two messages for a queue with a front and a rest; one failure and a retry for a handler of the first connection that runs on
the second. With automatic reconnection one failure is enough for any number of attempts, because attempts cancel each other.
Two frames are a request and the header that overtakes its answer, and two publications can queue behind it. In the server,
two connections tell "this one" from "another one", two subscriptions an entry from an equal topic's other entry, and one
publication is enough because publishers share nothing except the mutex. Of three names two share a hash and one has its own.
In the registry, two servers compete for a path, and the third session is the restart of one of them. A constant that a run
sets to 0 removes actions; between them the passing runs fire every action and every disjunct. The client is split over two
runs, without and with automatic reconnection: each has what its properties are about, and the theorems have no bounds.
`heartbeat` has the code's own periods; `MaxDisables` is at most 1 because each further call may put a beat off once more,
and `MaxDelay` is what the margin of 15 seconds leaves for two beats (`MarginAssumption`). In `configure`, 7 characters hold
two settings of one key, a comment before a setting, and a line longer than the buffer.

### Fairness

* *Client* (`LocalFairness`, `PeerFairness`): threads go on with a call they began; `ios_.run()` runs handlers that are
  due; the kernel completes connects, writes and reads. The reactor and the operations it reports have strong fairness
  (`PollReports`, and `ConnectSucceeds`, `ConnectFails`, `ReadCompletes`): a handler that replaces the socket takes a report away
  again and again, but an operation that is due each time the reactor looks is performed at last. The peer answers every request it
  holds: that is `AllAnswered` of `Connection`. Nobody has to call, connect or close; the link need not fail.
* *Connection*: its pool thread runs handlers, threads that hold a request respond to it (the examples' asynchronous
  functions do), time passes. The client need not send anything.
* *Server*: the two cleaning threads run and their timed waits end (weak fairness). Who waits for `mtx_` or `sub_mtx_` is
  repeatedly, not continuously, able to take it, so the accept handler, `publish` and `stop` have strong fairness: a cleaning
  thread sleeps seconds between two rounds, and a waiting thread is woken when the mutex is free.
* *Registry*: ZooKeeper ends a session that nobody keeps alive (its timeout), and a server's requests get an answer.
* *Heartbeat*: time goes on and what is due is done. *Configure*: the loop goes on.

## 5. The theorems

All of them hold for every value of the constants that satisfies the module's assumptions: any number of users, calls,
frames, connections, publishers, topics, servers, sessions. The assumptions say what a bound or a type is (naturals,
`Io` is not a user); the theorems that need more say so.

| theorem | property | argument |
|---|---|---|
| `RpcClient_proofs!TypeCorrect` | `TypeOK` | inductive as it stands; one lemma per group of actions |
| `RpcClient_proofs!CallInvariant` | - | `CallInv`, below |
| `RpcClient_proofs!FutureSettledOnce` | `FutureOnce` | part of `CallInv` |
| `RpcClient_proofs!FutureCallsRefine` | `CallsRefined` | `CallInv` tells which calls change: each step issues the next one, settles one, abandons the pending ones, or stutters |
| `RpcClient_proofs!DestroyedUntouched` | `Untouched` | `EndInv`: what the destructor's thread still has to do at each stage of `life`, and that no other user has anything; after `Join`, nor has `Io`, and no operation is pending |
| `RpcClient_proofs!ConnectedReads` | `ReaderAlive` | `ReaderInv`, below |
| `RpcClient_proofs!OneReadLoop` | `SingleReader` | `LoopsInv`, below |
| `RpcClient_proofs!CallbackCalledOnce` | `CallbackOnce` | `CallbackInv`, below |
| `RpcClientFlow_proofs!OneWriteAtATime` | `OneWrite` | from `TypeOK` alone, by the writes under way and the write handlers to come, counted before and after each step; below |
| `RpcClientFlow_proofs!OnlyFailuresStrand` | `OutboxAlive` | the same count from below: no step but `OnWriteFailed` takes the last one away from an outbox that is not empty |
| `Connection_proofs!TypeCorrect`, `OneWriteAlways` | `TypeOK`, `OneWrite` | proved together (`TypesAndOneWrite`): `on_write` pops the queue, which keeps its type only because the queue is not empty while a write is under way |
| `Connection_proofs!AnswersMatchAlways` | `AnswersMatch` | `ReadInv` (below) and `MatchInv`: the answer in `io`, those that threads were handed, those queued, under way and sent, all carry their request's id |
| `Connection_proofs!WatchedAlways` | `Watched` | if the server was given a timeout (`Timeout`): a started connection whose link is up has its timer pending or expired with the handler to come (`Timed`): `cancel_timer` is followed by a `reset_timer` in the same handler unless the read failed, and with the link up no read fails |
| `Connection_proofs!PeerPromiseKept` | `PromiseKept` | `PromiseInv`: the id of a request is in one of five places - the client's frames, the frame being read, with other threads, with `route()`, given to `response()` - and in each of them once, in two of them only if its function threw late (`doubled`); only the front of `write_queue_` may have been sent already; a publication needs a subscription. Every step of the connection is then a step of `PeerEnd` or a stutter |
| `Router_proofs!TypeCorrect` | `TypeOK` | the tables have the same keys and each name is under its own hash |
| `Router_proofs!OwnFunctionIsCalled` | `OwnFunction` | for every hash: a handler in `map_invokers` is the one registered last under some name of that hash that has not been removed (`Offered`) |
| `RpcServer_proofs!TypeCorrect` | `TypeOK` | inductive as it stands |
| `RpcServer_proofs!NobodyLost` | `Accounted` | `ServerInv`: one connection at most is being accepted; numbers in use are below `conn_id`; what is stored has the number it is stored under; the cleaner visits stored entries only, each once |
| `RpcServer_proofs!PublicationsReach` | `PublishReaches` | `PubInv`: the entry of an open subscriber is never erased; so each open asker is already reached, or its entry is still to be sent to, or will be found when the lock is taken |
| `RpcServer_proofs!TokensAreUsed` | `TokensUsed` | a token is erased in the same step as any entry whose topic has it |
| `RpcServer_proofs!StopLeavesNothing` | `StopComplete` | what each caller of `stop()` has seen end, given where it is, in both modes and with both callers in it (`BehindDone`); who may find a thread joined already (`JoinedBy`, `TurnsTaken`) |
| `Registry_proofs!TypeCorrect` | `TypeOK` | inductive as it stands |
| `Registry_proofs!RegisteredEntered` | `Entered` | a znode disappears only with its session, and `gone` then records it; between `zoo_exists` and `zoo_create` nothing counts as registered (`Found`; sessions are numbered upwards: `Fresh`) |
| `Registry_proofs!AddressesAgree` | `SameAddress` | `/service` is persistent and written only when it does not exist |
| `Registry_proofs!AddressStays` | `AddressKept` | only the first address a client gets is stored |
| `Heartbeat_proofs!TypeCorrect` | `TypeOK` | inductive as it stands |
| `Heartbeat_proofs!HeartbeatKeepsAlive` | `KeptAlive` | `KeptInv`, below; if `2 * Period + 2 * MaxDelay < IdleTimeout` and the heartbeat is disabled once at most |
| `Configure_proofs!TypeCorrect` | `TypeOK` | `fgets` leaves a newline at the end of the buffer only, `trim` moves it nowhere else, and the parser overwrites the last character of a value |
| `Configure_proofs!LoadedAsWritten` | `LoadsWhatIsWritten` | `LoadInv`, below |

**The connection's invariant.** `req_id_` is overwritten by every header, so that an answer carries the right id is a fact about
the read loop: one read at a time is pending, completed or being served, and from the header's arrival until its body
has been routed `req_id` is the id of that body (`ReadInv`). Whoever answers after that was handed the id, not the variable.

**The heartbeat's invariant.** A server that is open and counts on a beat has a frame under way that is young enough, or the
client's timer leaves enough of its own for a beat to be sent and to travel (`BeatIn`, `InTime`). The worst case is a beat that falls due
just before the client knows of its connection: it is not sent, and the next is a whole period later. One call of
`enable_auto_heartbeat(false)` puts it off by less than a period in addition, which is the second `Period` of the margin.

**The client's invariant.** `FutureOnce` is not inductive: `CallBack` and `ClearMaps` append to the answers of a call in
`future_map`, so one must know that such a call has none yet (`PendingUnset`); `AsyncCallFuture` puts a new id in the map, so
one must know that an id above `fu_id` has no answer (`UnissuedUnset`) and that those in the map are not above it
(`PendingIssued`); and for the refinement, that an issued call is in the map or has been answered (`IssuedAccounted`). That
is `CallInv`. It says nothing of sockets and handlers: `call_back` takes the promise out of the map under `cb_mtx_`
before anybody else can, so no interleaving, failure or reconnection can settle it twice.

**The client's read loops.** These need the sockets and the handlers. A loop exists as a pending operation (a connect or a read), as
its completion in `ready`, or as a step that `Io` still has to take; `Count` counts the elements of a sequence that are of a kind, and
every action is shown to change the counts by what it takes and adds. `CarryInv` says what the rest of a handler can be
(`Script`): it carries one loop, whatever `close()` and `clear_cache` insert before the step that goes on with it.
`LoopsInv` is then that no step makes two of one: only `connect()` adds a loop. `CallbackInv` relates it to the callbacks: those
already told, and for a call still in the map the loops that may yet tell it, are together no more than the `connect()` calls; this needs that
no id is given out twice (`GivenInv`: the ids do not run out) and that one not given out is nowhere (`Unused`). `ReaderInv` counts the same things from below: a client
with `has_connected_` has a read, or a step of `Io` that starts one or disconnects; and if the socket has been closed under it, one that is
still to find out.

**The client's writes.** Both action properties compare the count of writes under way and of write handlers to come before and
after a step. Most actions leave the outbox alone and, for every message, the count (`Kept`): closing, replacing or losing the
socket turns writes into handlers, one for one (`Cancelled`). The others are few (`Touches`): a write starts only under
`write_mtx_`, in `Write` if the outbox was empty and in `OnWritten` after the front has left it. Neither needs an assumption about users or the link.

**The parser's invariant.** `LoadInv`: of a plain file, the loop is at the start of a line, the table holds what the settings before it
say, the first value of a key winning, and nothing was written outside a value. The step is one line: what `fgets`, `trim`, `find` and
`substr` make of it is what `KeyOf` and `ValueOf` say of its characters (`KeyIs`, `ValueIs`), and the loop passes over a line exactly if it is no
setting (`SettingIs`). None of this is an induction over data: sequences are cut, not built, and the invariant carries the rest.

### Only model-checked

Everything under fairness (`AllSettled`, `Reconnects`, `Resubscribes`, `AllAnswered`, `ClosedForgotten`, `StopReturns`,
`FunctionsVanish`, `SilentClosed`, `LoadEnds`), which TLAPS cannot prove here. Of the safety properties of the passing runs, `NoAbort`
is: it needs an invariant that follows every request from the outbox through the peer to its handler, with one thing at a time on
the way (section 8). Every other one, the action properties and the refinements included, is a theorem (`OneReply`, one step of
`route()`, is proved in `Router_proofs` as `RepliedOrOwed`).

## 6. Known deviations

Besides the three violations above. None of these is a claim some run checks; each was met while translating the code.

* **The timer that fires late** (connection.h:302). The idle timer may expire while its reset is being made: the expired
  handler is queued, cannot be cancelled any more, and closes a connection that is in use. `OnTimer` does so.
* **A length of `MAX_BUF_LEN` or more** (connection.h:162) starts neither a read nor a close; the timer, if there is one,
  ends the connection.
* **Two answers** (router.h:74). A request whose asynchronous function throws after it handed it to a thread is answered by
  `route` with a failure and by the thread with a result. `Router`, `Connection` and `RpcClient` have this case; `OneReply`,
  `PromiseKept` and `PeerEnd` allow it, and `NoAbort` excludes it: the client's `call_back` asserts that the call of the second is pending.
* **Hash collisions** (router.h:200). Names are looked up by a 32-bit hash: the second of two that collide replaces the
  first's function while `key2func_name_` keeps the first's name, and removing either removes what is there. `OwnFunction` allows
  a function of any name with the same hash. Line 5 of src/README.md calls the hash a unique function id.
* **A token others still use** (rpc_server.h:151-155) is erased with the first closed subscription whose topic contains it;
  `get_token_list` (src/example/server/server.cpp:172-176) then lacks it. The converse of `TokensUsed` fails.
* **Two threads in `stop()`** (rpc_server.h:202). After `async_run()` the signal handler and the destructor may both be past the
  test of `has_stoped_`, which is set last; the second join of the same thread throws. It is the `Overlap` that `StopComplete`
  excepts, and the only way to two joins.
* **`close()` between header and body.** A user's `close()` empties the maps while `Io` reads the body of a response; its handler
  finds the socket closed and calls `call_back` (rpc_client.hpp:470) for a call that is gone: `assert(cl)` or `assert(f)` (519, 539).
  A failed read does the same to a publication's body (487), whose request id is 0, and a call that is registered before
  and written after a `close()` is answered when its entry is gone (288). These are the exceptions of `NoAbort`.
* **`clear_cache` under a write** (rpc_client.hpp:563-571). `close()` empties the outbox, under `write_mtx_`, while an
  `async_write` of its front is under way: the next call starts another write, which overwrites `header_` and `write_size_`. `OneWrite`
  excepts `ClearOutbox`.
* **A failure settles little.** The write handler's error branch and a failed body clear `has_connected_` before `close()`, which then
  does not run `clear_cache` (195, 417, 484-488): futures go on waiting, unless they time out themselves.
* **Automatic reconnection can start two read loops.** A failed write reconnects while the failed read of the old socket is still
  queued; that handler, run on the new socket, reconnects once more. The write handler has cleared `has_connected_` before it calls
  `close()`, which then does nothing, so the callbacks that the failed read has called stay in the map and are called again.
  `SingleReader` and `CallbackOnce` are stated without automatic reconnection and fail with it. Without it, a `close()` and a second
  `connect()` before the handlers of the first have run do the same: that is why both are bounded by the number of `connect()` calls.
* **A call before the connection** (rpc_client.hpp:246-264, 299-324, 415-421). A future call or a subscription does not test
  `has_connected_`: its write on a socket that is not connected fails, the error branch returns, and the message stays at the front of
  the outbox with no write under way. Everything written later, on the connection that is then made, waits behind it. `OutboxAlive` excepts
  `OnWriteFailed`; `client_stuck_outbox` has the case.
* **A subscriber's function that throws** makes `callback_sub` reconnect (558): the socket is replaced while `has_connected_` stays
  true, so the connect handler returns at once (355), nothing is subscribed again and calls under way are never answered.
  `Resubscribes` and, through `Calm`, `AllSettled` exclude it.
* **A subscription sent twice** (307 and `resend_subscribe`): the server's `sub_map_` is a multimap, and delivers each publication twice.
* **Callbacks run under `cb_mtx_`** in the failed read (457-459): a callback that issues a call locks it again and waits for itself.
* **Destroying the client in a callback** joins the thread that runs it. `Destroy` is a user thread's.
* **The heartbeat cannot be disabled**: the handler of the cancelled wait sets the timer again (rpc_client.hpp:381-390). Enabling it
  twice starts two chains of which each cancels the other's wait, for ever. `Heartbeat` has the former and leaves out the latter.
* **`enable_auto_reconnect(false)`** sets the number of retries to the largest integer as well (169-170).
* **`wait_conn`** (156) may miss the notification of a connection made between its two tests; it then waits its full time.
* **`rpc.conf`.** The last character of a value is taken for the newline (configure.hpp:75-76): without one at the end of the file the
  value loses its last character. `key=` at the end of a file writes before the value's first character, which ends the process or
  goes unnoticed. A value of blanks stays as it is, and a line of more than 127 characters is read as several. A file that cannot be
  opened is read all the same (42-48). What the file says of ZooKeeper is not used: the address is fixed (zookeeperclient.hpp:44-47).
* **A callback's timeout** (rpc_client.hpp:600) only marks the call; the callback learns of it when the response arrives, if it does.
* **The registry.** A server that moves leaves its old address in the persistent `/service` (rpc_server.h:30): clients keep
  getting it. A server started again while its former session is open finds its old znodes, creates none, and loses
  them when that session expires (zookeeperclient.hpp:73). A server whose session expires registers nothing again. A
  client keeps its first address, whatever `connect(name)` or `connect(host, port)` is given later
  (rpc_client.hpp:139-143); with none at all, `connect` fails its assertion (125).

## 7. What is not modelled

* *Client*: `wait_conn`, a wait with a timeout whose only effect is when its caller goes on; `update_addr`, which changes what the
  next `connect` uses; a connect that fails at once; `err_cb_`; TLS; frames of unknown type, of length 0 and of `MAX_BUF_LEN` or
  more, which `Connection` never sends. Accesses to `socket_` and `has_connected_` without a lock are single atomic steps
  (`close()`'s test, assignment and shutdown, 195-198, are one). When there are two read loops, what each reads into the shared `head_`
  and `body_` is what came first for it.
* *Heartbeat*: enabling it twice; failures of the link, which `RpcClient` and `Connection` have.
* *Connection*: what the client's bytes look like if they are not frames; the assertion on results of 10 MB (50); the TLS
  handshake, whose code does not compile (320).
* *Router*: exceptions that are not derived from `std::exception` (router.h:83, 172), which leave `route` and end the thread of the
  pool; the model has them among the failures. Registering while calls are routed: the tables take no lock (41), and the examples register before `run()`.
* *Server*: `on_net_err_callback_`, `get_token_list`; SSL configuration. A failed accept (rpc_server.h:113) changes nothing.
* *Registry*: transient losses of the connection to ZooKeeper; the semaphore on `start()`'s stack (zookeeperclient.hpp:58-61),
  which the watcher may find not yet set, or gone.
* *Configuration file*: one that cannot be opened.
* *Thread pool*: `io_service_pool.h` is a round robin over io_contexts, each with one thread; `Connection` takes from it that one
  thread runs a connection's handlers, and `RpcServer` what `run` and `stop` do to those threads.
* *Codec*, *MD5*, *metaprogramming*: pure data; `Router` takes the hash as a parameter.
* *Vendored libraries*: most of the repository's lines. They are external; asio is the environment of `RpcClient` and `Connection`,
  which have the order in which it runs handlers and nothing else of it.

## 8. Plan

The client, the connection, the router, the server, the registry, the heartbeat and the configuration file are done, with
their abstract specifications and the theorems above. What could follow, in this order:

1. `RpcSystem`, composing a client's subscriptions with the connection and the server's `sub_map_` across a reconnection:
   publications delivered twice, and to whom.
2. A proof of `NoAbort`: with one `connect()`, a request is in one place at a time (the outbox, a write under way, the peer, the
   stream, the read loop), and while it is anywhere its call is pending or was forgotten by `clear_cache`.
3. `ConnWait` (`wait_conn` against the connect handler) and `IoServicePool` (`run` and `stop` across its threads).
4. In `Registry`, `update_addr` and the first events of the watcher.
