------------------------------ MODULE Heartbeat ------------------------------
(***************************************************************************)
(* The two timers that decide how long a silent connection lives: the       *)
(* client's deadline_, whose handler sends the heartbeat (rpc_client.hpp),   *)
(* and the timer_ with which the server's end closes a connection nothing    *)
(* came from (connection.h).                                                 *)
(*                                                                           *)
(* Time is counted in seconds.  A frame, a heartbeat or a call, is its age;  *)
(* frames of one age arrive together.  How long a frame, the client's news   *)
(* of its connection and the handlers in between take is not in the code:    *)
(* MaxDelay bounds it.  RpcClient and Connection say what frames do          *)
(* otherwise, and what happens on a link that fails.                         *)
(***************************************************************************)
EXTENDS Integers

CONSTANTS
    Period,         \* the 5 of enable_auto_heartbeat
    IdleTimeout,    \* timeout_seconds_
    MaxDelay,       \* how long a frame is under way at most
    MaxDisables     \* bound: calls of enable_auto_heartbeat(false)

ASSUME PeriodAssumption  == Period \in Nat \ {0}
ASSUME TimeoutAssumption == IdleTimeout \in Nat \ {0}
ASSUME DelayAssumption   == MaxDelay \in Nat
ASSUME DisableAssumption == MaxDisables \in 0 .. 1

\* What the defaults 5 and 15 leave for the link: a beat that is put off once,
\* sent as late as it may be, still comes before the connection is given up.
ASSUME MarginAssumption == 2 * Period + 2 * MaxDelay < IdleTimeout

VARIABLES
    has_connected,  \* has_connected_
    unaware,        \* for how long the server has accepted an unaware client
    wait,           \* the async_wait on deadline_, or its handler to come
    deadline,       \* the seconds left of deadline_
    disables,       \* how often the heartbeat was disabled
    early,          \* history: whether it was enabled before the connect
    frames,         \* the ages of the frames under way to the server
    server,         \* the server's end of the connection
    timer           \* the seconds left of timer_

clientVars == <<has_connected, unaware, wait, deadline, disables, early>>
serverVars == <<server, timer>>
vars == <<clientVars, frames, serverVars>>

-----------------------------------------------------------------------------
(* The client *)

\* Mutant: the handler sets the timer again only when it was cancelled.
ResetIfCancelled(after) ==
    IF after = "expired" THEN wait' = "off" /\ UNCHANGED deadline
                         ELSE wait' = "pending" /\ deadline' = Period

\* reset_deadline_timer(5), as enable_auto_heartbeat() and the handler call it
reset_deadline_timer(after) == wait' = "pending" /\ deadline' = Period

Enable ==
    /\ wait = "off"
    /\ reset_deadline_timer(wait)
    /\ early' = (server = "listening" /\ ~has_connected)
    /\ UNCHANGED <<has_connected, unaware, disables, frames, serverVars>>

\* enable_auto_heartbeat(false): deadline_.cancel() aborts the wait, if it has
\* not expired.
Disable ==
    /\ wait # "off"
    /\ disables < MaxDisables
    /\ disables' = disables + 1
    /\ wait' = IF wait = "pending" THEN "aborted" ELSE wait
    /\ UNCHANGED <<has_connected, unaware, deadline, early, frames, serverVars>>

Expire ==
    /\ wait = "pending"
    /\ deadline = 0
    /\ wait' = "expired"
    /\ UNCHANGED <<has_connected, unaware, deadline, disables, early, frames,
                   serverVars>>

\* The handler of deadline_: if the wait expired on a client that is connected,
\* an empty request is sent.  The timer is set again in any case.
OnDeadline ==
    /\ wait \in {"expired", "aborted"}
    /\ frames' = IF wait = "expired" /\ has_connected THEN frames \cup {0} ELSE frames
    /\ reset_deadline_timer(wait)
    /\ UNCHANGED <<has_connected, unaware, disables, early, serverVars>>

\* A call or a subscription
Call ==
    /\ has_connected
    /\ frames' = frames \cup {0}
    /\ UNCHANGED <<clientVars, serverVars>>

\* The client's connect handler, before or after the server has accepted
Connected ==
    /\ ~has_connected
    /\ has_connected' = TRUE
    /\ UNCHANGED <<unaware, wait, deadline, disables, early, frames, serverVars>>

-----------------------------------------------------------------------------
(* The server's end *)

\* start(): read_head() sets the timer.
Accept ==
    /\ server = "listening"
    /\ server' = "open"
    /\ timer' = IdleTimeout
    /\ UNCHANGED <<clientVars, frames>>

\* Mutant: the timer is set again only for a frame with a body.
ResetUnlessEmpty == UNCHANGED timer

\* Mutant: the expiry is put off by the timeout, from when it was due.
PutOff == timer' = timer + IdleTimeout

\* cancel_timer(), and reset_timer() in read_head()
ResetTimer == timer' = IdleTimeout

\* The handlers of read_head() and read_body(): frames come in order.
Receive(age) ==
    /\ server # "listening"
    /\ age \in frames
    /\ \A other \in frames : other <= age
    /\ frames' = frames \ {age}
    /\ IF server = "open" THEN ResetTimer ELSE UNCHANGED timer
    /\ UNCHANGED <<clientVars, server>>

\* Mutant: the handler of an expired timer leaves the connection open.
KeepOpen == UNCHANGED server

\* close(false)
CloseIdle == server' = "closed"

\* The handler of timer_
OnTimer ==
    /\ server = "open"
    /\ timer = 0
    /\ CloseIdle
    /\ UNCHANGED <<clientVars, frames, timer>>

-----------------------------------------------------------------------------
(* Time *)

\* What is due is done before time goes on.
NothingDue ==
    /\ wait \notin {"expired", "aborted"}
    /\ wait = "pending" => deadline > 0
    /\ \A age \in frames : age < MaxDelay
    /\ server = "open" => timer > 0
    /\ server = "open" /\ ~has_connected => unaware < MaxDelay

Tick ==
    /\ NothingDue
    /\ deadline' = IF wait = "pending" THEN deadline - 1 ELSE deadline
    /\ frames' = {age + 1 : age \in frames}
    /\ timer' = IF server = "open" THEN timer - 1 ELSE timer
    /\ unaware' = IF server = "open" /\ ~has_connected THEN unaware + 1 ELSE unaware
    /\ UNCHANGED <<has_connected, wait, disables, early, server>>

Init ==
    /\ has_connected = FALSE
    /\ unaware = 0
    /\ wait = "off"
    /\ deadline = 0
    /\ disables = 0
    /\ early = FALSE
    /\ frames = {}
    /\ server = "listening"
    /\ timer = 0

Next ==
    \/ Enable \/ Disable \/ Expire \/ OnDeadline
    \/ Call \/ Connected
    \/ Accept \/ OnTimer \/ \E age \in frames : Receive(age)
    \/ Tick

Spec == Init /\ [][Next]_vars

\* Time goes on, and what is due is done.
FairSpec ==
    /\ Spec
    /\ WF_vars(\/ Tick \/ Expire \/ OnDeadline \/ Connected \/ Accept \/ OnTimer
               \/ \E age \in frames : Receive(age))

-----------------------------------------------------------------------------
(* Properties *)

\* Every variable keeps its type.
TypeOK ==
    /\ has_connected \in BOOLEAN
    /\ unaware \in 0 .. MaxDelay
    /\ wait \in {"off", "pending", "expired", "aborted"}
    /\ deadline \in 0 .. Period
    /\ disables \in 0 .. MaxDisables
    /\ early \in BOOLEAN
    /\ frames \subseteq 0 .. MaxDelay
    /\ server \in {"listening", "open", "closed"}
    /\ timer \in 0 .. IdleTimeout

\* A client that enabled the heartbeat before it connected, as the examples do,
\* is not given up by the server for being silent, whatever the phase of its
\* timer when the connection is made.  Disabling the heartbeat only puts the
\* next beat off: the cancelled handler sets the timer again.
KeptAlive == early => server # "closed"

\* A client without heartbeat that falls silent is given up in the end.
SilentClosed == []<>(\/ server # "open" \/ wait # "off" \/ frames # {})

=============================================================================
