-------------------------- MODULE Heartbeat_proofs --------------------------
(***************************************************************************)
(* Proofs about Heartbeat, for every period, timeout and delay that leave    *)
(* the margin MarginAssumption asks for.                                     *)
(***************************************************************************)
EXTENDS Heartbeat, TLAPS

USE PeriodAssumption, TimeoutAssumption, DelayAssumption, DisableAssumption

(***************************************************************************)
(* The timers stay within their periods, and no frame is older than         *)
(* MaxDelay.                                                                 *)
(***************************************************************************)
LEMMA InitType == Init => TypeOK
<1> SUFFICES ASSUME Init PROVE TypeOK
  OBVIOUS
<1>1. has_connected \in BOOLEAN /\ early \in BOOLEAN
  BY DEF Init
<1>2. unaware \in 0 .. MaxDelay /\ deadline \in 0 .. Period /\ timer \in 0 .. IdleTimeout
  BY DEF Init
<1>3. disables \in 0 .. MaxDisables
  BY DEF Init
<1>4. frames \subseteq 0 .. MaxDelay
  BY DEF Init
<1>5. /\ wait \in {"off", "pending", "expired", "aborted"}
      /\ server \in {"listening", "open", "closed"}
  BY DEF Init
<1> QED
  BY <1>1, <1>2, <1>3, <1>4, <1>5 DEF TypeOK

LEMMA NextType == TypeOK /\ [Next]_vars => TypeOK'
<1> SUFFICES ASSUME TypeOK, [Next]_vars PROVE TypeOK'
  OBVIOUS
<1> USE DEF TypeOK
<1>1. CASE Enable
  BY <1>1 DEF Enable, reset_deadline_timer, serverVars
<1>2. CASE Disable
  BY <1>2 DEF Disable, serverVars
<1>3. CASE Expire
  BY <1>3 DEF Expire, serverVars
<1>4. CASE OnDeadline
  BY <1>4 DEF OnDeadline, reset_deadline_timer, serverVars
<1>5. CASE Call
  BY <1>5 DEF Call, clientVars, serverVars
<1>6. CASE Connected
  BY <1>6 DEF Connected, serverVars
<1>7. CASE Accept
  BY <1>7 DEF Accept, clientVars
<1>8. CASE OnTimer
  BY <1>8 DEF OnTimer, CloseIdle, clientVars
<1>9. ASSUME NEW age \in frames, Receive(age) PROVE TypeOK'
  BY <1>9 DEF Receive, ResetTimer, clientVars
<1>10. CASE Tick
  <2>1. frames' \subseteq 0 .. MaxDelay
    BY <1>10 DEF Tick, NothingDue
  <2>2. deadline' \in 0 .. Period /\ timer' \in 0 .. IdleTimeout
    BY <1>10 DEF Tick, NothingDue
  <2>3. unaware' \in 0 .. MaxDelay
    BY <1>10 DEF Tick, NothingDue
  <2> QED
    BY <1>10, <2>1, <2>2, <2>3 DEF Tick
<1>11. CASE UNCHANGED vars
  BY <1>11 DEF vars, clientVars, serverVars
<1> QED
  BY <1>1, <1>2, <1>3, <1>4, <1>5, <1>6, <1>7, <1>8, <1>9, <1>10, <1>11 DEF Next

THEOREM TypeCorrect == Spec => []TypeOK
BY InitType, NextType, PTL DEF Spec

-----------------------------------------------------------------------------
(* KeptAlive is not inductive: that timer_ has not run out follows from how  *)
(* much is left of it compared with what is due to set it again, a frame     *)
(* that is under way or the next beat, which one more call may put off.      *)

BeatIn == (CASE wait = "pending" -> deadline
             [] wait = "aborted" -> Period
             [] OTHER            -> 0)
          + IF disables < MaxDisables THEN Period ELSE 0

FrameInTime == \E age \in frames : timer > MaxDelay - age
BeatInTime  == timer > BeatIn + MaxDelay

InTime == IF has_connected THEN FrameInTime \/ BeatInTime
                           ELSE timer + unaware >= IdleTimeout

KeptInv == /\ ~has_connected => frames = {}
           /\ server = "listening" /\ ~has_connected => unaware = 0
           /\ early => /\ wait # "off"
                       /\ server # "closed"
                       /\ server = "open" => InTime

LEMMA BeatBounds == TypeOK => BeatIn \in 0 .. 2 * Period
BY DEF TypeOK, BeatIn

LEMMA KeptInit == Init => KeptInv
BY DEF Init, KeptInv

LEMMA KeptNext == TypeOK /\ TypeOK' /\ KeptInv /\ [Next]_vars => KeptInv'
<1> SUFFICES ASSUME TypeOK, TypeOK', KeptInv, [Next]_vars PROVE KeptInv'
  OBVIOUS
\* A timer that was just set outlasts the next beat.
<1>f. timer' >= IdleTimeout - MaxDelay => BeatInTime'
  <2>1. BeatIn' \in 0 .. 2 * Period
    BY DEF TypeOK, BeatIn
  <2>2. timer' \in Nat
    BY DEF TypeOK
  <2>3. ASSUME NEW left \in Nat, NEW beat \in 0 .. 2 * Period,
               left >= IdleTimeout - MaxDelay
        PROVE  left > beat + MaxDelay
    BY <2>3, MarginAssumption
  <2> QED
    BY <2>1, <2>2, <2>3 DEF BeatInTime
<1>1. CASE Enable
  BY <1>1 DEF Enable, reset_deadline_timer, KeptInv, serverVars
<1>2. CASE Disable
  <2>1. BeatIn' <= BeatIn
    BY <1>2 DEF Disable, BeatIn, TypeOK
  <2>2. BeatInTime => BeatInTime'
    BY <1>2, <2>1, BeatBounds DEF Disable, BeatInTime, BeatIn, serverVars, TypeOK
  <2> QED
    BY <1>2, <2>2 DEF Disable, KeptInv, InTime, FrameInTime, serverVars
<1>3. CASE Expire
  <2>1. BeatIn' = BeatIn
    BY <1>3 DEF Expire, BeatIn
  <2> QED
    BY <1>3, <2>1 DEF Expire, KeptInv, InTime, FrameInTime, BeatInTime, serverVars
<1>4. CASE OnDeadline
  <2>1. CASE wait = "expired" /\ has_connected
    <3>1. BeatInTime => timer > MaxDelay - 0
      BY BeatBounds DEF BeatInTime, TypeOK
    <3>2. frames' = frames \cup {0} /\ UNCHANGED <<server, timer, early, has_connected>>
      BY <1>4, <2>1 DEF OnDeadline, serverVars
    <3>3. FrameInTime \/ BeatInTime => FrameInTime'
      BY <3>1, <3>2 DEF FrameInTime
    <3> QED
      BY <1>4, <2>1, <3>2, <3>3 DEF OnDeadline, reset_deadline_timer, KeptInv, InTime
  <2>2. CASE wait = "aborted"
    <3>1. BeatIn' = BeatIn
      BY <1>4, <2>2 DEF OnDeadline, reset_deadline_timer, BeatIn
    <3> QED
      BY <1>4, <2>2, <3>1 DEF OnDeadline, reset_deadline_timer, KeptInv, InTime,
         FrameInTime, BeatInTime, serverVars
  <2>3. CASE wait = "expired" /\ ~has_connected
    BY <1>4, <2>3 DEF OnDeadline, reset_deadline_timer, KeptInv, InTime, serverVars
  <2> QED
    BY <1>4, <2>1, <2>2, <2>3 DEF OnDeadline
<1>5. CASE Call
  BY <1>5 DEF Call, KeptInv, InTime, FrameInTime, BeatInTime, BeatIn, clientVars,
     serverVars
<1>6. CASE Connected
  <2>1. timer + unaware >= IdleTimeout => timer' >= IdleTimeout - MaxDelay
    BY <1>6 DEF Connected, serverVars, TypeOK
  <2> QED
    BY <1>6, <2>1, <1>f DEF Connected, KeptInv, InTime, serverVars
<1>7. CASE Accept
  <2>1. timer' = IdleTimeout /\ timer' >= IdleTimeout - MaxDelay
    BY <1>7 DEF Accept
  <2> QED
    BY <1>7, <2>1, <1>f DEF Accept, KeptInv, InTime, clientVars, TypeOK
<1>8. CASE OnTimer
  <2>1. InTime => timer > 0
    BY BeatBounds, MarginAssumption DEF InTime, FrameInTime, BeatInTime, TypeOK
  <2> QED
    BY <1>8, <2>1 DEF OnTimer, CloseIdle, KeptInv, clientVars
<1>9. ASSUME NEW age \in frames, Receive(age) PROVE KeptInv'
  <2>1. has_connected
    BY <1>9 DEF KeptInv
  <2>2. server = "open" => timer' >= IdleTimeout - MaxDelay
    BY <1>9 DEF Receive, ResetTimer
  <2> QED
    BY <1>9, <2>1, <2>2, <1>f DEF Receive, KeptInv, InTime, clientVars
<1>10. CASE Tick
  <2>1. frames = {} => frames' = {}
    BY <1>10 DEF Tick
  <2>2. UNCHANGED <<has_connected, wait, disables, early, server>>
    BY <1>10 DEF Tick
  <2>3. server = "open" => timer' = timer - 1
    BY <1>10 DEF Tick
  <2>4. ASSUME server = "open", FrameInTime PROVE FrameInTime'
    <3>1. PICK age \in frames : timer > MaxDelay - age
      BY <2>4 DEF FrameInTime
    <3>2. age + 1 \in frames' /\ age \in Nat
      BY <1>10 DEF Tick, TypeOK
    <3>3. timer' > MaxDelay - (age + 1)
      BY <2>3, <2>4, <3>1, <3>2 DEF TypeOK
    <3> QED
      BY <3>2, <3>3 DEF FrameInTime
  <2>5. ASSUME server = "open", BeatInTime, wait # "off" PROVE BeatInTime'
    <3>1. wait = "pending" /\ deadline' = deadline - 1
      BY <1>10, <2>5 DEF Tick, NothingDue, TypeOK
    <3>2. BeatIn' = BeatIn - 1
      BY <2>2, <3>1 DEF BeatIn, TypeOK
    <3> QED
      BY <2>3, <2>5, <3>2, BeatBounds DEF BeatInTime, TypeOK
  <2>6. server = "open" /\ ~has_connected => timer' + unaware' = timer + unaware
    BY <1>10 DEF Tick, TypeOK
  <2>7. server = "listening" => unaware' = unaware
    BY <1>10 DEF Tick
  <2> QED
    BY <2>1, <2>2, <2>4, <2>5, <2>6, <2>7 DEF KeptInv, InTime
<1>11. CASE UNCHANGED vars
  BY <1>11 DEF vars, clientVars, serverVars, KeptInv, InTime, FrameInTime, BeatInTime,
     BeatIn
<1> QED
  BY <1>1, <1>2, <1>3, <1>4, <1>5, <1>6, <1>7, <1>8, <1>9, <1>10, <1>11 DEF Next

(***************************************************************************)
(* Whatever the phase of the heartbeat when the connection is made, however  *)
(* late frames are within the margin, and even if the heartbeat is disabled  *)
(* meanwhile, its client is not given up by the server.                      *)
(***************************************************************************)
THEOREM HeartbeatKeepsAlive == Spec => []KeptAlive
<1>1. TypeOK /\ KeptInv => KeptAlive
  BY DEF KeptInv, KeptAlive
<1> QED
  BY <1>1, InitType, NextType, KeptInit, KeptNext, PTL DEF Spec

=============================================================================
