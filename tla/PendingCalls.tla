---------------------------- MODULE PendingCalls ----------------------------
(***************************************************************************)
(* What a client promises about the calls it issues, whatever the network   *)
(* and the threads do: a call is given an id no other call has, is pending  *)
(* until it is settled, and is settled once.  All the pending calls may be  *)
(* abandoned together, and later calls are not affected by that.            *)
(***************************************************************************)
EXTENDS Integers

CONSTANTS
    Ids,        \* the ids of the calls, integers
    Outcomes    \* what a call can be told

VARIABLE status     \* of each call: "unused", "pending" or how it was settled

Init == status = [id \in Ids |-> "unused"]

\* Ids are given out in increasing order.
Issue(id) ==
    /\ \A other \in Ids : status[other] = "unused" <=> id <= other
    /\ status' = [status EXCEPT ![id] = "pending"]

Settle(id, outcome) ==
    /\ status[id] = "pending"
    /\ status' = [status EXCEPT ![id] = outcome]

Abandon ==
    status' = [id \in Ids |-> IF status[id] = "pending" THEN "dropped"
                                                         ELSE status[id]]

Next == \/ \E id \in Ids : Issue(id) \/ \E o \in Outcomes : Settle(id, o)
        \/ Abandon

Spec == Init /\ [][Next]_status

=============================================================================
