------------------------------ MODULE MCRouter ------------------------------
(* Router with three names: two have the same hash, the third one of its own. *)
EXTENDS Router, TLC

CONSTANTS n1, n2, n3, k1, k2

MCNames   == {n1, n2, n3}
MCFuncIds == {k1, k2}
Colliding == n1 :> k1 @@ n2 :> k1 @@ n3 :> k2

=============================================================================
