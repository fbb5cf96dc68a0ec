------------------------- MODULE MCCapabilityCalls -------------------------
(* Instances of CapabilityCalls for TLC.                                   *)
EXTENDS CapabilityCalls, TLC

CONSTANTS r1, r2, m1, m2, k1

\* Both reads ask the same thing.
SameKey == r1 :> k1 @@ r2 :> k1
=============================================================================
