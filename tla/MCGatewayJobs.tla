--------------------------- MODULE MCGatewayJobs ---------------------------
(* Instances of GatewayJobs for TLC.                                       *)
EXTENDS GatewayJobs, TLC

CONSTANTS w1, w2, s1, s2, j1

\* Two workers with one slot each.
HomeOfTwo == s1 :> w1 @@ s2 :> w2
=============================================================================
