---------------------------- MODULE MCEventOutbox ----------------------------
(* Instances of EventOutbox for TLC.                                       *)
EXTENDS EventOutbox, TLC

CONSTANTS e1, e2, r1, g1, g2

\* An event source with a batch of two, and a capability whose event has an
\* id already used.
TwoEmitters == (g1 :> <<e1, e2>>) @@ (g2 :> <<e2>>)

\* One emitter.
OneEmitter == g1 :> <<e1>>
=============================================================================
