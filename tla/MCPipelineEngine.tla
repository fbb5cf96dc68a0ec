-------------------------- MODULE MCPipelineEngine --------------------------
(* Instances of PipelineEngine for TLC.                                    *)
EXTENDS PipelineEngine, TLC

CONSTANTS p1, p2, e1, l1, l2, w1, w2

\* The bus event triggers one of the two definitions.
OneSubscriber == (p1 :> {e1}) @@ (p2 :> {})

\* It triggers both.
TwoSubscribers == (p1 :> {e1}) @@ (p2 :> {e1})
=============================================================================
