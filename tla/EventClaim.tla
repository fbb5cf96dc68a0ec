----------------------------- MODULE EventClaim -----------------------------
(***************************************************************************)
(* What the pipeline engine promises about one event and one pipeline,     *)
(* whatever goes wrong on the way: the pair is claimed at most once, a run *)
(* is only ever started for a claimed pair, and a run that has settled     *)
(* keeps its outcome.  Losing a pair after it was claimed is allowed (the  *)
(* promise is at-most-once), running it twice is not.                      *)
(*                                                                         *)
(* PipelineEngine implements this specification; its refinement mapping    *)
(* reads the stage of a pair off the tables event_consumptions and         *)
(* pipeline_runs.                                                          *)
(***************************************************************************)
CONSTANT Pairs          \* the (pipeline, event) pairs

VARIABLE stage          \* stage[x]: how far the pair x has come

Outcomes == {"done", "failed", "cancel"}
Stages   == {"new", "claimed", "running"} \cup Outcomes

Init == stage = [x \in Pairs |-> "new"]

(* A consumer takes the pair for itself. *)
Claim(x) ==
    /\ stage[x] = "new"
    /\ stage' = [stage EXCEPT ![x] = "claimed"]

(* The run of a claimed pair begins. *)
Start(x) ==
    /\ stage[x] = "claimed"
    /\ stage' = [stage EXCEPT ![x] = "running"]

(* The run ends with an outcome, once. *)
Settle(x) ==
    /\ stage[x] = "running"
    /\ \E o \in Outcomes : stage' = [stage EXCEPT ![x] = o]

Next == \E x \in Pairs : Claim(x) \/ Start(x) \/ Settle(x)

Spec == Init /\ [][Next]_stage
=============================================================================
