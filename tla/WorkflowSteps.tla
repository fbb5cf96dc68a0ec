--------------------------- MODULE WorkflowSteps ---------------------------
(* A workflow run with max_concurrency <= 1 (pkg/workflow/workflow.go): the *)
(* steps run in pipeline order, a checkpoint is saved before each step, and *)
(* a run that failed or was cut off is resumed after the checkpoint.        *)
EXTENDS WorkflowRun

CONSTANTS
    NumSteps,     \* the length of wf.Pipeline
    Resumable     \* wf.Resumable

ASSUME StepsAssumption == NumSteps \in Nat \ {0} /\ Resumable \in BOOLEAN

\* The checkpoint is a record [index, results].
VARIABLES
    pc,           \* where the runner is
    step,         \* the index of its step
    lost          \* how many checkpoints were not saved

stepsVars == <<status, checkpoint, applied, pc, step, results, lost, counters>>

Steps == 0..NumSteps - 1
StepsLimit ==
    [errors |-> MaxErrors, faults |-> MaxFaults, crashes |-> MaxCrashes, resumes |-> MaxResumes]
SpendStep(c) == counters[c] < StepsLimit[c] /\ counters' = [counters EXCEPT ![c] = @ + 1]

StepsTypeOK ==
    /\ status \in {"none", "running", "done", "failed"}
    /\ checkpoint.index \in Steps /\ checkpoint.results \subseteq Steps
    /\ applied \in [Steps -> Nat]
    /\ pc \in {"idle", "save", "execute", "done", "failed"}
    /\ step \in 0..NumSteps /\ results \subseteq Steps
    /\ lost \in 0..MaxFaults /\ \A c \in DOMAIN StepsLimit : counters[c] \in 0..StepsLimit[c]

\* A run without checkpoint data decodes to the zero checkpoint.
StepsInit ==
    /\ status = "none" /\ checkpoint = [index |-> 0, results |-> {}]
    /\ applied = [i \in Steps |-> 0] /\ pc = "idle" /\ step = 0 /\ results = {}
    /\ lost = 0 /\ counters = [c \in DOMAIN StepsLimit |-> 0]

\* The head of the loop over the steps.
Goto(i) == step' = i /\ pc' = IF i < NumSteps THEN "save" ELSE "done"

StartSteps ==
    /\ status = "none" /\ status' = "running" /\ Goto(0)
    /\ UNCHANGED <<checkpoint, applied, results, lost, counters>>

\* Faulty: a resume begins with the first step.
ResumeAt_First == 0

ResumeAt == checkpoint.index + 1

(* ResumeWorkflow, when no runner is at work on the run.                   *)
ResumeSteps ==
    /\ pc = "idle" /\ status \in {"running", "failed"} /\ SpendStep("resumes")
    /\ Goto(ResumeAt) /\ results' = checkpoint.results
    /\ UNCHANGED <<status, checkpoint, applied, lost>>

\* Faulty: the checkpoint counts the step that is about to run.
SaveCheckpoint_WithStep ==
    /\ pc = "save" /\ pc' = "execute"
    /\ checkpoint' = IF Resumable THEN [index |-> step, results |-> results \cup {step}] ELSE checkpoint
    /\ UNCHANGED <<status, applied, step, results, lost, counters>>

(* saveCheckpoint: an error of the store is only logged.                   *)
SaveCheckpoint ==
    /\ pc = "save" /\ pc' = "execute"
    /\ \/ /\ checkpoint' = IF Resumable THEN [index |-> step, results |-> results] ELSE checkpoint
          /\ UNCHANGED <<lost, counters>>
       \/ Resumable /\ UNCHANGED checkpoint /\ lost' = lost + 1 /\ SpendStep("faults")
    /\ UNCHANGED <<status, applied, step, results>>

(* executeSequentialStep and executeResumeStep with all their attempts; a  *)
(* step may leave no result, and fails when its parameters refer to a      *)
(* result that is not there.                                               *)
ExecuteStep ==
    /\ pc = "execute"
    /\ \/ /\ applied' = [applied EXCEPT ![step] = @ + 1]
          /\ results' \in {results, results \cup {step}}
          /\ Goto(step + 1) /\ UNCHANGED counters
       \/ pc' = "failed" /\ UNCHANGED <<applied, results, step>> /\ SpendStep("errors")
    /\ UNCHANGED <<status, checkpoint, lost>>

\* Faulty: a failing step ends the loop and leaves the row.
Finish_OnlyDone ==
    /\ pc \in {"done", "failed"} /\ pc' = "idle"
    /\ status' = IF pc = "done" THEN "done" ELSE status
    /\ UNCHANGED <<checkpoint, applied, step, results, lost, counters>>

(* The outcome, by the end of the loop or by failRun; an error of the      *)
(* store is ignored.                                                       *)
Finish ==
    /\ pc \in {"done", "failed"} /\ pc' = "idle"
    /\ \/ status' = pc /\ UNCHANGED counters
       \/ UNCHANGED status /\ SpendStep("faults")
    /\ UNCHANGED <<checkpoint, applied, step, results, lost>>

CrashSteps ==
    /\ pc # "idle" /\ pc' = "idle" /\ step' = 0 /\ results' = {} /\ SpendStep("crashes")
    /\ UNCHANGED <<status, checkpoint, applied, lost>>

StepsNext == StartSteps \/ ResumeSteps \/ SaveCheckpoint \/ ExecuteStep \/ Finish \/ CrashSteps

StepsSpec == StepsInit /\ [][StepsNext]_stepsVars

(* The goroutine of the run is scheduled, and an executor returns: its     *)
(* context ends after ten minutes.                                         *)
FairStepsSpec ==
    StepsSpec /\ WF_stepsVars(SaveCheckpoint) /\ WF_stepsVars(ExecuteStep) /\ WF_stepsVars(Finish)

-----------------------------------------------------------------------------
(* Properties.                                                             *)

(* A resume repeats a step only for a checkpoint that was not saved, when  *)
(* the workflow is resumable.                                              *)
RepeatsArePaidFor ==
    Resumable => \A i \in Steps : applied[i] <= 1 + lost

(* The results in a checkpoint are of steps that were executed, all before *)
(* the step it stands at: a template never reads the result of a later or  *)
(* unexecuted step.                                                        *)
IndexIsHonest ==
    \A i \in checkpoint.results : applied[i] > 0 /\ i < checkpoint.index

(* Every run that starts or is resumed gets an outcome, unless a call of    *)
(* the store failed or the process died.                                   *)
RunGetsOutcome ==
    pc # "idle" ~> pc = "idle" /\ (status # "running" \/ counters.faults + counters.crashes > 0)

(* "Skip already-completed steps and resume from checkpoint."              *)
(* (ResumeWorkflow): only completed steps are skipped.                     *)
SkipsOnlyCompleted ==
    [][ResumeSteps => \A i \in Steps : i < ResumeAt => applied[i] > 0]_stepsVars
=============================================================================
