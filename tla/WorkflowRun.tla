---------------------------- MODULE WorkflowRun ----------------------------
(* The run of a workflow that both runners work on (pkg/workflow/workflow.go, *)
(* executeWithRunRecord): its row in workflow_runs, the results map and what  *)
(* has been executed.  WorkflowDag is the runner for max_concurrency > 1,     *)
(* WorkflowSteps the one for the others.                                      *)
EXTENDS Integers

CONSTANTS
    MaxErrors,    \* bound: tasks or steps that fail
    MaxFaults,    \* bound: store calls that fail
    MaxCrashes,   \* bound: crashes of the process
    MaxResumes    \* bound: calls of ResumeWorkflow

ASSUME BoundsAssumption ==
    MaxErrors \in Nat /\ MaxFaults \in Nat /\ MaxCrashes \in Nat /\ MaxResumes \in Nat

VARIABLES
    status,       \* workflow_runs.status
    checkpoint,   \* workflow_runs.checkpoint_data, as the runner uses it
    applied,      \* how often each task or step was executed with success
    results,      \* the tasks or steps with an entry in the results map
    counters      \* errors, faults, crashes and resumes so far
=============================================================================
