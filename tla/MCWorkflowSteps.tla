-------------------------- MODULE MCWorkflowSteps --------------------------
(* WorkflowSteps with the values that its configurations give. *)
EXTENDS WorkflowSteps, TLC
=============================================================================
