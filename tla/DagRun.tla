------------------------------ MODULE DagRun ------------------------------
(* What a workflow run promises: every task is executed after the tasks it *)
(* depends on, and a run that is done has executed them all, as long as it *)
(* is whole: nothing cut it short or made it lose track of its tasks.      *)
CONSTANTS Tasks, Deps
VARIABLES executed, outcome, whole

vars == <<executed, outcome, whole>>

Init == executed = {} /\ outcome = "none" /\ whole = TRUE

Begin == outcome = "none" /\ outcome' = "running" /\ UNCHANGED <<executed, whole>>

Execute(t) ==
    /\ t \notin executed /\ (whole => Deps[t] \subseteq executed)
    /\ executed' = executed \cup {t} /\ UNCHANGED <<outcome, whole>>

Succeed ==
    /\ outcome \in {"running", "failed"} /\ (whole => executed = Tasks)
    /\ outcome' = "done" /\ UNCHANGED <<executed, whole>>

Fail == (whole => outcome = "running") /\ outcome' = "failed" /\ UNCHANGED <<executed, whole>>

Break == whole' = FALSE /\ UNCHANGED <<executed, outcome>>

Next == Begin \/ Succeed \/ Fail \/ Break \/ \E t \in Tasks : Execute(t)

Spec == Init /\ [][Next]_vars
=============================================================================
