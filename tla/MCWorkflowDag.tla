--------------------------- MODULE MCWorkflowDag ---------------------------
(* Small graphs for WorkflowDag. *)
EXTENDS WorkflowDag, TLC

CONSTANTS a, b, c, d

Edges(pairs) == [t \in Tasks |-> {p[2] : p \in {q \in pairs : q[1] = t}}]

\* b and c after a, d after both.
Diamond == Edges({<<b, a>>, <<c, a>>, <<d, b>>, <<d, c>>})

\* c after b after a.
Chain == Edges({<<b, a>>, <<c, b>>})
=============================================================================
