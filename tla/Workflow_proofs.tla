-------------------------- MODULE Workflow_proofs --------------------------
(* Proofs about the two runners of a workflow.                             *)
(*                                                                         *)
(* WorkflowDag, for every acyclic graph, width and number of errors,       *)
(* faults, timeouts, crashes and resumes.  DagInv is inductive: in every   *)
(* state the counters of the loop agree with the goroutines (LoopInv), no  *)
(* task is handed out twice (OnceInv), and the row agrees with both        *)
(* (RowInv).  Until a resume begins from a checkpoint with holes, what was *)
(* kept is closed under dependencies and is not executed again (KeptInv),  *)
(* an in-degree counts the tasks that a task waits for (DegreeInv), and    *)
(* remaining counts those that have not ended (CountInv).  While the run   *)
(* is whole only an error ends its context (OutcomeInv).  From these       *)
(* follow the checkpoint's honesty, that recorded tasks run once, and that *)
(* the runner implements DagRun.  WaitInv, weaker and kept by every        *)
(* resume, is what keeps the loop from getting stuck.                      *)
(*                                                                         *)
(* WorkflowSteps, at the end, for every number of steps.  The two runners  *)
(* are two specifications over the same row (WorkflowRun).                 *)
EXTENDS WorkflowDag, WorkflowSteps, FiniteSetTheorems, TLAPS

\* The types that the proofs need; the bounds on the counters do not matter.
Typed ==
    /\ status \in {"none", "running", "done", "failed"} /\ checkpoint \subseteq Tasks
    /\ applied \in [Tasks -> Nat]
    /\ loop \in {"idle", "dispatch", "select", "drain", "wait"}
    /\ active \in Nat /\ remaining \in Nat /\ ended \in Nat
    /\ ready \subseteq Tasks /\ results \subseteq Tasks /\ inDegree \in [Tasks -> Int]
    /\ task \in [Tasks -> PCs]
    /\ over \in BOOLEAN /\ failed \in BOOLEAN /\ holes \in BOOLEAN
    /\ counters \in [DOMAIN Limit -> Nat]

Ended == {t \in Tasks : task[t] = "ended"}

\* The loop counts what it has handed out and not heard of: active is the
\* goroutines at work and the messages in the channel.
LoopInv ==
    /\ active = Cardinality(InFlight) + ended /\ active <= MaxConcurrency
    /\ ended <= Cardinality(Ended) /\ remaining <= Cardinality(Tasks)
    /\ loop \in {"dispatch", "select"} => remaining > 0 \/ Tasks = {}

\* A task is handed out once in a run of the loop: its in-degree is spent.
OnceInv ==
    /\ \A t \in ready : task[t] = "none" /\ inDegree[t] <= 0
    /\ \A t \in Tasks : task[t] # "none" => inDegree[t] <= 0

\* What the run row, the loop and the goroutines say of each other.
RowInv ==
    /\ loop = "idle" => InFlight = {}
    /\ status = "none" => loop = "idle" /\ checkpoint = {} /\ Executed = {}
    /\ failed => over
    /\ \A t \in Tasks : task[t] = "enqueue" => t \in Executed
    /\ \A t \in Tasks : task[t] \in {"report", "ended"} => t \in Executed \/ failed

\* The completed tasks of the checkpoint that the loop began from.
Base == {t \in Tasks : task[t] = "none" /\ t \in results}

\* The tasks whose dependents have been told.
Told == {t \in Tasks : task[t] \in {"report", "ended"}} \cup Base

\* What was kept is closed, was executed, and is not executed again.
KeptInv ==
    /\ \A t \in results \cup checkpoint : t \in Executed /\ Deps[t] \subseteq Executed
    /\ \A t \in Tasks : task[t] \in {"execute", "enqueue"} => Deps[t] \subseteq Executed
    /\ loop # "idle" => checkpoint \subseteq results
    /\ \A t \in Tasks : t \in ready \/ task[t] \in {"start", "execute"} => t \notin results
    /\ loop # "idle" => \A t \in Base : Deps[t] \subseteq Base /\ inDegree[t] = 0

\* While the context lasts the in-degree of a task is the number of tasks that
\* it waits for, and a task that waits for none depends on executed tasks.
DegreeInv ==
    ~over /\ loop # "idle" =>
        /\ \A t \in Tasks : inDegree[t] = Cardinality(Deps[t] \ Told)
        /\ \A t \in Tasks : t \in ready \/ task[t] = "start" => Deps[t] \subseteq Executed

\* The loop waits for as many messages as there are tasks that have not ended.
CountInv ==
    loop # "idle" =>
        remaining + Cardinality(Ended) = Cardinality(Tasks \ Base) + ended

\* While the run is whole, only an error ends its context, and its outcome is
\* done only when it has no task left.
Whole == counters["timeouts"] = 0 /\ ~holes

OutcomeInv ==
    /\ over => failed
    /\ loop \in {"drain", "wait"} /\ ~failed => remaining = 0
    /\ status = "done" => InFlight = {} /\ loop \in {"idle", "wait"}

DagInv ==
    /\ Typed /\ LoopInv /\ OnceInv /\ RowInv
    /\ ~holes => KeptInv /\ DegreeInv /\ CountInv
    /\ Whole => OutcomeInv

-----------------------------------------------------------------------------
(* Cardinalities of sets of tasks, and the moves of a goroutine.           *)

(* A set of tasks is finite and not larger than the workflow.              *)
LEMMA TaskSets ==
    ASSUME NEW S \in SUBSET Tasks
    PROVE  /\ IsFiniteSet(S) /\ Cardinality(S) \in Nat
           /\ Cardinality(S) <= Cardinality(Tasks) /\ Cardinality(Tasks) \in Nat
           /\ Cardinality(S) = 0 <=> S = {}
BY DagAssumption, FS_Subset, FS_CardinalityType, FS_EmptySet

(* One task more in a set of tasks is one more to count.                   *)
LEMMA OneMore ==
    ASSUME NEW S \in SUBSET Tasks, NEW t \in Tasks \ S
    PROVE  Cardinality(S \cup {t}) = Cardinality(S) + 1
BY TaskSets, FS_AddElement

(* One task less in a set of tasks is one less to count.                   *)
LEMMA OneLess ==
    ASSUME NEW S \in SUBSET Tasks, NEW t \in S
    PROVE  Cardinality(S \ {t}) = Cardinality(S) - 1
BY TaskSets, FS_RemoveElement

(* A goroutine that moves leaves the others where they are.                *)
LEMMA AtMoves ==
    ASSUME Typed, NEW t \in Tasks, NEW from \in PCs, NEW to \in PCs, At(t, from, to)
    PROVE  /\ task' \in [Tasks -> PCs] /\ task[t] = from /\ task'[t] = to
           /\ \A u \in Tasks \ {t} : task'[u] = task[u]
BY DEF Typed, At

(* A goroutine at work that moves on stays in flight.                      *)
LEMMA AtWork ==
    ASSUME Typed, NEW t \in Tasks,
           NEW from \in PCs \ {"none", "ended"}, NEW to \in PCs \ {"none", "ended"},
           At(t, from, to)
    PROVE  InFlight' = InFlight /\ Ended' = Ended
<1>1. /\ task[t] = from /\ task'[t] = to
      /\ \A u \in Tasks \ {t} : task'[u] = task[u]
  BY AtMoves
<1> QED BY <1>1 DEF InFlight, Ended

(* A task that is handed out is one more in flight.                        *)
LEMMA DispatchMoves ==
    ASSUME Typed, OnceInv, Dispatch
    PROVE  \E t \in ready :
              /\ task[t] = "none" /\ task'[t] = "start" /\ ready' = ready \ {t}
              /\ \A u \in Tasks \ {t} : task'[u] = task[u]
              /\ task' \in [Tasks -> PCs]
              /\ InFlight' = InFlight \cup {t} /\ t \notin InFlight /\ Ended' = Ended
<1>1. PICK t \in ready : ready' = ready \ {t} /\ task' = [task EXCEPT ![t] = "start"]
  BY DEF Dispatch
<1>2. t \in Tasks /\ task[t] = "none"
  BY DEF Typed, OnceInv
<1>3. /\ task'[t] = "start" /\ task' \in [Tasks -> PCs]
      /\ \A u \in Tasks \ {t} : task'[u] = task[u]
  BY <1>1, <1>2 DEF Typed, PCs
<1>4. InFlight' = InFlight \cup {t} /\ t \notin InFlight /\ Ended' = Ended
  BY <1>2, <1>3 DEF InFlight, Ended
<1> QED BY <1>1, <1>2, <1>3, <1>4

(* A task that reports has ended.                                          *)
LEMMA ReportMoves ==
    ASSUME Typed, NEW t \in Tasks, Report(t)
    PROVE  /\ InFlight' = InFlight \ {t} /\ t \in InFlight
           /\ Ended' = Ended \cup {t} /\ t \notin Ended
<1>1. /\ task[t] = "report" /\ task'[t] = "ended"
      /\ \A u \in Tasks \ {t} : task'[u] = task[u]
  BY AtMoves DEF Report, PCs
<1> QED BY <1>1 DEF InFlight, Ended

(* A run of the loop begins with no goroutine.                             *)
LEMMA RunBegins ==
    ASSUME NEW done \in SUBSET Tasks, Run(done)
    PROVE  /\ InFlight' = {} /\ Ended' = {} /\ Base' = done /\ Told' = done
           /\ task' \in [Tasks -> PCs] /\ \A t \in Tasks : task'[t] = "none"
BY DEF Run, InFlight, Ended, Base, Told, PCs

(* A crash leaves no goroutine.                                            *)
LEMMA CrashEnds ==
    ASSUME Crash
    PROVE  InFlight' = {} /\ Ended' = {} /\ task' \in [Tasks -> PCs]
BY DEF Crash, InFlight, Ended, PCs

-----------------------------------------------------------------------------
(* Types, the counters of the loop, and the hand-outs.                     *)

(* A start or a resume begins a run, or only writes the outcome.           *)
LEMMA ResumeMoves ==
    ASSUME Typed, ResumeWorkflow
    PROVE  /\ loop = "idle" /\ status \in {"running", "failed"} /\ UNCHANGED <<checkpoint, applied>>
           /\ \/ Run(checkpoint) /\ checkpoint # Tasks /\ UNCHANGED status
              \/ /\ checkpoint = Tasks /\ status' \in {status, "done"}
                 /\ UNCHANGED <<loopVars, dagVars, task, ended, over, failed>>
BY DEF ResumeWorkflow

(* Counting a fault or an attempt keeps the counters numbers.              *)
LEMMA SpendTyped ==
    ASSUME Typed, NEW c \in DOMAIN Limit, Spend(c)
    PROVE  /\ counters' \in [DOMAIN Limit -> Nat] /\ counters'[c] = counters[c] + 1
           /\ \A e \in (DOMAIN Limit) \ {c} : counters'[e] = counters[e]
BY DEF Typed, Spend

(* A step spends at most one of the counters.                              *)
LEMMA SomeCounter ==
    ASSUME [Next]_vars
    PROVE  UNCHANGED counters \/ \E c \in DOMAIN Limit : Spend(c)
<1>1. DOMAIN Limit = {"errors", "silents", "faults", "timeouts", "crashes", "resumes"}
  BY DEF Limit
<1>2. CASE \E t \in Tasks : Step(t) \/ ExecuteTask(t)
  BY <1>1, <1>2 DEF Step, BeginTask, Enqueue, FailFast, Report, ExecuteTask
<1>3. CASE StartRun \/ ResumeWorkflow \/ Loop \/ Timeout \/ Crash
  BY <1>1, <1>3 DEF StartRun, ResumeWorkflow, Loop, Dispatch, Dispatched, TaskDone,
                    ContextDone, Drain, Wait, Timeout, Crash
<1> QED BY <1>2, <1>3 DEF Next, vars

(* The counters stay numbers.                                              *)
LEMMA CountersTyped == Typed /\ [Next]_vars => counters' \in [DOMAIN Limit -> Nat]
BY SomeCounter, SpendTyped DEF Typed

(* Run gives everything of the loop its type.                              *)
LEMMA RunTyped ==
    ASSUME Typed, NEW done \in SUBSET Tasks, Run(done)
    PROVE  /\ loop' = "dispatch" /\ active' \in Nat /\ remaining' \in Nat /\ ended' \in Nat
           /\ ready' \subseteq Tasks /\ results' \subseteq Tasks /\ inDegree' \in [Tasks -> Int]
           /\ task' \in [Tasks -> PCs] /\ over' \in BOOLEAN /\ failed' \in BOOLEAN
<1>1. Cardinality(Tasks \ done) \in Nat
  BY TaskSets
<1>2. \A t \in Tasks : Cardinality(Deps[t] \ done) \in Nat
  <2> TAKE t \in Tasks
  <2>1. Deps[t] \ done \in SUBSET Tasks
    BY DagAssumption
  <2> QED BY <2>1, TaskSets
<1>3. inDegree' \in [Tasks -> Int]
  <2>1. inDegree' = [t \in Tasks |-> Cardinality(Deps[t] \ done)]
    BY DEF Run
  <2> QED BY <1>2, <2>1
<1>4. ready' \subseteq Tasks /\ results' \subseteq Tasks /\ task' \in [Tasks -> PCs]
  BY RunBegins DEF Run, ReadyAfter
<1> QED BY <1>1, <1>3, <1>4 DEF Run

(* When a message is in the channel, the loop has counted it.              *)
LEMMA MessageIsCounted ==
    ASSUME Typed, LoopInv, TaskDone
    PROVE  active > 0 /\ remaining > 0
<1>1. Cardinality(InFlight) \in Nat /\ Cardinality(Ended) <= Cardinality(Tasks)
  BY TaskSets DEF InFlight, Ended
<1>2. active > 0
  BY <1>1 DEF TaskDone, LoopInv, Typed
<1>3. Tasks # {}
  <2> SUFFICES ASSUME Tasks = {} PROVE FALSE
      OBVIOUS
  <2>1. Cardinality(Ended) = 0
    BY TaskSets DEF Ended
  <2> QED BY <2>1 DEF TaskDone, LoopInv, Typed
<1> QED BY <1>2, <1>3 DEF TaskDone, LoopInv

(* Every step keeps the types.                                             *)
LEMMA TypedStep == Typed /\ LoopInv /\ [Next]_vars => Typed'
<1> SUFFICES ASSUME Typed, LoopInv, [Next]_vars PROVE Typed'
    OBVIOUS
<1>0. counters' \in [DOMAIN Limit -> Nat]
  BY CountersTyped
<1> USE DEF Typed
<1>1. CASE StartRun
  BY <1>0, <1>1, RunTyped DEF StartRun
<1>2. CASE ResumeWorkflow
  <2>1. holes' \in BOOLEAN
    BY <1>2 DEF ResumeWorkflow
  <2> QED BY <1>0, <1>2, <2>1, ResumeMoves, RunTyped DEF loopVars, dagVars
<1>3. CASE Dispatch
  BY <1>0, <1>3 DEF Dispatch, rowVars, PCs
<1>4. CASE Dispatched
  BY <1>0, <1>4 DEF Dispatched, rowVars, dagVars
<1>5. CASE TaskDone
  <2>1. active' \in Nat /\ remaining' \in Nat /\ ended' \in Nat /\ loop' \in {"drain", "dispatch"}
    BY <1>5, MessageIsCounted DEF TaskDone
  <2> QED BY <1>0, <1>5, <2>1 DEF TaskDone, rowVars, dagVars
<1>6. CASE ContextDone
  BY <1>0, <1>6 DEF ContextDone, rowVars, dagVars
<1>7. CASE Drain
  BY <1>0, <1>7 DEF Drain, dagVars
<1>8. CASE Wait
  BY <1>0, <1>8 DEF Wait, rowVars, dagVars
<1>9. CASE Timeout
  BY <1>0, <1>9 DEF Timeout, rowVars, loopVars, dagVars
<1>10. CASE Crash
  <2>1. inDegree' \in [Tasks -> Int] /\ task' \in [Tasks -> PCs]
    BY <1>10 DEF Crash, PCs
  <2> QED BY <1>0, <1>10, <2>1 DEF Crash, rowVars
<1>11. ASSUME NEW t \in Tasks, BeginTask(t) PROVE Typed'
  <2>1. task' \in [Tasks -> PCs]
    BY <1>11 DEF BeginTask, At, PCs
  <2> QED BY <1>0, <1>11, <2>1 DEF BeginTask, loopVars, dagVars
<1>12. ASSUME NEW t \in Tasks, Enqueue(t) PROVE Typed'
  <2>1. task' \in [Tasks -> PCs]
    BY <1>12 DEF Enqueue, At, PCs
  <2>2. ready' \subseteq Tasks /\ inDegree' \in [Tasks -> Int] /\ checkpoint' \subseteq Tasks
    BY <1>12 DEF Enqueue, Released, Dependents
  <2> QED BY <1>0, <1>12, <2>1, <2>2 DEF Enqueue, loopVars
<1>13. ASSUME NEW t \in Tasks, FailFast(t) PROVE Typed'
  BY <1>0, <1>13 DEF FailFast, At, PCs, rowVars, loopVars, dagVars
<1>14. ASSUME NEW t \in Tasks, Report(t) PROVE Typed'
  BY <1>0, <1>14 DEF Report, At, PCs, rowVars, loopVars, dagVars
<1>15. ASSUME NEW t \in Tasks, ExecuteTask(t) PROVE Typed'
  <2>1. task' \in [Tasks -> PCs]
    BY <1>15 DEF ExecuteTask, At, PCs
  <2>2. applied' \in [Tasks -> Nat] /\ results' \subseteq Tasks
    BY <1>15 DEF ExecuteTask
  <2> QED BY <1>0, <1>15, <2>1, <2>2 DEF ExecuteTask, rowVars, loopVars
<1>16. CASE UNCHANGED vars
  BY <1>16 DEF vars, rowVars, loopVars, dagVars
<1> QED BY <1>1, <1>2, <1>3, <1>4, <1>5, <1>6, <1>7, <1>8, <1>9, <1>10, <1>11, <1>12,
           <1>13, <1>14, <1>15, <1>16 DEF Next, Loop, Step

(* A run begins with its counters right, and hands out every task once.    *)
LEMMA RunCounts ==
    ASSUME Typed, NEW done \in SUBSET Tasks, Run(done), done # Tasks \/ Tasks = {}
    PROVE  LoopInv' /\ OnceInv'
<1>1. InFlight' = {} /\ Ended' = {} /\ \A t \in Tasks : task'[t] = "none"
  BY RunBegins
<1>2. Cardinality({}) = 0
  BY FS_EmptySet
<1>3. /\ Cardinality(Tasks \ done) \in Nat /\ Cardinality(Tasks \ done) <= Cardinality(Tasks)
      /\ Cardinality(Tasks \ done) = 0 => Tasks = {}
  BY TaskSets
<1>4. LoopInv'
  <2>1. active' = 0 /\ ended' = 0 /\ remaining' = Cardinality(Tasks \ done)
    BY DEF Run
  <2>2. active' = Cardinality(InFlight') + ended' /\ active' <= MaxConcurrency
    BY <1>1, <1>2, <2>1, DagAssumption
  <2>3. ended' <= Cardinality(Ended') /\ remaining' <= Cardinality(Tasks)
    BY <1>1, <1>2, <1>3, <2>1
  <2>4. remaining' > 0 \/ Tasks = {}
    BY <1>3, <2>1
  <2> QED BY <2>2, <2>3, <2>4 DEF LoopInv
<1>5. \A t \in ready' : inDegree'[t] <= 0
  <2> SUFFICES ASSUME NEW t \in ready' PROVE inDegree'[t] <= 0
      OBVIOUS
  <2>1. t \in Tasks /\ Deps[t] \ done = {} /\ inDegree'[t] = Cardinality(Deps[t] \ done)
    BY DEF Run, ReadyAfter
  <2> QED BY <1>2, <2>1
<1>6. ready' \subseteq Tasks
  BY DEF Run, ReadyAfter
<1> QED BY <1>1, <1>4, <1>5, <1>6 DEF OnceInv

(* Every step keeps the counters of the loop right.                        *)
LEMMA LoopStep == Typed /\ OnceInv /\ LoopInv /\ [Next]_vars => LoopInv'
<1> SUFFICES ASSUME Typed, OnceInv, LoopInv, [Next]_vars PROVE LoopInv'
    OBVIOUS
<1>a. /\ Cardinality(InFlight) \in Nat /\ Cardinality(Ended) \in Nat
      /\ Cardinality(Ended) <= Cardinality(Tasks) /\ Cardinality(Tasks) \in Nat
  BY TaskSets DEF InFlight, Ended
<1>b. ASSUME InFlight' = InFlight, Ended' = Ended, UNCHANGED <<active, remaining, ended>>,
             loop' \in {"dispatch", "select"} => loop \in {"dispatch", "select"}
      PROVE  LoopInv'
  BY <1>b DEF LoopInv
<1>c. ASSUME UNCHANGED task PROVE InFlight' = InFlight /\ Ended' = Ended
  BY <1>c DEF InFlight, Ended
<1>1. CASE StartRun
  BY <1>1, RunCounts DEF StartRun
<1>2. CASE ResumeWorkflow
  <2>1. CASE Run(checkpoint) /\ checkpoint # Tasks
    BY <2>1, RunCounts DEF Typed
  <2>2. CASE UNCHANGED <<loopVars, dagVars, task, ended, over, failed>>
    BY <2>2, <1>b, <1>c DEF loopVars
  <2> QED BY <1>2, <2>1, <2>2, ResumeMoves
<1>3. CASE Dispatch
  <2>1. PICK t \in ready : /\ InFlight' = InFlight \cup {t} /\ t \notin InFlight /\ Ended' = Ended
    BY <1>3, DispatchMoves
  <2>2. Cardinality(InFlight') = Cardinality(InFlight) + 1
    BY <2>1, OneMore DEF Typed, InFlight
  <2>3. active' = active + 1 /\ active < MaxConcurrency /\ UNCHANGED <<loop, remaining, ended>>
    BY <1>3 DEF Dispatch, HasReady
  <2>4. active' <= MaxConcurrency /\ active' = Cardinality(InFlight') + ended'
    BY <1>a, <2>2, <2>3, DagAssumption DEF Typed, LoopInv
  <2> QED BY <2>1, <2>3, <2>4 DEF LoopInv
<1>4. CASE Dispatched
  BY <1>4, <1>b, <1>c DEF Dispatched
<1>5. CASE TaskDone
  <2>1. active > 0 /\ remaining > 0
    BY <1>5, MessageIsCounted
  <2>2. /\ active' = active - 1 /\ remaining' = remaining - 1 /\ ended' = ended - 1 /\ ended > 0
        /\ loop' = (IF remaining' = 0 THEN "drain" ELSE "dispatch")
        /\ InFlight' = InFlight /\ Ended' = Ended
    BY <1>5, <1>c DEF TaskDone
  <2>3. active' = Cardinality(InFlight') + ended' /\ active' <= MaxConcurrency
    BY <1>a, <2>2, DagAssumption DEF LoopInv, Typed
  <2>4. ended' <= Cardinality(Ended') /\ remaining' <= Cardinality(Tasks)
    BY <1>a, <2>2 DEF LoopInv, Typed
  <2>5. loop' \in {"dispatch", "select"} => remaining' > 0
    BY <2>1, <2>2 DEF Typed
  <2> QED BY <2>3, <2>4, <2>5 DEF LoopInv
<1>6. CASE ContextDone
  BY <1>6, <1>b, <1>c DEF ContextDone
<1>7. CASE Drain
  BY <1>7, <1>b, <1>c DEF Drain
<1>8. CASE Wait
  BY <1>8, <1>b, <1>c DEF Wait
<1>9. CASE Timeout
  BY <1>9, <1>b, <1>c DEF Timeout, loopVars
<1>10. CASE Crash
  <2>1. Cardinality({}) = 0
    BY FS_EmptySet
  <2>2. InFlight' = {} /\ Ended' = {} /\ active' = 0 /\ ended' = 0 /\ remaining' = 0 /\ loop' = "idle"
    BY <1>10, CrashEnds DEF Crash
  <2> QED BY <1>a, <2>1, <2>2, DagAssumption DEF LoopInv
<1>11. ASSUME NEW t \in Tasks, BeginTask(t) PROVE LoopInv'
  <2>1. InFlight' = InFlight /\ Ended' = Ended
    BY <1>11, AtWork DEF BeginTask, PCs
  <2> QED BY <1>11, <1>b, <2>1 DEF BeginTask, loopVars
<1>12. ASSUME NEW t \in Tasks, Enqueue(t) PROVE LoopInv'
  <2>1. InFlight' = InFlight /\ Ended' = Ended
    BY <1>12, AtWork DEF Enqueue, PCs
  <2> QED BY <1>12, <1>b, <2>1 DEF Enqueue, loopVars
<1>13. ASSUME NEW t \in Tasks, FailFast(t) PROVE LoopInv'
  <2>1. InFlight' = InFlight /\ Ended' = Ended
    BY <1>13, AtWork DEF FailFast, PCs
  <2> QED BY <1>13, <1>b, <2>1 DEF FailFast, loopVars
<1>14. ASSUME NEW t \in Tasks, Report(t) PROVE LoopInv'
  <2>1. /\ InFlight' = InFlight \ {t} /\ t \in InFlight /\ Ended' = Ended \cup {t} /\ t \notin Ended
    BY <1>14, ReportMoves
  <2>2. Cardinality(InFlight') = Cardinality(InFlight) - 1
    BY <2>1, OneLess DEF InFlight
  <2>3. Cardinality(Ended') = Cardinality(Ended) + 1
    BY <2>1, OneMore DEF Ended
  <2>4. ended' = ended + 1 /\ UNCHANGED <<loop, active, remaining>>
    BY <1>14 DEF Report, loopVars
  <2>5. active' = Cardinality(InFlight') + ended'
    BY <1>a, <2>2, <2>4 DEF LoopInv, Typed
  <2>6. ended' <= Cardinality(Ended')
    BY <1>a, <2>3, <2>4 DEF LoopInv, Typed
  <2> QED BY <2>4, <2>5, <2>6 DEF LoopInv
<1>15. ASSUME NEW t \in Tasks, ExecuteTask(t) PROVE LoopInv'
  <2>1. InFlight' = InFlight /\ Ended' = Ended
    BY <1>15, AtWork DEF ExecuteTask, PCs
  <2> QED BY <1>15, <1>b, <2>1 DEF ExecuteTask, loopVars
<1>16. CASE UNCHANGED vars
  BY <1>16, <1>b, <1>c DEF vars, loopVars
<1> QED BY <1>1, <1>2, <1>3, <1>4, <1>5, <1>6, <1>7, <1>8, <1>9, <1>10, <1>11, <1>12,
           <1>13, <1>14, <1>15, <1>16 DEF Next, Loop, Step

(* Every step keeps a task from being handed out twice.                    *)
LEMMA OnceStep == Typed /\ OnceInv /\ [Next]_vars => OnceInv'
<1> SUFFICES ASSUME Typed, OnceInv, [Next]_vars PROVE OnceInv'
    OBVIOUS
<1>a. ASSUME UNCHANGED <<ready, inDegree>>, NEW t \in Tasks, task[t] # "none",
             task'[t] # "none", \A u \in Tasks \ {t} : task'[u] = task[u]
      PROVE  OnceInv'
  BY <1>a DEF OnceInv, Typed
<1>1. CASE StartRun
  BY <1>1, RunCounts DEF StartRun
<1>2. CASE ResumeWorkflow
  <2>1. CASE Run(checkpoint) /\ checkpoint # Tasks
    BY <2>1, RunCounts DEF Typed
  <2>2. CASE UNCHANGED <<loopVars, dagVars, task, ended, over, failed>>
    BY <2>2 DEF dagVars, OnceInv
  <2> QED BY <1>2, <2>1, <2>2, ResumeMoves
<1>3. CASE Dispatch
  <2>1. PICK t \in ready : /\ ready' = ready \ {t} /\ \A u \in Tasks \ {t} : task'[u] = task[u]
    BY <1>3, DispatchMoves
  <2>2. UNCHANGED inDegree
    BY <1>3 DEF Dispatch
  <2> QED BY <2>1, <2>2 DEF OnceInv, Typed
<1>4. CASE Loop /\ ~Dispatch
  BY <1>4 DEF Loop, Dispatched, TaskDone, ContextDone, Drain, Wait, dagVars, OnceInv
<1>5. CASE Timeout
  BY <1>5 DEF Timeout, dagVars, OnceInv
<1>6. CASE Crash
  BY <1>6 DEF Crash, OnceInv
<1>7. ASSUME NEW t \in Tasks, BeginTask(t) \/ FailFast(t) \/ Report(t) \/ ExecuteTask(t) PROVE OnceInv'
  <2>1. UNCHANGED <<ready, inDegree>>
    BY <1>7 DEF BeginTask, FailFast, Report, ExecuteTask, dagVars
  <2>2. PICK from \in PCs \ {"none"}, to \in PCs \ {"none"} : At(t, from, to)
    BY <1>7 DEF BeginTask, FailFast, Report, ExecuteTask, PCs
  <2>3. /\ task[t] = from /\ task'[t] = to
        /\ \A u \in Tasks \ {t} : task'[u] = task[u]
    BY <2>2, AtMoves
  <2> QED BY <1>a, <2>1, <2>3
<1>8. ASSUME NEW t \in Tasks, Enqueue(t) PROVE OnceInv'
  <2>1. /\ task[t] = "enqueue" /\ task'[t] = "report"
        /\ \A u \in Tasks \ {t} : task'[u] = task[u]
    BY <1>8, AtMoves DEF Enqueue, PCs
  <2>2. /\ inDegree' = [u \in Tasks |-> IF u \in Dependents(t) THEN inDegree[u] - 1 ELSE inDegree[u]]
        /\ ready' = ready \cup Released(t)
    BY <1>8 DEF Enqueue
  <2>3. \A u \in Tasks : inDegree[u] <= 0 => inDegree'[u] <= 0
    BY <2>2 DEF Typed
  <2>4. ASSUME NEW u \in Released(t) PROVE u \in Tasks /\ task'[u] = "none" /\ inDegree'[u] <= 0
    <3>1. u \in Dependents(t) /\ u \in Tasks /\ inDegree[u] = 1
      BY <2>4 DEF Released, Dependents
    <3>2. inDegree'[u] = 0 /\ task[u] = "none"
      BY <2>2, <3>1 DEF OnceInv
    <3> QED BY <2>1, <3>1, <3>2
  <2>5. \A u \in ready : u \in Tasks /\ task'[u] = "none" /\ inDegree'[u] <= 0
    BY <2>1, <2>3 DEF OnceInv, Typed
  <2>6. \A u \in Tasks : task'[u] # "none" => inDegree'[u] <= 0
    BY <2>1, <2>3 DEF OnceInv
  <2> QED BY <2>2, <2>4, <2>5, <2>6 DEF OnceInv
<1>9. CASE UNCHANGED vars
  BY <1>9 DEF vars, dagVars, OnceInv
<1> QED BY <1>1, <1>2, <1>3, <1>4, <1>5, <1>6, <1>7, <1>8, <1>9 DEF Next, Loop, Step

-----------------------------------------------------------------------------
(* The run row, and what is kept of a run.                                 *)

(* Only an execution that succeeds makes a task executed.                  *)
LEMMA ExecutedGrows ==
    ASSUME Typed, [Next]_vars
    PROVE  /\ Executed \subseteq Executed'
           /\ (\A t \in Tasks : ~ExecuteTask(t)) => UNCHANGED applied
<1>1. CASE \E t \in Tasks : ExecuteTask(t)
  <2>1. PICK t \in Tasks : ExecuteTask(t)
    BY <1>1
  <2>2. applied' = [applied EXCEPT ![t] = @ + 1] \/ UNCHANGED applied
    BY <2>1 DEF ExecuteTask
  <2>3. \A u \in Tasks : applied[u] > 0 => applied'[u] > 0
    BY <2>2 DEF Typed
  <2> QED BY <2>1, <2>3 DEF Executed
<1>2. CASE ~\E t \in Tasks : ExecuteTask(t)
  <2>1. UNCHANGED applied
    BY <1>2 DEF Next, Loop, Step, StartRun, ResumeWorkflow, Dispatch, Dispatched, TaskDone,
        ContextDone, Drain, Wait, Timeout, Crash, BeginTask, Enqueue, FailFast, Report, vars
  <2> QED BY <2>1 DEF Executed
<1> QED BY <1>1, <1>2

(* Every step keeps the row, the loop and the goroutines in agreement.     *)
LEMMA RowStep == Typed /\ OnceInv /\ RowInv /\ [Next]_vars => RowInv'
<1> SUFFICES ASSUME Typed, OnceInv, RowInv, [Next]_vars PROVE RowInv'
    OBVIOUS
<1>a. Executed \subseteq Executed'
  BY ExecutedGrows
<1>b. ASSUME UNCHANGED <<task, failed, over, checkpoint, applied>>,
             status' = "none" => status = "none" /\ loop' = "idle", loop' = "idle" => loop = "idle"
      PROVE  RowInv'
  BY <1>b DEF RowInv, InFlight, Executed
<1>c. ASSUME NEW done \in SUBSET Tasks, Run(done), status' # "none" PROVE RowInv'
  <2>1. loop' # "idle" /\ ~failed' /\ \A t \in Tasks : task'[t] = "none"
    BY <1>c, RunBegins DEF Run
  <2> QED BY <1>c, <2>1 DEF RowInv
\* A goroutine that moves is that of a run.
<1>d. ASSUME NEW t \in Tasks, t \in InFlight PROVE loop # "idle" /\ status # "none"
  BY <1>d DEF RowInv
<1>1. CASE StartRun
  BY <1>1, <1>c DEF StartRun
<1>2. CASE ResumeWorkflow
  <2>1. CASE Run(checkpoint) /\ UNCHANGED status
    BY <1>2, <2>1, <1>c, ResumeMoves DEF Typed
  <2>2. CASE /\ status' \in {status, "done"}
             /\ UNCHANGED <<loopVars, dagVars, task, ended, over, failed>>
    BY <1>2, <2>2, <1>b, ResumeMoves DEF loopVars
  <2> QED BY <1>2, <2>1, <2>2, ResumeMoves
<1>3. CASE Dispatch
  <2>1. PICK t \in ready :
           /\ task[t] = "none" /\ task'[t] = "start" /\ \A u \in Tasks \ {t} : task'[u] = task[u]
    BY <1>3, DispatchMoves
  <2>2. loop' = "dispatch" /\ loop = "dispatch" /\ UNCHANGED <<status, checkpoint, failed, over, applied>>
    BY <1>3 DEF Dispatch, rowVars
  <2> QED BY <1>a, <2>1, <2>2 DEF RowInv, Typed
<1>4. CASE Dispatched
  BY <1>4, <1>b DEF Dispatched, rowVars, RowInv
<1>5. CASE TaskDone
  <2>1. loop = "select" /\ loop' \in {"drain", "dispatch"}
    BY <1>5 DEF TaskDone
  <2> QED BY <1>5, <2>1, <1>b DEF TaskDone, rowVars, RowInv
<1>6. CASE ContextDone
  BY <1>6, <1>b DEF ContextDone, rowVars, RowInv
<1>7. CASE Drain
  BY <1>7, <1>b DEF Drain, RowInv
<1>8. CASE Wait
  <2>1. InFlight' = {} /\ status' # "none"
    BY <1>8 DEF Wait, InFlight, rowVars, RowInv
  <2> QED BY <1>8, <2>1, <1>a DEF Wait, RowInv
<1>9. CASE Timeout
  <2>1. UNCHANGED <<task, failed, checkpoint, applied, status, loop>> /\ over'
    BY <1>9 DEF Timeout, rowVars, loopVars
  <2> QED BY <2>1 DEF RowInv, InFlight, Executed
<1>10. CASE Crash
  <2>1. InFlight' = {} /\ status' # "none" /\ ~failed' /\ \A t \in Tasks : task'[t] = "none"
    BY <1>10, CrashEnds DEF Crash, RowInv, rowVars
  <2> QED BY <2>1 DEF RowInv
<1>11. ASSUME NEW t \in Tasks, BeginTask(t) PROVE RowInv'
  <2>1. PICK to \in {"fail", "execute"} : At(t, "start", to)
    BY <1>11 DEF BeginTask
  <2>2. /\ task[t] = "start" /\ task'[t] = to /\ InFlight' = InFlight /\ t \in InFlight
        /\ \A u \in Tasks \ {t} : task'[u] = task[u]
    BY <2>1, AtMoves, AtWork DEF PCs, InFlight
  <2>3. UNCHANGED <<checkpoint, loop, failed, over>> /\ status' \in {status, "failed"}
    BY <1>11 DEF BeginTask, loopVars
  <2> QED BY <2>2, <2>3, <1>a, <1>d DEF RowInv
<1>12. ASSUME NEW t \in Tasks, Enqueue(t) PROVE RowInv'
  <2>1. /\ task[t] = "enqueue" /\ task'[t] = "report" /\ InFlight' = InFlight /\ t \in InFlight
        /\ \A u \in Tasks \ {t} : task'[u] = task[u]
    BY <1>12, AtMoves, AtWork DEF Enqueue, PCs, InFlight
  <2>2. UNCHANGED <<status, loop, failed, over>>
    BY <1>12 DEF Enqueue, loopVars
  <2> QED BY <2>1, <2>2, <1>a, <1>d DEF RowInv
<1>13. ASSUME NEW t \in Tasks, FailFast(t) PROVE RowInv'
  <2>1. /\ task[t] = "fail" /\ task'[t] = "report" /\ InFlight' = InFlight /\ t \in InFlight
        /\ \A u \in Tasks \ {t} : task'[u] = task[u]
    BY <1>13, AtMoves, AtWork DEF FailFast, PCs, InFlight
  <2>2. UNCHANGED <<status, checkpoint, loop>> /\ failed' /\ over'
    BY <1>13 DEF FailFast, loopVars, rowVars
  <2> QED BY <2>1, <2>2, <1>a, <1>d DEF RowInv
<1>14. ASSUME NEW t \in Tasks, Report(t) PROVE RowInv'
  <2>1. /\ task[t] = "report" /\ task'[t] = "ended" /\ InFlight' \subseteq InFlight /\ t \in InFlight
        /\ \A u \in Tasks \ {t} : task'[u] = task[u]
    BY <1>14, AtMoves, ReportMoves DEF Report, PCs
  <2>2. UNCHANGED <<status, checkpoint, loop, failed, over>>
    BY <1>14 DEF Report, loopVars, rowVars
  <2> QED BY <2>1, <2>2, <1>a, <1>d DEF RowInv
<1>15. ASSUME NEW t \in Tasks, ExecuteTask(t) PROVE RowInv'
  <2>1. PICK to \in {"fail", "enqueue"} : At(t, "execute", to)
    BY <1>15 DEF ExecuteTask
  <2>2. /\ task[t] = "execute" /\ task'[t] = to /\ InFlight' = InFlight /\ t \in InFlight
        /\ \A u \in Tasks \ {t} : task'[u] = task[u]
    BY <2>1, AtMoves, AtWork DEF PCs, InFlight
  <2>3. UNCHANGED <<status, checkpoint, loop, failed, over>>
    BY <1>15 DEF ExecuteTask, loopVars, rowVars
  <2>4. to = "enqueue" => t \in Executed'
    <3>1. ASSUME to = "enqueue" PROVE applied' = [applied EXCEPT ![t] = @ + 1]
      BY <1>15, <2>2, <3>1 DEF ExecuteTask, At, Typed
    <3> QED BY <3>1 DEF Executed, Typed
  <2> QED BY <2>2, <2>3, <2>4, <1>a, <1>d DEF RowInv
<1>16. CASE UNCHANGED vars
  BY <1>16, <1>b DEF vars, rowVars, loopVars, RowInv
<1> QED BY <1>1, <1>2, <1>3, <1>4, <1>5, <1>6, <1>7, <1>8, <1>9, <1>10, <1>11, <1>12,
           <1>13, <1>14, <1>15, <1>16 DEF Next, Loop, Step

Core == Typed /\ LoopInv /\ OnceInv /\ RowInv

(* A run that began from a checkpoint with holes stays marked.             *)
LEMMA HolesStay ==
    ASSUME [Next]_vars, ~holes'
    PROVE  /\ ~holes
           /\ ResumeWorkflow => \A t \in checkpoint : Deps[t] \subseteq checkpoint
<1>1. CASE ResumeWorkflow
  BY <1>1 DEF ResumeWorkflow
<1>2. CASE ~ResumeWorkflow
  BY <1>2 DEF Next, Loop, Step, StartRun, Dispatch, Dispatched, TaskDone, ContextDone, Drain,
     Wait, Timeout, Crash, BeginTask, Enqueue, FailFast, Report, ExecuteTask, vars, rowVars
<1> QED BY <1>1, <1>2

(* A run that begins from closed, executed tasks keeps them, and every     *)
(* in-degree counts what it waits for.                                     *)
LEMMA RunKeeps ==
    ASSUME Typed, NEW done \in SUBSET Tasks, Run(done), UNCHANGED <<checkpoint, applied>>,
           checkpoint \subseteq done, done \subseteq Executed,
           \A t \in done : Deps[t] \subseteq done
    PROVE  KeptInv' /\ DegreeInv' /\ CountInv'
<1>1. Executed' = Executed /\ Cardinality({}) = 0
  BY FS_EmptySet DEF Executed
<1>2. /\ Base' = done /\ Told' = done /\ Ended' = {}
      /\ \A t \in Tasks : task'[t] = "none"
  BY RunBegins
<1>3. /\ results' = done /\ ready' = ReadyAfter(done) /\ loop' = "dispatch" /\ ended' = 0
      /\ inDegree' = [t \in Tasks |-> Cardinality(Deps[t] \ done)]
      /\ remaining' = Cardinality(Tasks \ done)
  BY DEF Run
<1>4. KeptInv'
  <2>1. ASSUME NEW t \in done PROVE Deps[t] \subseteq done /\ inDegree'[t] = 0
    <3>1. Deps[t] \ done = {} /\ t \in Tasks
      OBVIOUS
    <3> QED BY <3>1, <1>1, <1>3
  <2>2. \A t \in ready' : t \notin done
    BY <1>3 DEF ReadyAfter
  <2> QED BY <1>1, <1>2, <1>3, <2>1, <2>2 DEF KeptInv
<1>5. DegreeInv'
  <2>1. \A t \in Tasks : inDegree'[t] = Cardinality(Deps[t] \ Told')
    BY <1>2, <1>3
  <2>2. \A t \in ready' : Deps[t] \subseteq Executed'
    BY <1>1, <1>3 DEF ReadyAfter
  <2> QED BY <1>2, <2>1, <2>2 DEF DegreeInv
<1>6. CountInv'
  <2>1. Cardinality(Tasks \ done) \in Nat
    BY TaskSets
  <2> QED BY <1>1, <1>2, <1>3, <2>1 DEF CountInv
<1> QED BY <1>4, <1>5, <1>6

(* The other steps keep the base, and only a task that is told of its      *)
(* dependents or fails joins Told.                                         *)
LEMMA BaseStays ==
    ASSUME Typed, OnceInv, KeptInv, [Next]_vars, ~StartRun, ~ResumeWorkflow, ~Crash
    PROVE  /\ Base' = Base
           /\ (\A t \in Tasks : ~Enqueue(t) /\ ~FailFast(t)) => Told' = Told
<1>a. ASSUME UNCHANGED <<task, results>> PROVE Base' = Base /\ Told' = Told
  BY <1>a DEF Base, Told
<1>b. ASSUME NEW t \in Tasks, NEW from \in PCs \ {"none"}, NEW to \in PCs \ {"none"}, At(t, from, to),
             results' \in {results, results \cup {t}}
      PROVE  /\ Base' = Base
             /\ (from \in {"report", "ended"} <=> to \in {"report", "ended"}) => Told' = Told
  <2>1. /\ task[t] = from /\ task'[t] = to
        /\ \A u \in Tasks \ {t} : task'[u] = task[u]
    BY <1>b, AtMoves
  <2>2. Base' = Base
    BY <1>b, <2>1 DEF Base
  <2> QED BY <2>1, <2>2 DEF Told
<1>1. CASE Dispatch
  <2>1. PICK t \in ready :
           /\ task[t] = "none" /\ task'[t] = "start" /\ \A u \in Tasks \ {t} : task'[u] = task[u]
    BY <1>1, DispatchMoves
  <2>2. t \in Tasks /\ t \notin results /\ UNCHANGED results
    BY <1>1 DEF Dispatch, KeptInv, Typed
  <2>3. Base' = Base
    BY <2>1, <2>2 DEF Base
  <2> QED BY <2>1, <2>3 DEF Told
<1>2. CASE Loop /\ ~Dispatch
  BY <1>2, <1>a DEF Loop, Dispatched, TaskDone, ContextDone, Drain, Wait, dagVars
<1>3. CASE Timeout
  BY <1>3, <1>a DEF Timeout, dagVars
<1>4. ASSUME NEW t \in Tasks, BeginTask(t)
      PROVE  Base' = Base /\ Told' = Told
  <2>1. UNCHANGED results /\ \E to \in {"fail", "execute"} : At(t, "start", to)
    BY <1>4 DEF BeginTask, dagVars
  <2> QED BY <2>1, <1>b DEF PCs
<1>5. ASSUME NEW t \in Tasks, Enqueue(t) \/ FailFast(t)
      PROVE  Base' = Base
  <2>1. UNCHANGED results /\ \E from \in {"fail", "enqueue"} : At(t, from, "report")
    BY <1>5 DEF Enqueue, FailFast, dagVars
  <2> QED BY <2>1, <1>b DEF PCs
<1>6. ASSUME NEW t \in Tasks, Report(t)
      PROVE  Base' = Base /\ Told' = Told
  <2>1. UNCHANGED results /\ At(t, "report", "ended")
    BY <1>6 DEF Report, dagVars
  <2> QED BY <2>1, <1>b DEF PCs
<1>7. ASSUME NEW t \in Tasks, ExecuteTask(t)
      PROVE  Base' = Base /\ Told' = Told
  <2>1. results' \in {results, results \cup {t}} /\ \E to \in {"fail", "enqueue"} : At(t, "execute", to)
    BY <1>7 DEF ExecuteTask
  <2> QED BY <2>1, <1>b DEF PCs
<1>8. CASE UNCHANGED vars
  BY <1>8, <1>a DEF vars, dagVars
<1> QED BY <1>1, <1>2, <1>3, <1>4, <1>5, <1>6, <1>7, <1>8 DEF Next, Step, Loop

(* Every step keeps what was kept closed, executed, and not to be executed *)
(* again.                                                                  *)
LEMMA KeptStep ==
    ASSUME Core, KeptInv, DegreeInv, [Next]_vars, ~StartRun, ~ResumeWorkflow
    PROVE  KeptInv'
<1> USE DEF Core
<1>a. Executed \subseteq Executed'
  BY ExecutedGrows
<1>b. ASSUME ~Crash PROVE Base' = Base
  BY <1>b, BaseStays
<1>c. ASSUME UNCHANGED <<dagVars, checkpoint, task>>, loop' # "idle" => loop # "idle"
      PROVE  KeptInv'
  <2>1. Base' = Base
    BY <1>c DEF Base, dagVars
  <2> QED BY <1>c, <1>a, <2>1 DEF KeptInv, dagVars
<1>1. CASE Dispatch
  <2>1. PICK t \in ready :
           /\ task[t] = "none" /\ task'[t] = "start" /\ ready' = ready \ {t}
           /\ \A u \in Tasks \ {t} : task'[u] = task[u]
    BY <1>1, DispatchMoves
  <2>2. t \in Tasks /\ UNCHANGED <<loop, inDegree, results, checkpoint>> /\ ~Crash
    BY <1>1 DEF Dispatch, rowVars, Typed, Crash
  <2> QED BY <2>1, <2>2, <1>a, <1>b DEF KeptInv
<1>2. CASE Loop /\ ~Dispatch
  BY <1>2, <1>c DEF Loop, Dispatched, TaskDone, ContextDone, Drain, Wait, rowVars
<1>3. CASE Timeout
  BY <1>3, <1>c DEF Timeout, rowVars, loopVars
<1>4. CASE Crash
  <2>1. /\ results' = {} /\ ready' = {} /\ UNCHANGED checkpoint /\ loop' = "idle"
        /\ \A t \in Tasks : task'[t] = "none"
    BY <1>4 DEF Crash, rowVars
  <2> QED BY <2>1, <1>a DEF KeptInv
<1>5. ASSUME NEW t \in Tasks, BeginTask(t) PROVE KeptInv'
  <2>1. PICK to \in {"fail", "execute"} : At(t, "start", to)
    BY <1>5 DEF BeginTask
  <2>2. /\ task[t] = "start" /\ task'[t] = to /\ t \in InFlight
        /\ \A u \in Tasks \ {t} : task'[u] = task[u]
    BY <2>1, AtMoves DEF PCs, InFlight
  <2>3. UNCHANGED <<dagVars, checkpoint, loop>> /\ (to = "execute" => ~over)
    BY <1>5, <2>2, AtMoves DEF BeginTask, loopVars, PCs
  <2>4. loop # "idle"
    BY <2>2 DEF RowInv
  <2>5. to = "execute" => Deps[t] \subseteq Executed
    BY <2>2, <2>3, <2>4 DEF DegreeInv
  <2>6. ~Crash
    BY <2>3, <2>4 DEF Crash
  <2> QED BY <2>2, <2>3, <2>4, <2>5, <2>6, <1>a, <1>b DEF KeptInv, dagVars
<1>6. ASSUME NEW t \in Tasks, Enqueue(t) PROVE KeptInv'
  <2>1. /\ task[t] = "enqueue" /\ task'[t] = "report" /\ t \in InFlight
        /\ \A u \in Tasks \ {t} : task'[u] = task[u]
    BY <1>6, AtMoves DEF Enqueue, PCs, InFlight
  <2>2. /\ UNCHANGED <<results, loop>> /\ checkpoint' \in {results, checkpoint}
        /\ inDegree' = [u \in Tasks |-> IF u \in Dependents(t) THEN inDegree[u] - 1 ELSE inDegree[u]]
        /\ ready' = ready \cup Released(t)
    BY <1>6 DEF Enqueue, loopVars
  <2>3. loop # "idle" /\ ~Crash
    BY <2>1, <2>2 DEF RowInv, Crash
  <2>4. Base' = Base
    BY <2>3, <1>b
  <2>5. ASSUME NEW u \in Released(t) PROVE u \notin results
    <3>1. u \in Tasks /\ inDegree[u] = 1
      BY <2>5 DEF Released, Dependents
    <3>2. task[u] = "none"
      BY <3>1 DEF OnceInv
    <3> QED BY <3>1, <3>2, <2>3 DEF KeptInv, Base
  <2>6. ASSUME NEW u \in Base PROVE inDegree'[u] = 0
    <3>1. u \in Tasks /\ t \notin Deps[u] /\ inDegree[u] = 0
      BY <2>6, <2>1, <2>3 DEF KeptInv, Base
    <3> QED BY <3>1, <2>2 DEF Dependents
  <2> QED BY <2>1, <2>2, <2>3, <2>4, <2>5, <2>6, <1>a DEF KeptInv
<1>7. ASSUME NEW t \in Tasks, FailFast(t) \/ Report(t) PROVE KeptInv'
  <2>1. PICK from \in {"fail", "report"}, to \in {"report", "ended"} : At(t, from, to)
    BY <1>7 DEF FailFast, Report
  <2>2. /\ task[t] = from /\ task'[t] = to /\ t \in InFlight
        /\ \A u \in Tasks \ {t} : task'[u] = task[u]
    BY <2>1, AtMoves DEF PCs, InFlight
  <2>3. UNCHANGED <<dagVars, checkpoint, loop>>
    BY <1>7 DEF FailFast, Report, rowVars, loopVars
  <2>4. loop # "idle" /\ ~Crash
    BY <2>2, <2>3 DEF RowInv, Crash
  <2> QED BY <2>2, <2>3, <2>4, <1>a, <1>b DEF KeptInv, dagVars
<1>8. ASSUME NEW t \in Tasks, ExecuteTask(t) PROVE KeptInv'
  <2>1. PICK to \in {"fail", "enqueue"} : At(t, "execute", to)
    BY <1>8 DEF ExecuteTask
  <2>2. /\ task[t] = "execute" /\ task'[t] = to /\ t \in InFlight /\ t \notin ready
        /\ \A u \in Tasks \ {t} : task'[u] = task[u]
    BY <2>1, AtMoves DEF PCs, InFlight, OnceInv
  <2>3. UNCHANGED <<checkpoint, loop, ready, inDegree>>
    BY <1>8 DEF ExecuteTask, rowVars, loopVars
  <2>4. loop # "idle" /\ ~Crash
    BY <2>2, <2>3 DEF RowInv, Crash
  <2>5. \/ UNCHANGED results
        \/ results' = results \cup {t} /\ t \in Executed'
    <3>1. ASSUME applied' = [applied EXCEPT ![t] = @ + 1] PROVE t \in Executed'
      BY <3>1 DEF Executed, Typed
    <3> QED BY <1>8, <3>1 DEF ExecuteTask
  <2>6. Deps[t] \subseteq Executed
    BY <2>2 DEF KeptInv
  <2> QED BY <2>2, <2>3, <2>4, <2>5, <2>6, <1>a, <1>b DEF KeptInv
<1>9. CASE UNCHANGED vars
  <2>1. KeptInv' <=> KeptInv
    BY <1>9 DEF vars, rowVars, loopVars, dagVars, KeptInv, Base, Executed
  <2> QED BY <2>1
<1> QED BY <1>1, <1>2, <1>3, <1>4, <1>5, <1>6, <1>7, <1>8, <1>9 DEF Next, Step, Loop

(* A task whose dependents are told was executed, while the context lasts. *)
LEMMA ToldWasExecuted ==
    ASSUME Core, KeptInv, ~over
    PROVE  Told \subseteq Executed
BY DEF Core, RowInv, KeptInv, Told, Base

(* A task that a finished one releases depends on told tasks and on it.    *)
LEMMA ReleasedIsReady ==
    ASSUME Core, DegreeInv, NEW t \in Tasks, Enqueue(t), ~over, NEW u \in Released(t)
    PROVE  Deps[u] \subseteq Told \cup {t}
<1> USE DEF Core
<1>1. task[t] = "enqueue" /\ t \in InFlight
  BY AtMoves DEF Enqueue, PCs, InFlight
<1>2. t \notin Told /\ \A v \in Tasks : inDegree[v] = Cardinality(Deps[v] \ Told)
  BY <1>1 DEF RowInv, DegreeInv, Told, Base
<1>3. u \in Tasks /\ t \in Deps[u] /\ inDegree[u] = 1
  BY DEF Released, Dependents
<1>4. /\ Deps[u] \ Told \in SUBSET Tasks /\ t \in Deps[u] \ Told
      /\ (Deps[u] \ Told) \ {t} \in SUBSET Tasks
  BY <1>2, <1>3, DagAssumption
<1>5. Cardinality((Deps[u] \ Told) \ {t}) = 0
  <2>1. Cardinality(Deps[u] \ Told) = 1
    BY <1>2, <1>3
  <2>2. Cardinality((Deps[u] \ Told) \ {t}) = Cardinality(Deps[u] \ Told) - 1
    BY <1>4, OneLess
  <2> QED BY <2>1, <2>2
<1>6. (Deps[u] \ Told) \ {t} = {}
  BY <1>4, <1>5, TaskSets
<1> QED BY <1>6

(* A finished task leaves its dependents one task less to wait for; one    *)
(* that waits for none depends on executed tasks.                          *)
LEMMA EnqueueDegrees ==
    ASSUME Core, KeptInv, DegreeInv, NEW t \in Tasks, Enqueue(t), [Next]_vars, ~over
    PROVE  DegreeInv'
<1> USE DEF Core
<1>1. /\ task[t] = "enqueue" /\ task'[t] = "report" /\ t \in InFlight
      /\ \A u \in Tasks \ {t} : task'[u] = task[u]
  BY AtMoves DEF Enqueue, PCs, InFlight
<1>2. /\ UNCHANGED <<results, loop>>
      /\ inDegree' = [u \in Tasks |-> IF u \in Dependents(t) THEN inDegree[u] - 1 ELSE inDegree[u]]
      /\ ready' = ready \cup Released(t)
  BY DEF Enqueue, loopVars
<1>3. loop # "idle" /\ t \in Executed /\ t \notin Told
  BY <1>1 DEF RowInv, Told, Base
<1>4. Told' = Told \cup {t}
  BY <1>1, <1>2, <1>3 DEF Told, Base
<1>5. \A u \in Tasks : inDegree[u] = Cardinality(Deps[u] \ Told)
  BY <1>3 DEF DegreeInv
<1>6. ASSUME NEW u \in Tasks PROVE inDegree'[u] = Cardinality(Deps[u] \ Told')
  <2>1. Deps[u] \ Told \in SUBSET Tasks
    BY DagAssumption
  <2>2. Deps[u] \ Told' = (Deps[u] \ Told) \ {t}
    BY <1>4
  <2>3. CASE t \in Deps[u]
    <3>1. Cardinality(Deps[u] \ Told') = Cardinality(Deps[u] \ Told) - 1
      BY <1>3, <2>1, <2>2, <2>3, OneLess
    <3>2. inDegree'[u] = inDegree[u] - 1
      BY <1>2, <2>3 DEF Dependents
    <3> QED BY <1>5, <3>1, <3>2
  <2>4. CASE t \notin Deps[u]
    <3>1. Deps[u] \ Told' = Deps[u] \ Told
      BY <2>2, <2>4
    <3>2. inDegree'[u] = inDegree[u]
      BY <1>2, <2>4 DEF Dependents
    <3> QED BY <1>5, <3>1, <3>2
  <2> QED BY <2>3, <2>4
<1>7. Executed \subseteq Executed'
  BY ExecutedGrows
<1>8. \A u \in Released(t) : Deps[u] \subseteq Executed
  BY <1>3, ReleasedIsReady, ToldWasExecuted
<1>9. \A u \in Tasks : u \in ready \/ task[u] = "start" => Deps[u] \subseteq Executed
  BY <1>3 DEF DegreeInv
<1>10. \A u \in Tasks : u \in ready' \/ task'[u] = "start" => Deps[u] \subseteq Executed'
  BY <1>1, <1>2, <1>7, <1>8, <1>9
<1> QED BY <1>6, <1>10 DEF DegreeInv

(* Every step keeps the in-degrees right while the context lasts.          *)
LEMMA DegreeStep ==
    ASSUME Core, KeptInv, DegreeInv, [Next]_vars, ~StartRun, ~ResumeWorkflow
    PROVE  DegreeInv'
<1> USE DEF Core
<1>a. Executed \subseteq Executed'
  BY ExecutedGrows
<1>b. ASSUME ~over' => ~over, loop' # "idle" => loop # "idle", UNCHANGED inDegree, Told' = Told,
             \A t \in Tasks : t \in ready' \/ task'[t] = "start" => t \in ready \/ task[t] = "start"
      PROVE  DegreeInv'
  BY <1>a, <1>b DEF DegreeInv
<1>1. CASE Dispatch
  <2>1. PICK t \in ready :
           /\ task[t] = "none" /\ task'[t] = "start" /\ ready' = ready \ {t}
           /\ \A u \in Tasks \ {t} : task'[u] = task[u]
    BY <1>1, DispatchMoves
  <2>2. UNCHANGED <<loop, inDegree, results, over>> /\ t \notin results /\ t \in Tasks
    BY <1>1 DEF Dispatch, Typed, KeptInv
  <2>3. Told' = Told
    BY <2>1, <2>2 DEF Told, Base
  <2> QED BY <2>1, <2>2, <2>3, <1>b
<1>2. CASE Loop /\ ~Dispatch
  <2>1. UNCHANGED <<dagVars, task, over>> /\ (loop' # "idle" => loop # "idle")
    BY <1>2 DEF Loop, Dispatched, TaskDone, ContextDone, Drain, Wait
  <2> QED BY <2>1, <1>b DEF dagVars, Told, Base
<1>3. CASE Timeout
  BY <1>3 DEF Timeout, DegreeInv
<1>4. CASE Crash
  BY <1>4 DEF Crash, DegreeInv
<1>5. ASSUME NEW t \in Tasks, FailFast(t) PROVE DegreeInv'
  BY <1>5 DEF FailFast, DegreeInv
<1>6. ASSUME NEW t \in Tasks, Enqueue(t) PROVE DegreeInv'
  <2>1. UNCHANGED over
    BY <1>6 DEF Enqueue
  <2>2. CASE over
    BY <2>1, <2>2 DEF DegreeInv
  <2> QED BY <2>2, <1>6, EnqueueDegrees
<1>7. ASSUME NEW t \in Tasks, BeginTask(t) \/ Report(t) PROVE DegreeInv'
  <2>1. PICK from \in {"start", "report"}, to \in {"fail", "execute", "ended"} :
           At(t, from, to) /\ (from = "report" <=> to = "ended")
    BY <1>7 DEF BeginTask, Report
  <2>2. /\ task[t] = from /\ task'[t] = to /\ \A u \in Tasks \ {t} : task'[u] = task[u]
    BY <2>1, AtMoves DEF PCs
  <2>3. UNCHANGED <<dagVars, loop, over>>
    BY <1>7 DEF BeginTask, Report, loopVars
  <2>4. Told' = Told
    BY <2>1, <2>2, <2>3 DEF Told, Base, dagVars
  <2> QED BY <2>2, <2>3, <2>4, <1>b DEF dagVars
<1>8. ASSUME NEW t \in Tasks, ExecuteTask(t) PROVE DegreeInv'
  <2>1. PICK to \in {"fail", "enqueue"} : At(t, "execute", to)
    BY <1>8 DEF ExecuteTask
  <2>2. /\ task[t] = "execute" /\ task'[t] = to /\ \A u \in Tasks \ {t} : task'[u] = task[u]
    BY <2>1, AtMoves DEF PCs
  <2>3. UNCHANGED <<ready, inDegree, loop, over>> /\ results' \in {results, results \cup {t}}
    BY <1>8 DEF ExecuteTask, loopVars
  <2>4. Told' = Told
    BY <2>2, <2>3 DEF Told, Base
  <2> QED BY <2>2, <2>3, <2>4, <1>b
<1>9. CASE UNCHANGED vars
  BY <1>9, <1>b DEF vars, loopVars, dagVars, Told, Base
<1> QED BY <1>1, <1>2, <1>3, <1>4, <1>5, <1>6, <1>7, <1>8, <1>9 DEF Next, Step, Loop

(* Every step keeps the count of the messages to come.                     *)
LEMMA CountStep ==
    ASSUME Core, KeptInv, CountInv, [Next]_vars, ~StartRun, ~ResumeWorkflow
    PROVE  CountInv'
<1> USE DEF Core
<1>a. /\ Cardinality(Ended) \in Nat /\ Cardinality(Tasks \ Base) \in Nat
  BY TaskSets DEF Ended
<1>b. ASSUME loop' # "idle" => loop # "idle", Base' = Base, Ended' = Ended, UNCHANGED <<remaining, ended>>
      PROVE  CountInv'
  BY <1>b DEF CountInv
<1>1. CASE Crash
  BY <1>1 DEF Crash, CountInv
<1>2. ASSUME ~Crash PROVE Base' = Base
  BY <1>2, BaseStays
<1>3. CASE Dispatch
  <2>1. Ended' = Ended /\ UNCHANGED <<loop, remaining, ended>> /\ loop = "dispatch"
    BY <1>3, DispatchMoves DEF Dispatch
  <2>2. ~Crash
    BY <2>1 DEF Crash
  <2> QED BY <2>1, <2>2, <1>2, <1>b
<1>4. CASE TaskDone
  <2>1. /\ remaining' = remaining - 1 /\ ended' = ended - 1 /\ loop = "select" /\ loop' # "idle"
        /\ Ended' = Ended
    BY <1>4 DEF TaskDone, Ended
  <2>2. Base' = Base
    BY <2>1, <1>2 DEF Crash
  <2>3. remaining + Cardinality(Ended) = Cardinality(Tasks \ Base) + ended
    BY <2>1 DEF CountInv
  <2>4. remaining' + Cardinality(Ended') = Cardinality(Tasks \ Base') + ended'
    BY <1>a, <2>1, <2>2, <2>3 DEF Typed
  <2> QED BY <2>4 DEF CountInv
<1>5. CASE Dispatched \/ ContextDone \/ Drain \/ Wait \/ Timeout \/ UNCHANGED vars
  <2>1. UNCHANGED <<results, task, remaining, ended>> /\ (loop' # "idle" => loop # "idle")
    BY <1>5 DEF Dispatched, ContextDone, Drain, Wait, Timeout, vars, loopVars, dagVars
  <2> QED BY <2>1, <1>b DEF Base, Ended
<1>6. ASSUME NEW t \in Tasks, BeginTask(t) \/ Enqueue(t) \/ FailFast(t) \/ ExecuteTask(t) PROVE CountInv'
  <2>1. PICK from \in PCs \ {"none", "ended"}, to \in PCs \ {"none", "ended"} : At(t, from, to)
    BY <1>6 DEF BeginTask, Enqueue, FailFast, ExecuteTask, PCs
  <2>2. Ended' = Ended /\ t \in InFlight
    BY <2>1, AtWork, AtMoves DEF InFlight
  <2>3. UNCHANGED <<loop, remaining, ended>> /\ loop # "idle"
    BY <1>6, <2>2 DEF BeginTask, Enqueue, FailFast, ExecuteTask, loopVars, RowInv
  <2>4. ~Crash
    BY <2>3 DEF Crash
  <2> QED BY <2>2, <2>3, <2>4, <1>2, <1>b
<1>7. ASSUME NEW t \in Tasks, Report(t) PROVE CountInv'
  <2>1. Ended' = Ended \cup {t} /\ t \notin Ended /\ t \in InFlight
    BY <1>7, ReportMoves
  <2>2. Cardinality(Ended') = Cardinality(Ended) + 1
    BY <2>1, OneMore DEF Ended
  <2>3. UNCHANGED <<loop, remaining>> /\ ended' = ended + 1 /\ loop # "idle"
    BY <1>7, <2>1 DEF Report, loopVars, RowInv
  <2>4. Base' = Base
    BY <2>3, <1>2 DEF Crash
  <2>5. remaining + Cardinality(Ended) = Cardinality(Tasks \ Base) + ended
    BY <2>3 DEF CountInv
  <2>6. remaining' + Cardinality(Ended') = Cardinality(Tasks \ Base') + ended'
    BY <1>a, <2>2, <2>3, <2>4, <2>5 DEF Typed
  <2> QED BY <2>6 DEF CountInv
<1> QED BY <1>1, <1>3, <1>4, <1>5, <1>6, <1>7 DEF Next, Step, Loop

(* Nothing brings the time back: a run that is whole was whole.            *)
LEMMA WholeWas ==
    ASSUME Typed, [Next]_vars, Whole'
    PROVE  Whole /\ ~Timeout
<1>1. "timeouts" \in DOMAIN Limit
  BY DEF Limit
<1>2. ~holes
  BY HolesStay DEF Whole
<1>3. counters["timeouts"] = 0 /\ ~Spend("timeouts")
  <2>1. ASSUME NEW c \in DOMAIN Limit, Spend(c)
        PROVE  counters["timeouts"] = 0 /\ c # "timeouts"
    <3>1. counters["timeouts"] \in Nat /\ counters'["timeouts"] = 0
      BY <1>1 DEF Typed, Whole
    <3>2. CASE c = "timeouts"
      <4>1. counters'["timeouts"] = counters["timeouts"] + 1
        BY <2>1, <3>2, SpendTyped
      <4> QED BY <3>1, <4>1
    <3>3. CASE c # "timeouts"
      <4>1. counters'["timeouts"] = counters["timeouts"]
        BY <1>1, <2>1, <3>3, SpendTyped
      <4> QED BY <3>1, <3>3, <4>1
    <3> QED BY <3>2, <3>3
  <2>2. UNCHANGED counters \/ \E c \in DOMAIN Limit : Spend(c)
    BY SomeCounter
  <2>3. ASSUME UNCHANGED counters PROVE counters["timeouts"] = 0
    BY <2>3 DEF Whole
  <2> QED BY <1>1, <2>1, <2>2, <2>3
<1>4. ~Timeout
  BY <1>3 DEF Timeout
<1> QED BY <1>2, <1>3, <1>4 DEF Whole

(* When no message is to come, every task has ended or was in the base.    *)
LEMMA NothingLeft ==
    ASSUME Core, CountInv, loop # "idle", remaining = 0
    PROVE  InFlight = {} /\ \A t \in Tasks : t \in Ended \cup Base
<1> USE DEF Core
<1>1. Ended \subseteq Tasks \ Base /\ Tasks \ Base \in SUBSET Tasks
  BY DEF Ended, Base
<1>2. /\ IsFiniteSet(Tasks \ Base) /\ Cardinality(Tasks \ Base) \in Nat
      /\ Cardinality(Ended) \in Nat
  BY <1>1, TaskSets
<1>3. Cardinality(Ended) = Cardinality(Tasks \ Base) + ended
  BY <1>2 DEF CountInv, Typed
<1>4. Cardinality(Ended) <= Cardinality(Tasks \ Base)
  BY <1>1, <1>2, FS_Subset
<1>5. Cardinality(Ended) = Cardinality(Tasks \ Base)
  BY <1>2, <1>3, <1>4 DEF Typed
<1>6. Ended = Tasks \ Base
  BY <1>1, <1>2, <1>5, FS_Subset
<1> QED BY <1>6 DEF InFlight, Ended, Base

(* A run that ends without an error has executed every task.               *)
LEMMA DoneIsComplete ==
    ASSUME Core, KeptInv, CountInv, loop # "idle", remaining = 0, ~failed
    PROVE  Executed = Tasks
<1>1. \A t \in Tasks : t \in Ended \cup Base
  BY NothingLeft
<1>2. \A t \in Ended : t \in Executed
  BY DEF Core, RowInv, Ended
<1>3. \A t \in Base : t \in Executed
  BY DEF KeptInv, Base
<1> QED BY <1>1, <1>2, <1>3 DEF Executed

(* Every step keeps the outcome right while the run is whole.              *)
LEMMA OutcomeStep ==
    ASSUME Core, CountInv, OutcomeInv, [Next]_vars, Whole'
    PROVE  OutcomeInv'
<1> USE DEF Core
<1>0. ~Timeout
  BY WholeWas
<1>a. ASSUME UNCHANGED <<over, failed, status>>, InFlight' = InFlight,
             loop' \in {"drain", "wait"} /\ ~failed => remaining' = 0,
             loop \in {"idle", "wait"} => loop' \in {"idle", "wait"}
      PROVE  OutcomeInv'
  BY <1>a DEF OutcomeInv
<1>b. ASSUME NEW done \in SUBSET Tasks, Run(done), status' # "done" PROVE OutcomeInv'
  BY <1>b DEF Run, OutcomeInv
<1>c. ASSUME UNCHANGED task PROVE InFlight' = InFlight
  BY <1>c DEF InFlight
<1>1. CASE StartRun
  BY <1>1, <1>b DEF StartRun
<1>2. CASE ResumeWorkflow
  <2>1. CASE Run(checkpoint) /\ UNCHANGED status
    BY <1>2, <2>1, <1>b, ResumeMoves DEF Typed
  <2>2. CASE UNCHANGED <<loopVars, dagVars, task, ended, over, failed>>
    <3>1. InFlight' = {} /\ loop' = "idle"
      BY <1>2, <2>2, <1>c, ResumeMoves DEF loopVars, RowInv
    <3> QED BY <2>2, <3>1 DEF OutcomeInv
  <2> QED BY <1>2, <2>1, <2>2, ResumeMoves
<1>3. CASE Dispatch
  <2>1. loop = "dispatch" /\ UNCHANGED <<loop, status, over, failed>>
    BY <1>3 DEF Dispatch, rowVars
  <2> QED BY <2>1 DEF OutcomeInv
<1>4. CASE Dispatched
  BY <1>4, <1>a, <1>c DEF Dispatched, rowVars, OutcomeInv
<1>5. CASE TaskDone
  BY <1>5, <1>a, <1>c DEF TaskDone, rowVars
<1>6. CASE ContextDone
  BY <1>6, <1>a, <1>c DEF ContextDone, rowVars, OutcomeInv
<1>7. CASE Drain
  <2>1. /\ loop = "drain" /\ loop' = "wait" /\ UNCHANGED <<over, failed, remaining, task>>
        /\ status' = status \/ status' = (IF failed THEN "failed" ELSE "done")
    BY <1>7 DEF Drain
  <2>2. status' = "done" => InFlight' = {}
    <3>1. ASSUME status' = "done" PROVE ~failed
      BY <2>1, <3>1 DEF OutcomeInv
    <3> QED BY <2>1, <3>1, <1>c, NothingLeft DEF OutcomeInv
  <2> QED BY <2>1, <2>2 DEF OutcomeInv
<1>8. CASE Wait
  BY <1>8, <1>a, <1>c DEF Wait, rowVars
<1>9. CASE Crash
  <2>1. InFlight' = {} /\ loop' = "idle" /\ ~over' /\ ~failed'
    BY <1>9, CrashEnds DEF Crash
  <2> QED BY <2>1 DEF OutcomeInv
<1>10. ASSUME NEW t \in Tasks, Step(t) \/ ExecuteTask(t) PROVE OutcomeInv'
  <2>1. PICK from \in PCs \ {"none", "ended"}, to \in PCs : At(t, from, to)
    BY <1>10 DEF Step, BeginTask, Enqueue, FailFast, Report, ExecuteTask, PCs
  <2>2. t \in InFlight
    BY <2>1, AtMoves DEF InFlight
  <2>3. /\ UNCHANGED <<loop, remaining>> /\ status' \in {status, "failed"}
        /\ (UNCHANGED <<over, failed>> \/ (over' = TRUE /\ failed' = TRUE))
    <3>1. CASE BeginTask(t)
      BY <3>1 DEF BeginTask, loopVars
    <3>2. CASE Enqueue(t) \/ FailFast(t) \/ Report(t) \/ ExecuteTask(t)
      BY <3>2 DEF Enqueue, FailFast, Report, ExecuteTask, loopVars, rowVars
    <3> QED BY <1>10, <3>1, <3>2 DEF Step
  <2> QED BY <2>2, <2>3 DEF OutcomeInv
<1>11. CASE UNCHANGED vars
  BY <1>11, <1>a, <1>c DEF vars, rowVars, loopVars, OutcomeInv
<1> QED BY <1>0, <1>1, <1>2, <1>3, <1>4, <1>5, <1>6, <1>7, <1>8, <1>9, <1>10, <1>11
        DEF Next, Loop

-----------------------------------------------------------------------------
(* The invariant, and what follows from it.                                *)

(* The invariant holds initially.                                          *)
LEMMA InitDag == Init => DagInv
<1> SUFFICES ASSUME Init PROVE DagInv
    OBVIOUS
<1>1. Typed
  <2>1. counters \in [DOMAIN Limit -> Nat] /\ task \in [Tasks -> PCs]
    BY DEF Init, PCs
  <2>2. applied \in [Tasks -> Nat] /\ inDegree \in [Tasks -> Int]
    BY DEF Init
  <2> QED BY <2>1, <2>2 DEF Init, Typed
<1>2. InFlight = {} /\ Ended = {} /\ Executed = {}
  BY DEF Init, InFlight, Ended, Executed
<1>3. LoopInv
  <2>1. Cardinality({}) = 0 /\ Cardinality(Tasks) \in Nat
    BY FS_EmptySet, TaskSets
  <2> QED BY <1>2, <2>1, DagAssumption DEF Init, LoopInv
<1>4. OnceInv /\ RowInv
  BY <1>2 DEF Init, OnceInv, RowInv
<1>5. KeptInv /\ DegreeInv /\ CountInv /\ OutcomeInv
  BY DEF Init, KeptInv, DegreeInv, CountInv, OutcomeInv
<1> QED BY <1>1, <1>3, <1>4, <1>5 DEF DagInv

(* A start or a resume without holes begins from closed, executed tasks.   *)
LEMMA BeginKeeps ==
    ASSUME Core, KeptInv, DegreeInv, CountInv, [Next]_vars, ~holes', StartRun \/ ResumeWorkflow
    PROVE  KeptInv' /\ DegreeInv' /\ CountInv'
<1> USE DEF Core
<1>1. CASE StartRun
  <2>1. Run({}) /\ checkpoint = {} /\ UNCHANGED <<checkpoint, applied>>
    BY <1>1 DEF StartRun, RowInv
  <2> QED BY <2>1, RunKeeps
<1>2. CASE ResumeWorkflow
  <2>1. /\ checkpoint \subseteq Tasks /\ checkpoint \subseteq Executed
        /\ \A t \in checkpoint : Deps[t] \subseteq checkpoint
    BY <1>2, HolesStay DEF Typed, KeptInv
  <2>2. CASE Run(checkpoint)
    BY <1>2, <2>1, <2>2, RunKeeps, ResumeMoves
  <2>3. CASE UNCHANGED <<loopVars, dagVars, task, ended, over, failed>>
    <3>1. loop' = "idle" /\ UNCHANGED <<checkpoint, applied, results, ready, task>>
      BY <1>2, <2>3, ResumeMoves DEF loopVars, dagVars
    <3> QED BY <3>1 DEF KeptInv, DegreeInv, CountInv, Executed
  <2> QED BY <1>2, <2>2, <2>3, ResumeMoves
<1> QED BY <1>1, <1>2

(* Every step keeps the invariant.                                         *)
LEMMA NextDag == DagInv /\ [Next]_vars => DagInv'
<1> SUFFICES ASSUME DagInv, [Next]_vars PROVE DagInv'
    OBVIOUS
<1>1. Core
  BY DEF DagInv, Core
<1>2. Typed' /\ LoopInv' /\ OnceInv' /\ RowInv'
  BY <1>1, TypedStep, LoopStep, OnceStep, RowStep DEF Core
<1>3. ASSUME ~holes' PROVE KeptInv' /\ DegreeInv' /\ CountInv'
  <2>1. KeptInv /\ DegreeInv /\ CountInv
    BY <1>3, HolesStay DEF DagInv
  <2>2. CASE StartRun \/ ResumeWorkflow
    BY <1>1, <1>3, <2>1, <2>2, BeginKeeps
  <2>3. CASE ~StartRun /\ ~ResumeWorkflow
    BY <1>1, <2>1, <2>3, KeptStep, DegreeStep, CountStep
  <2> QED BY <2>2, <2>3
<1>4. ASSUME Whole' PROVE OutcomeInv'
  <2>1. Whole
    BY <1>1, <1>4, WholeWas DEF Core
  <2>2. CountInv /\ OutcomeInv
    BY <2>1 DEF DagInv, Whole
  <2> QED BY <1>1, <1>4, <2>2, OutcomeStep
<1> QED BY <1>2, <1>3, <1>4 DEF DagInv

(* The parallel runner keeps DagInv.                                       *)
LEMMA DagInvariant == Spec => []DagInv
BY InitDag, NextDag, PTL DEF Spec

(* The checkpoint of a parallel run lists executed tasks that depend on    *)
(* executed tasks, for every graph (enqueueDependentsAndSaveCheckpoint).   *)
THEOREM DagCheckpointsAreHonest == Spec => []CheckpointIsHonest
<1>1. DagInv => CheckpointIsHonest
  BY DEF DagInv, KeptInv, CheckpointIsHonest
<1> QED BY <1>1, DagInvariant, PTL

(* A task that the checkpoint lists is not executed again by a resume      *)
(* (premarkCompletedTasksForResume, recomputeReadyList).                   *)
THEOREM RecordedTasksRunOnce == Spec => RecordedOnce
<1>1. DagInv /\ [Next]_vars => [~holes => \A t \in checkpoint : applied'[t] = applied[t]]_vars
  <2> SUFFICES ASSUME DagInv, [Next]_vars, ~holes, NEW t \in checkpoint
               PROVE  applied'[t] = applied[t]
      OBVIOUS
  <2>1. Typed /\ RowInv /\ KeptInv
    BY DEF DagInv
  <2>2. CASE \E u \in Tasks : ExecuteTask(u)
    <3>1. PICK u \in Tasks : ExecuteTask(u)
      BY <2>2
    <3>2. /\ task[u] = "execute"
          /\ applied' = [applied EXCEPT ![u] = @ + 1] \/ UNCHANGED applied
      BY <3>1 DEF ExecuteTask, At
    <3>3. u # t
      BY <2>1, <3>2 DEF RowInv, KeptInv, InFlight
    <3> QED BY <2>1, <3>2, <3>3 DEF Typed
  <2>3. CASE \A u \in Tasks : ~ExecuteTask(u)
    BY <2>1, <2>3, ExecutedGrows
  <2> QED BY <2>2, <2>3
<1> QED BY <1>1, DagInvariant, PTL DEF Spec, RecordedOnce

-----------------------------------------------------------------------------
(* The parallel runner implements DagRun.                                  *)

(* A step that leaves what DagRun sees is a stutter.                       *)
LEMMA SameView ==
    ASSUME UNCHANGED <<applied, status, holes>>, counters'["timeouts"] = counters["timeouts"]
    PROVE  UNCHANGED Abstract!vars
BY DEF Abstract!vars, Executed

(* Only the end of the context spends a timeout.                           *)
LEMMA TimeoutsStay ==
    ASSUME Typed, [Next]_vars, ~Timeout
    PROVE  counters'["timeouts"] = counters["timeouts"]
<1>1. \/ UNCHANGED counters
      \/ \E c \in (DOMAIN Limit) \ {"timeouts"} : Spend(c)
  <2>1. DOMAIN Limit = {"errors", "silents", "faults", "timeouts", "crashes", "resumes"}
    BY DEF Limit
  <2>2. CASE \E t \in Tasks : Step(t) \/ ExecuteTask(t)
    BY <2>1, <2>2 DEF Step, BeginTask, Enqueue, FailFast, Report, ExecuteTask
  <2>3. CASE StartRun \/ ResumeWorkflow \/ Loop \/ Crash
    BY <2>1, <2>3 DEF StartRun, ResumeWorkflow, Loop, Dispatch, Dispatched, TaskDone,
                      ContextDone, Drain, Wait, Crash
  <2> QED BY <2>2, <2>3 DEF Next, vars
<1>2. "timeouts" \in DOMAIN Limit
  BY DEF Limit
<1> QED BY <1>1, <1>2, SpendTyped

(* A step that writes an outcome is allowed by DagRun: done only with all  *)
(* tasks executed, failed only instead of running, as long as the run is   *)
(* whole.                                                                  *)
LEMMA OutcomeRuns ==
    ASSUME UNCHANGED <<applied, holes>>, counters'["timeouts"] = counters["timeouts"],
           status # "none", status' \in {status, "done", "failed"},
           Typed,
           status' = "done" /\ status # "done" /\ Whole => Executed = Tasks,
           status' = "failed" /\ Whole => status # "done"
    PROVE  [Abstract!Next]_(Abstract!vars)
<1>0. UNCHANGED Executed /\ (counters.timeouts = 0 /\ ~holes)' = (counters.timeouts = 0 /\ ~holes)
  BY DEF Executed
<1>1. CASE status' = status
  BY <1>1, SameView
<1>2. CASE status' = "done" /\ status # "done"
  <2>1. status \in {"running", "failed"}
    BY <1>2 DEF Typed
  <2>2. Abstract!Succeed
    BY <1>0, <1>2, <2>1 DEF Abstract!Succeed, Whole
  <2> QED BY <2>2 DEF Abstract!Next
<1>3. CASE status' = "failed" /\ status # "failed"
  <2>1. Whole => status = "running"
    BY <1>3 DEF Typed
  <2>2. Abstract!Fail
    BY <1>0, <1>3, <2>1 DEF Abstract!Fail, Whole
  <2> QED BY <2>2 DEF Abstract!Next
<1> QED BY <1>1, <1>2, <1>3

(* Every step of the runner is a step of DagRun or a stutter.              *)
LEMMA StepRuns == DagInv /\ [Next]_vars => [Abstract!Next]_(Abstract!vars)
<1> SUFFICES ASSUME DagInv, [Next]_vars PROVE [Abstract!Next]_(Abstract!vars)
    OBVIOUS
<1>a. Core /\ Typed /\ RowInv
  BY DEF DagInv, Core
<1>b. ~Timeout => counters'["timeouts"] = counters["timeouts"]
  BY <1>a, TimeoutsStay
<1>c. Whole => KeptInv /\ CountInv /\ OutcomeInv
  BY DEF DagInv, Whole
<1>1. CASE StartRun
  <2>1. ~Timeout
    BY <1>1 DEF StartRun, Timeout, rowVars
  <2>2. Abstract!Begin
    BY <1>1, <1>b, <2>1 DEF StartRun, Abstract!Begin, Executed
  <2> QED BY <2>2 DEF Abstract!Next
<1>2. CASE ResumeWorkflow
  <2>0. loop = "idle" /\ status \in {"running", "failed"} /\ UNCHANGED applied /\ ~Timeout
    BY <1>2, <1>a, ResumeMoves DEF Timeout
  <2>1. CASE ~holes /\ holes'
    <3>1. status' = status
      <4>1. ASSUME checkpoint = Tasks PROVE FALSE
        BY <1>2, <2>1, <4>1, DagAssumption DEF ResumeWorkflow
      <4> QED BY <1>2, <1>a, <4>1, ResumeMoves
    <3>2. Abstract!Break
      BY <2>0, <2>1, <3>1 DEF Abstract!Break, Executed
    <3> QED BY <3>2 DEF Abstract!Next
  <2>2. CASE holes' = holes
    <3>1. status' \in {status, "done"} /\ (status' # status => checkpoint = Tasks)
      BY <1>2, <1>a, ResumeMoves
    <3>2. ASSUME Whole, checkpoint = Tasks PROVE Executed = Tasks
      BY <1>c, <3>2 DEF KeptInv, Executed
    <3> QED BY <1>a, <1>b, <2>0, <2>2, <3>1, <3>2, OutcomeRuns
  <2>3. holes' = holes \/ (~holes /\ holes')
    BY <1>2, <1>a DEF ResumeWorkflow, Typed
  <2> QED BY <2>1, <2>2, <2>3
<1>3. CASE Drain
  <2>1. /\ loop = "drain" /\ status' \in {status, IF failed THEN "failed" ELSE "done"}
        /\ UNCHANGED <<applied, holes>>
    BY <1>3 DEF Drain
  <2>2. status # "none" /\ ~Timeout
    BY <1>3, <2>1, <1>a DEF RowInv, Drain, Timeout, Typed
  <2>3. ASSUME Whole, status' = "done", status # "done" PROVE Executed = Tasks
    <3>1. ~failed
      BY <2>1, <2>3
    <3> QED BY <1>a, <1>c, <2>1, <2>3, <3>1, DoneIsComplete DEF OutcomeInv
  <2>4. Whole => status # "done"
    BY <1>c, <2>1 DEF OutcomeInv
  <2> QED BY <1>a, <1>b, <2>1, <2>2, <2>3, <2>4, OutcomeRuns
<1>4. CASE Loop /\ ~Drain
  <2>1. UNCHANGED <<applied, status, holes>> /\ UNCHANGED counters
    BY <1>4 DEF Loop, Dispatch, Dispatched, TaskDone, ContextDone, Wait, rowVars
  <2> QED BY <2>1, SameView
<1>5. CASE Timeout
  <2>1. UNCHANGED <<applied, status, holes>> /\ ~Whole'
    BY <1>5, <1>a, WholeWas DEF Timeout, rowVars
  <2>2. Abstract!Break
    BY <2>1 DEF Abstract!Break, Executed, Whole
  <2> QED BY <2>2 DEF Abstract!Next
<1>6. CASE Crash
  <2>1. UNCHANGED <<applied, status, holes>> /\ ~Timeout
    BY <1>6 DEF Crash, rowVars, Timeout
  <2> QED BY <1>b, <2>1, SameView
<1>7. ASSUME NEW t \in Tasks, BeginTask(t) PROVE [Abstract!Next]_(Abstract!vars)
  <2>1. /\ UNCHANGED <<applied, holes>> /\ status' \in {status, "failed"} /\ task[t] = "start"
        /\ UNCHANGED over
    BY <1>7 DEF BeginTask, At
  <2>2. loop # "idle" /\ status # "none" /\ t \in InFlight
    BY <1>a, <2>1 DEF RowInv, InFlight
  <2>3. Whole => status # "done"
    BY <1>c, <2>2 DEF OutcomeInv
  <2>4. ~Timeout
    <3>1. ASSUME Timeout PROVE FALSE
      BY <2>1, <3>1, <1>a DEF Timeout
    <3> QED BY <3>1
  <2> QED BY <1>a, <1>b, <2>1, <2>2, <2>3, <2>4, OutcomeRuns
<1>8. ASSUME NEW t \in Tasks, Enqueue(t) \/ FailFast(t) \/ Report(t) PROVE [Abstract!Next]_(Abstract!vars)
  <2>1. UNCHANGED <<applied, status, holes>>
    BY <1>8 DEF Enqueue, FailFast, Report, rowVars
  <2>2. ~Timeout
    <3>1. PICK from \in PCs, to \in PCs : At(t, from, to) /\ from # to
      BY <1>8 DEF Enqueue, FailFast, Report, PCs
    <3>2. task'[t] # task[t]
      BY <3>1, <1>a, AtMoves
    <3> QED BY <3>2 DEF Timeout
  <2> QED BY <1>b, <2>1, <2>2, SameView
<1>9. ASSUME NEW t \in Tasks, ExecuteTask(t) PROVE [Abstract!Next]_(Abstract!vars)
  <2>1. /\ UNCHANGED <<status, holes, over>> /\ task[t] = "execute"
        /\ applied' = [applied EXCEPT ![t] = @ + 1] \/ UNCHANGED applied
    BY <1>9 DEF ExecuteTask, rowVars, At
  <2>2. ~Timeout
    BY <1>a, <2>1 DEF Timeout
  <2>3. CASE UNCHANGED applied
    BY <1>b, <2>1, <2>2, <2>3, SameView
  <2>4. CASE applied' = [applied EXCEPT ![t] = @ + 1]
    <3>1. Executed' = Executed \cup {t}
      BY <1>a, <2>4 DEF Executed, Typed
    <3>2. CASE t \in Executed
      BY <1>b, <2>1, <2>2, <3>1, <3>2 DEF Abstract!vars
    <3>3. CASE t \notin Executed
      <4>1. Whole => Deps[t] \subseteq Executed
        BY <1>c, <2>1 DEF KeptInv
      <4>2. Abstract!Execute(t)
        BY <1>b, <2>1, <2>2, <3>1, <3>3, <4>1 DEF Abstract!Execute, Whole
      <4> QED BY <4>2 DEF Abstract!Next
    <3> QED BY <3>2, <3>3
  <2> QED BY <2>1, <2>3, <2>4
<1>10. CASE UNCHANGED vars
  BY <1>10, SameView DEF vars, rowVars
<1> QED BY <1>1, <1>2, <1>3, <1>4, <1>5, <1>6, <1>7, <1>8, <1>9, <1>10 DEF Next, Step

(* The runner implements DagRun: every task is executed after the tasks it *)
(* depends on, and a run that is done has executed them all, for every     *)
(* graph, width and number of faults, crashes and resumes (runParallel,    *)
(* runParallelResume, executeParallelTask).                                *)
THEOREM ImplementsDagRun == Spec => DagRunSpec
<1>1. Init => Abstract!Init
  BY DEF Init, Abstract!Init, Executed, Limit
<1>2. DagInv /\ [Next]_vars => [Abstract!Next]_(Abstract!vars)
  BY StepRuns
<1> QED BY <1>1, <1>2, DagInvariant, PTL DEF Spec, DagRunSpec, Abstract!Spec

-----------------------------------------------------------------------------
(* What spoils a run: a checkpoint has holes only when a task leaves no    *)
(* result, and only a resume reads it.                                     *)

\* When every task leaves a result, what is kept is closed, and all that a task
\* depends on has a result when it may run.
FullInv ==
    /\ ~holes
    /\ \A t \in checkpoint : Deps[t] \subseteq checkpoint
    /\ \A t \in results : Deps[t] \subseteq results
    /\ \A t \in Tasks : task[t] = "enqueue" => t \in results
    /\ \A t \in Tasks : task[t] \in {"report", "ended"} => t \in results \/ failed
    /\ \A t \in Tasks : task[t] \in {"execute", "enqueue"} => Deps[t] \subseteq results
    /\ ~over /\ loop # "idle" =>
          \A t \in Tasks : t \in ready \/ task[t] = "start" => Deps[t] \subseteq results

DoneInv == Whole /\ status = "done" => Executed = Tasks

(* A task that leaves no result, a resume or a timeout is spent.           *)
LEMMA NothingSpent ==
    ASSUME Typed, NEW c \in DOMAIN Limit, Limit[c] = 0
    PROVE  ~Spend(c)
BY DEF Typed, Spend

(* The closed state of what is kept holds when a run begins.               *)
LEMMA FullBegins ==
    ASSUME Typed, FullInv, NEW done \in SUBSET Tasks, Run(done), UNCHANGED <<checkpoint, holes>>,
           \A t \in done : Deps[t] \subseteq done
    PROVE  FullInv'
<1>1. \A t \in Tasks : task'[t] = "none"
  BY RunBegins
<1>2. results' = done /\ \A t \in ready' : Deps[t] \subseteq done
  BY DEF Run, ReadyAfter
<1> QED BY <1>1, <1>2 DEF FullInv

(* When every task leaves a result, every step keeps what is kept closed.  *)
LEMMA FullStep ==
    ASSUME MaxSilents = 0, DagInv, FullInv, [Next]_vars
    PROVE  FullInv'
<1>a. Typed /\ RowInv /\ Core /\ DegreeInv /\ checkpoint \subseteq Tasks
  BY DEF DagInv, FullInv, Core, Typed
<1>b. ASSUME UNCHANGED <<checkpoint, holes, dagVars, task, failed, over>>, loop' # "idle" => loop # "idle"
      PROVE  FullInv'
  BY <1>b DEF FullInv, dagVars
<1>1. CASE StartRun
  BY <1>1, <1>a, FullBegins DEF StartRun
<1>2. CASE ResumeWorkflow
  <2>1. UNCHANGED <<checkpoint, holes>>
    BY <1>2, <1>a DEF ResumeWorkflow, FullInv, Typed
  <2>2. CASE Run(checkpoint)
    BY <1>a, <2>1, <2>2, FullBegins DEF FullInv
  <2>3. CASE UNCHANGED <<loopVars, dagVars, task, ended, over, failed>>
    BY <1>b, <2>1, <2>3 DEF loopVars
  <2> QED BY <1>2, <1>a, <2>2, <2>3, ResumeMoves
<1>3. CASE Dispatch
  <2>1. PICK t \in ready :
           /\ task[t] = "none" /\ task'[t] = "start" /\ ready' = ready \ {t}
           /\ \A u \in Tasks \ {t} : task'[u] = task[u]
    BY <1>3, <1>a, DispatchMoves DEF Core
  <2>2. UNCHANGED <<checkpoint, holes, results, failed, over, loop>> /\ t \in Tasks
    BY <1>3, <1>a DEF Dispatch, rowVars, Typed
  <2> QED BY <2>1, <2>2 DEF FullInv
<1>4. CASE Loop /\ ~Dispatch
  BY <1>4, <1>b DEF Loop, Dispatched, TaskDone, ContextDone, Drain, Wait, rowVars
<1>5. CASE Timeout
  <2>1. UNCHANGED <<checkpoint, holes, dagVars, task, failed>> /\ over'
    BY <1>5 DEF Timeout, rowVars
  <2> QED BY <2>1 DEF FullInv, dagVars
<1>6. CASE Crash
  <2>1. /\ UNCHANGED <<checkpoint, holes>> /\ results' = {} /\ loop' = "idle"
        /\ \A t \in Tasks : task'[t] = "none"
    BY <1>6 DEF Crash, rowVars
  <2> QED BY <2>1 DEF FullInv
<1>7. ASSUME NEW t \in Tasks, BeginTask(t) PROVE FullInv'
  <2>1. PICK to \in {"fail", "execute"} : At(t, "start", to)
    BY <1>7 DEF BeginTask
  <2>2. /\ task[t] = "start" /\ task'[t] = to /\ t \in InFlight
        /\ \A u \in Tasks \ {t} : task'[u] = task[u]
    BY <2>1, <1>a, AtMoves DEF PCs, InFlight
  <2>3. /\ UNCHANGED <<checkpoint, holes, dagVars, failed, over, loop>>
        /\ (to = "execute" => ~over)
    BY <1>7, <1>a, <2>2, AtMoves DEF BeginTask, loopVars, PCs
  <2>4. loop # "idle"
    BY <1>a, <2>2 DEF RowInv
  <2>5. to = "execute" => Deps[t] \subseteq results
    BY <2>2, <2>3, <2>4 DEF FullInv
  <2> QED BY <2>2, <2>3, <2>5 DEF FullInv, dagVars
<1>8. ASSUME NEW t \in Tasks, Enqueue(t) PROVE FullInv'
  <2>1. /\ task[t] = "enqueue" /\ task'[t] = "report"
        /\ \A u \in Tasks \ {t} : task'[u] = task[u]
    BY <1>8, <1>a, AtMoves DEF Enqueue, PCs
  <2>2. /\ UNCHANGED <<holes, results, failed, over, loop>> /\ checkpoint' \in {results, checkpoint}
        /\ ready' = ready \cup Released(t)
    BY <1>8 DEF Enqueue, loopVars
  <2>3. t \in results
    BY <2>1 DEF FullInv
  <2>4. ASSUME ~over, NEW u \in Released(t) PROVE Deps[u] \subseteq results
    <3>1. Told \subseteq results
      BY <1>a, <2>4 DEF Told, Base, FullInv, RowInv
    <3>2. Deps[u] \subseteq Told \cup {t}
      BY <1>a, <1>8, <2>4, ReleasedIsReady
    <3> QED BY <2>3, <3>1, <3>2
  <2> QED BY <2>1, <2>2, <2>3, <2>4 DEF FullInv
<1>9. ASSUME NEW t \in Tasks, FailFast(t) PROVE FullInv'
  <2>1. /\ task[t] = "fail" /\ task'[t] = "report"
        /\ \A u \in Tasks \ {t} : task'[u] = task[u]
    BY <1>9, <1>a, AtMoves DEF FailFast, PCs
  <2>2. UNCHANGED <<checkpoint, holes, dagVars>> /\ failed' /\ over'
    BY <1>9 DEF FailFast, rowVars
  <2> QED BY <2>1, <2>2 DEF FullInv, dagVars
<1>10. ASSUME NEW t \in Tasks, Report(t) PROVE FullInv'
  <2>1. /\ task[t] = "report" /\ task'[t] = "ended"
        /\ \A u \in Tasks \ {t} : task'[u] = task[u]
    BY <1>10, <1>a, AtMoves DEF Report, PCs
  <2>2. UNCHANGED <<checkpoint, holes, dagVars, failed, over, loop>>
    BY <1>10 DEF Report, rowVars, loopVars
  <2> QED BY <2>1, <2>2 DEF FullInv, dagVars
<1>11. ASSUME NEW t \in Tasks, ExecuteTask(t) PROVE FullInv'
  <2>1. ~Spend("silents")
    BY <1>a, NothingSpent DEF Limit
  <2>2. /\ UNCHANGED <<checkpoint, holes, ready, failed, over, loop>> /\ task[t] = "execute"
        /\ \/ At(t, "execute", "enqueue") /\ results' = results \cup {t}
           \/ At(t, "execute", "fail") /\ UNCHANGED results
    BY <1>11, <2>1 DEF ExecuteTask, rowVars, loopVars, At
  <2>3. Deps[t] \subseteq results
    BY <2>2 DEF FullInv
  <2>4. CASE At(t, "execute", "enqueue") /\ results' = results \cup {t}
    <3>1. task'[t] = "enqueue" /\ \A u \in Tasks \ {t} : task'[u] = task[u]
      BY <1>a, <2>4, AtMoves DEF PCs
    <3> QED BY <2>2, <2>3, <2>4, <3>1 DEF FullInv
  <2>5. CASE At(t, "execute", "fail") /\ UNCHANGED results
    <3>1. task'[t] = "fail" /\ \A u \in Tasks \ {t} : task'[u] = task[u]
      BY <1>a, <2>5, AtMoves DEF PCs
    <3> QED BY <2>2, <2>5, <3>1 DEF FullInv
  <2> QED BY <2>2, <2>4, <2>5
<1>12. CASE UNCHANGED vars
  BY <1>12, <1>b DEF vars, rowVars, loopVars
<1> QED BY <1>1, <1>2, <1>3, <1>4, <1>5, <1>6, <1>7, <1>8, <1>9, <1>10, <1>11, <1>12
        DEF Next, Step

\* No checkpoint is read, or none has holes.
Unspoilt == MaxResumes = 0 \/ MaxSilents = 0

(* No resume begins from a checkpoint with holes.                          *)
LEMMA NoHoles ==
    ASSUME Unspoilt
    PROVE  Spec => []~holes
<1>1. CASE MaxSilents = 0
  <2>1. Init => FullInv
    BY DEF Init, FullInv
  <2>2. DagInv /\ FullInv /\ [Next]_vars => FullInv'
    BY <1>1, FullStep
  <2>3. FullInv => ~holes
    BY DEF FullInv
  <2> QED BY <2>1, <2>2, <2>3, DagInvariant, PTL DEF Spec
<1>2. CASE MaxResumes = 0
  <2>1. Init => ~holes
    BY DEF Init
  <2>2. DagInv /\ ~holes /\ [Next]_vars => (~holes)'
    <3> SUFFICES ASSUME DagInv, ~holes, [Next]_vars PROVE ~holes'
        OBVIOUS
    <3>1. ~ResumeWorkflow
      BY <1>2, NothingSpent DEF ResumeWorkflow, Limit, DagInv
    <3>2. UNCHANGED holes
      BY <3>1 DEF Next, Loop, Step, StartRun, Dispatch, Dispatched, TaskDone, ContextDone, Drain,
         Wait, Timeout, Crash, BeginTask, Enqueue, FailFast, Report, ExecuteTask, vars, rowVars
    <3> QED BY <3>2
  <2> QED BY <2>1, <2>2, DagInvariant, PTL DEF Spec
<1> QED BY <1>1, <1>2 DEF Unspoilt

(* Nothing but a resume of a run with a task that left no result executes  *)
(* a task before the tasks it depends on, in every graph: the run that     *)
(* violates DepsAlwaysFirst has both (premarkCompletedTasksForResume).     *)
THEOREM DependenciesFirst ==
    ASSUME Unspoilt
    PROVE  Spec => []DepsAlwaysFirst
<1>1. DagInv /\ ~holes => DepsAlwaysFirst
  BY DEF DagInv, KeptInv, DepsAlwaysFirst
<1> QED BY <1>1, DagInvariant, NoHoles, PTL

(* Nothing but that and the end of the caller's context records a run as   *)
(* done before all its tasks were executed (finalizeParallelStatus).       *)
THEOREM DoneIsDone ==
    ASSUME Unspoilt, MaxTimeouts = 0
    PROVE  Spec => []DoneMeansAll
<1>1. Init => DoneInv /\ counters["timeouts"] = 0
  BY DEF Init, DoneInv, Limit
<1>2. DagInv /\ counters["timeouts"] = 0 /\ [Next]_vars => (counters["timeouts"] = 0)'
  <2> SUFFICES ASSUME DagInv, counters["timeouts"] = 0, [Next]_vars PROVE counters'["timeouts"] = 0
      OBVIOUS
  <2>1. ~Timeout
    BY NothingSpent DEF Timeout, Limit, DagInv
  <2> QED BY <2>1, TimeoutsStay DEF DagInv
<1>3. DagInv /\ DoneInv /\ [Next]_vars => DoneInv'
  <2> SUFFICES ASSUME DagInv, DoneInv, [Next]_vars, Whole', status' = "done" PROVE Executed' = Tasks
      BY DEF DoneInv
  <2>1. Whole /\ Core /\ Typed
    BY WholeWas DEF DagInv, Core
  <2>2. KeptInv /\ CountInv /\ OutcomeInv
    BY <2>1 DEF DagInv, Whole
  <2>3. Executed \subseteq Executed' /\ Executed' \subseteq Tasks
    BY <2>1, ExecutedGrows DEF Executed
  <2>4. CASE status = "done"
    BY <2>1, <2>3, <2>4 DEF DoneInv
  <2>5. CASE ResumeWorkflow /\ status # "done"
    <3>1. checkpoint = Tasks
      BY <2>1, <2>5, ResumeMoves
    <3> QED BY <2>2, <2>3, <3>1 DEF KeptInv
  <2>6. CASE Drain /\ status # "done"
    <3>1. loop = "drain" /\ ~failed
      BY <2>6 DEF Drain
    <3>2. Executed = Tasks
      BY <2>1, <2>2, <3>1, DoneIsComplete DEF OutcomeInv
    <3> QED BY <2>3, <3>2
  <2>7. CASE ~ResumeWorkflow /\ ~Drain
    <3>1. status' \in {status, "running", "failed"}
      BY <2>7 DEF Next, Loop, Step, StartRun, Dispatch, Dispatched, TaskDone, ContextDone, Wait,
         Timeout, Crash, BeginTask, Enqueue, FailFast, Report, ExecuteTask, vars, rowVars
    <3> QED BY <2>4, <3>1
  <2> QED BY <2>4, <2>5, <2>6, <2>7
<1>4. DoneInv /\ ~holes /\ counters["timeouts"] = 0 => DoneMeansAll
  BY DEF DoneInv, Whole, DoneMeansAll
<1> QED BY <1>1, <1>2, <1>3, <1>4, DagInvariant, NoHoles, PTL DEF Spec

-----------------------------------------------------------------------------
(* Types, with the bounds.                                                 *)

(* The bounds of the counters are numbers.                                 *)
LEMMA BoundsAreNumbers == \A c \in DOMAIN Limit : Limit[c] \in Nat
BY BoundsAssumption, DagAssumption DEF Limit

Budget == \A c \in DOMAIN Limit : counters[c] <= Limit[c]

(* No counter goes beyond its bound.                                       *)
LEMMA BudgetStep ==
    ASSUME Typed, Budget, [Next]_vars
    PROVE  Budget'
<1>1. CASE UNCHANGED counters
  BY <1>1 DEF Budget
<1>2. ASSUME NEW c \in DOMAIN Limit, Spend(c) PROVE Budget'
  <2>1. counters'[c] = counters[c] + 1 /\ counters[c] < Limit[c]
    BY <1>2, SpendTyped DEF Spend
  <2>2. counters[c] \in Nat /\ Limit[c] \in Nat
    BY BoundsAreNumbers DEF Typed
  <2>3. counters'[c] <= Limit[c]
    BY <2>1, <2>2
  <2>4. \A e \in (DOMAIN Limit) \ {c} : counters'[e] = counters[e]
    BY <1>2, SpendTyped
  <2> QED BY <2>3, <2>4 DEF Budget
<1> QED BY <1>1, <1>2, SomeCounter

(* Every state is type-correct: the loop never counts more goroutines than *)
(* max_concurrency, nor fewer messages than it receives (runParallel).     *)
THEOREM DagType == Spec => []TypeOK
<1>1. Init => Budget
  BY BoundsAreNumbers DEF Init, Budget
<1>2. DagInv /\ Budget /\ [Next]_vars => Budget'
  BY BudgetStep DEF DagInv
<1>3. DagInv /\ Budget => TypeOK
  <2> SUFFICES ASSUME DagInv, Budget PROVE TypeOK
      OBVIOUS
  <2>1. Typed /\ LoopInv
    BY DEF DagInv
  <2>2. active \in 0..MaxConcurrency /\ remaining \in 0..Cardinality(Tasks)
    BY <2>1, TaskSets, DagAssumption DEF Typed, LoopInv
  <2>3. ended \in 0..Cardinality(Tasks)
    <3>1. Cardinality(Ended) \in Nat /\ Cardinality(Ended) <= Cardinality(Tasks) /\ Cardinality(Tasks) \in Nat
      BY TaskSets DEF Ended
    <3> QED BY <2>1, <3>1 DEF Typed, LoopInv
  <2>4. \A c \in DOMAIN Limit : counters[c] \in 0..Limit[c]
    BY <2>1, BoundsAreNumbers DEF Typed, Budget
  <2> QED BY <2>1, <2>2, <2>3, <2>4 DEF Typed, TypeOK
<1> QED BY <1>1, <1>2, <1>3, DagInvariant, PTL DEF Spec

-----------------------------------------------------------------------------
(* The loop is never stuck, whatever the checkpoints lack.  DegreeInv and  *)
(* CountInv are lost in a resume from a checkpoint with holes; what is     *)
(* left of them is enough.                                                 *)

\* The loop sleeps only on a task at work.
AwakeInv == loop = "select" => ready = {} \/ active > 0

\* While the context lasts no task waits for more than it depends on, and one
\* that waits for none is ready or was handed out.
EagerInv ==
    ~over /\ loop # "idle" =>
        \A t \in Tasks :
            /\ inDegree[t] <= Cardinality(Deps[t] \ Told)
            /\ inDegree[t] <= 0 => t \in ready \/ t \in Base \/ task[t] # "none"

\* The loop does not wait for more messages than there are tasks.
FewInv ==
    loop # "idle" =>
        remaining + Cardinality(Ended) <= Cardinality(Tasks \ Base) + ended

WaitInv == AwakeInv /\ EagerInv /\ FewInv

(* A run begins with every task that waits for none in the ready list.     *)
LEMMA RunWaits ==
    ASSUME Typed, NEW done \in SUBSET Tasks, Run(done)
    PROVE  WaitInv'
<1>1. /\ Base' = done /\ Told' = done /\ Ended' = {} /\ Cardinality({}) = 0
      /\ loop' = "dispatch" /\ ended' = 0 /\ ready' = ReadyAfter(done)
      /\ inDegree' = [t \in Tasks |-> Cardinality(Deps[t] \ done)]
      /\ remaining' = Cardinality(Tasks \ done)
  BY RunBegins, FS_EmptySet DEF Run
<1>2. ASSUME NEW t \in Tasks
      PROVE  /\ inDegree'[t] <= Cardinality(Deps[t] \ Told')
             /\ inDegree'[t] <= 0 => t \in ready' \/ t \in Base'
  <2>1. /\ Cardinality(Deps[t] \ done) \in Nat
        /\ Cardinality(Deps[t] \ done) = 0 <=> Deps[t] \ done = {}
    <3>1. Deps[t] \ done \in SUBSET Tasks
      BY DagAssumption
    <3> QED BY <3>1, TaskSets
  <2>2. inDegree'[t] = Cardinality(Deps[t] \ done)
    BY <1>1
  <2> QED BY <1>1, <2>1, <2>2 DEF ReadyAfter
<1>3. Cardinality(Tasks \ done) \in Nat
  BY TaskSets
<1> QED BY <1>1, <1>2, <1>3 DEF WaitInv, AwakeInv, EagerInv, FewInv

(* A task that is handed out leaves the tasks that are told as they are,   *)
(* or takes a completed one back.                                          *)
LEMMA DispatchWaits ==
    ASSUME Core, WaitInv, Dispatch
    PROVE  WaitInv'
<1> USE DEF Core
<1>1. PICK t \in ready :
         /\ task[t] = "none" /\ task'[t] = "start" /\ ready' = ready \ {t}
         /\ \A u \in Tasks \ {t} : task'[u] = task[u]
         /\ Ended' = Ended
  BY DispatchMoves
<1>2. /\ t \in Tasks /\ loop = "dispatch"
      /\ UNCHANGED <<loop, remaining, inDegree, results, ended, over>>
  BY DEF Dispatch, Typed
<1>3. Base' = Base \ {t} /\ Told' \subseteq Told /\ Base \subseteq Tasks /\ Base' \subseteq Tasks
  BY <1>1, <1>2 DEF Base, Told
<1>4. ASSUME ~over, NEW u \in Tasks
      PROVE  /\ inDegree'[u] <= Cardinality(Deps[u] \ Told')
             /\ inDegree'[u] <= 0 => u \in ready' \/ u \in Base' \/ task'[u] # "none"
  <2>1. /\ inDegree[u] <= Cardinality(Deps[u] \ Told) /\ inDegree[u] \in Int
        /\ inDegree[u] <= 0 => u \in ready \/ u \in Base \/ task[u] # "none"
    BY <1>2, <1>4 DEF WaitInv, EagerInv, Typed
  <2>2. Deps[u] \ Told' \in SUBSET Tasks /\ Deps[u] \ Told \subseteq Deps[u] \ Told'
    BY <1>3, DagAssumption
  <2>3. /\ Cardinality(Deps[u] \ Told) <= Cardinality(Deps[u] \ Told')
        /\ Cardinality(Deps[u] \ Told) \in Nat /\ Cardinality(Deps[u] \ Told') \in Nat
    BY <2>2, TaskSets, FS_Subset
  <2>4. inDegree'[u] <= Cardinality(Deps[u] \ Told')
    BY <1>2, <2>1, <2>3
  <2>5. inDegree'[u] <= 0 => u \in ready' \/ u \in Base' \/ task'[u] # "none"
    BY <1>1, <1>2, <1>3, <2>1
  <2> QED BY <2>4, <2>5
<1>5. FewInv'
  <2>1. Cardinality(Tasks \ Base) <= Cardinality(Tasks \ Base')
    <3>1. Tasks \ Base \subseteq Tasks \ Base' /\ Tasks \ Base' \in SUBSET Tasks
      BY <1>3
    <3> QED BY <3>1, TaskSets, FS_Subset
  <2>2. /\ Cardinality(Ended) \in Nat /\ Cardinality(Tasks \ Base) \in Nat
        /\ Cardinality(Tasks \ Base') \in Nat
    BY TaskSets DEF Ended
  <2>3. remaining + Cardinality(Ended) <= Cardinality(Tasks \ Base) + ended
    BY <1>2 DEF WaitInv, FewInv
  <2>4. remaining + Cardinality(Ended) <= Cardinality(Tasks \ Base') + ended
    BY <2>1, <2>2, <2>3 DEF Typed
  <2>5. UNCHANGED <<remaining, ended>> /\ Ended' = Ended
    BY <1>1, <1>2
  <2> QED BY <2>4, <2>5 DEF FewInv
<1> QED BY <1>2, <1>4, <1>5 DEF WaitInv, AwakeInv, EagerInv

(* A task that tells its dependents makes those ready that waited for it   *)
(* alone; it is itself at work.                                            *)
LEMMA EnqueueWaits ==
    ASSUME Core, WaitInv, NEW t \in Tasks, Enqueue(t)
    PROVE  WaitInv'
<1> USE DEF Core
<1>1. /\ task[t] = "enqueue" /\ task'[t] = "report"
      /\ \A u \in Tasks \ {t} : task'[u] = task[u]
  BY AtMoves DEF Enqueue, PCs
<1>2. /\ UNCHANGED <<results, loop, active, remaining, ended, over>>
      /\ inDegree' = [u \in Tasks |-> IF u \in Dependents(t) THEN inDegree[u] - 1 ELSE inDegree[u]]
      /\ ready' = ready \cup Released(t)
  BY DEF Enqueue, loopVars
<1>3. t \in InFlight /\ t \notin Told /\ Told' = Told \cup {t} /\ Base' = Base /\ Ended' = Ended
  BY <1>1, <1>2 DEF InFlight, Told, Base, Ended
<1>4. loop # "idle" /\ active > 0
  <2>1. Cardinality(InFlight) \in Nat /\ Cardinality(InFlight) # 0
    BY <1>3, TaskSets DEF InFlight
  <2> QED BY <1>3, <2>1 DEF LoopInv, RowInv, Typed
<1>5. ASSUME ~over, NEW u \in Tasks
      PROVE  /\ inDegree'[u] <= Cardinality(Deps[u] \ Told')
             /\ inDegree'[u] <= 0 => u \in ready' \/ u \in Base' \/ task'[u] # "none"
  <2>1. /\ inDegree[u] <= Cardinality(Deps[u] \ Told) /\ inDegree[u] \in Int
        /\ inDegree[u] <= 0 => u \in ready \/ u \in Base \/ task[u] # "none"
    BY <1>4, <1>5 DEF WaitInv, EagerInv, Typed
  <2>2. Deps[u] \ Told \in SUBSET Tasks /\ Deps[u] \ Told' = (Deps[u] \ Told) \ {t}
    BY <1>3, DagAssumption
  <2>3. task'[u] = "none" <=> task[u] = "none"
    BY <1>1
  <2>4. CASE t \in Deps[u]
    <3>1. Cardinality(Deps[u] \ Told') = Cardinality(Deps[u] \ Told) - 1
      BY <1>3, <2>2, <2>4, OneLess
    <3>2. Cardinality(Deps[u] \ Told) \in Nat
      BY <2>2, TaskSets
    <3>3. inDegree'[u] = inDegree[u] - 1 /\ (inDegree[u] = 1 => u \in ready')
      BY <1>2, <2>4 DEF Dependents, Released
    <3>4. inDegree'[u] <= 0 => inDegree[u] = 1 \/ inDegree[u] <= 0
      BY <2>1, <3>3
    <3>5. inDegree'[u] <= Cardinality(Deps[u] \ Told')
      BY <2>1, <3>1, <3>2, <3>3
    <3> QED BY <1>2, <1>3, <2>1, <2>3, <3>3, <3>4, <3>5
  <2>5. CASE t \notin Deps[u]
    <3>1. Deps[u] \ Told' = Deps[u] \ Told
      BY <2>2, <2>5
    <3>2. inDegree'[u] = inDegree[u]
      BY <1>2, <2>5 DEF Dependents
    <3> QED BY <1>2, <1>3, <2>1, <2>3, <3>1, <3>2
  <2> QED BY <2>4, <2>5
<1> QED BY <1>2, <1>3, <1>4, <1>5 DEF WaitInv, AwakeInv, EagerInv, FewInv

(* The other moves of a goroutine tell no task anything.                   *)
LEMMA MoveWaits ==
    ASSUME Core, WaitInv, NEW t \in Tasks,
           BeginTask(t) \/ ExecuteTask(t) \/ FailFast(t) \/ Report(t)
    PROVE  WaitInv'
<1> USE DEF Core
<1>1. PICK from \in {"start", "execute", "fail", "report"},
           to \in {"execute", "enqueue", "fail", "report", "ended"} :
        /\ At(t, from, to) /\ (to = "ended" <=> from = "report")
        /\ to = "report" => from = "fail" /\ over'
        /\ from = "report" => Report(t)
  BY DEF BeginTask, ExecuteTask, FailFast, Report
<1>2. /\ task[t] = from /\ task'[t] = to /\ \A u \in Tasks \ {t} : task'[u] = task[u]
  BY <1>1, AtMoves DEF PCs
<1>3. /\ UNCHANGED <<loop, active, remaining, ready, inDegree>> /\ (~over' => ~over)
      /\ results' \in {results, results \cup {t}}
  BY DEF BeginTask, ExecuteTask, FailFast, Report, loopVars, dagVars
<1>4. Base' = Base /\ (~over' => Told' = Told)
  <2>1. Base' = Base
    BY <1>1, <1>2, <1>3 DEF Base
  <2>2. ~over' => \A u \in Tasks : task'[u] \in {"report", "ended"} <=> task[u] \in {"report", "ended"}
    BY <1>1, <1>2
  <2> QED BY <2>1, <2>2 DEF Told
<1>5. EagerInv'
  <2>1. \A u \in Tasks : task'[u] = "none" <=> task[u] = "none"
    BY <1>1, <1>2
  <2> QED BY <1>3, <1>4, <2>1 DEF WaitInv, EagerInv
<1>6. FewInv'
  <2>1. CASE Report(t)
    <3>1. Ended' = Ended \cup {t} /\ t \notin Ended
      BY <2>1, ReportMoves
    <3>2. Cardinality(Ended') = Cardinality(Ended) + 1
      BY <3>1, OneMore DEF Ended
    <3>3. ended' = ended + 1
      BY <2>1 DEF Report
    <3>4. Cardinality(Ended) \in Nat /\ Cardinality(Tasks \ Base) \in Nat
      BY TaskSets DEF Ended
    <3>5. loop # "idle" => remaining + Cardinality(Ended) <= Cardinality(Tasks \ Base) + ended
      BY DEF WaitInv, FewInv
    <3>6. UNCHANGED <<loop, remaining>> /\ Base' = Base
      BY <1>3, <1>4
    <3>7. loop # "idle" =>
             remaining + (Cardinality(Ended) + 1) <= Cardinality(Tasks \ Base) + (ended + 1)
      BY <3>4, <3>5 DEF Typed
    <3> QED BY <3>2, <3>3, <3>6, <3>7 DEF FewInv
  <2>2. CASE ~Report(t)
    <3>1. from # "report" /\ to # "ended" /\ UNCHANGED ended
      BY <2>2, <1>1 DEF BeginTask, ExecuteTask, FailFast
    <3>2. Ended' = Ended
      BY <1>1, <1>2, <3>1 DEF Ended
    <3> QED BY <1>3, <1>4, <3>1, <3>2 DEF WaitInv, FewInv
  <2> QED BY <2>1, <2>2
<1> QED BY <1>3, <1>5, <1>6 DEF WaitInv, AwakeInv

(* Every step keeps the loop awake.                                        *)
LEMMA NextWaits ==
    ASSUME Core, WaitInv, [Next]_vars
    PROVE  WaitInv'
<1> USE DEF Core
<1>1. CASE StartRun
  BY <1>1, RunWaits DEF StartRun
<1>2. CASE ResumeWorkflow
  <2>1. CASE Run(checkpoint)
    BY <2>1, RunWaits DEF Typed
  <2>2. CASE loop = "idle" /\ UNCHANGED loopVars
    BY <2>2 DEF loopVars, WaitInv, AwakeInv, EagerInv, FewInv
  <2> QED BY <1>2, <2>1, <2>2, ResumeMoves
<1>3. CASE Dispatch
  BY <1>3, DispatchWaits
<1>4. CASE Dispatched
  <2>1. /\ UNCHANGED <<active, remaining, ready, inDegree, results, task, ended, over>>
        /\ loop = "dispatch" /\ loop' = "select" /\ ~HasReady
    BY <1>4 DEF Dispatched, dagVars
  <2>2. AwakeInv'
    BY <2>1, DagAssumption DEF AwakeInv, HasReady, Typed
  <2> QED BY <2>1, <2>2 DEF WaitInv, EagerInv, FewInv, Told, Base, Ended
<1>5. CASE TaskDone
  <2>1. /\ UNCHANGED <<ready, inDegree, results, task, over>>
        /\ loop = "select" /\ loop' \in {"drain", "dispatch"}
        /\ remaining' = remaining - 1 /\ ended' = ended - 1
    BY <1>5 DEF TaskDone, dagVars
  <2>2. Told' = Told /\ Base' = Base /\ Ended' = Ended
    BY <2>1 DEF Told, Base, Ended
  <2>3. FewInv'
    <3>1. Cardinality(Ended) \in Nat /\ Cardinality(Tasks \ Base) \in Nat
      BY TaskSets DEF Ended
    <3>2. remaining + Cardinality(Ended) <= Cardinality(Tasks \ Base) + ended
      BY <2>1 DEF WaitInv, FewInv
    <3>3. (remaining - 1) + Cardinality(Ended) <= Cardinality(Tasks \ Base) + (ended - 1)
      BY <3>1, <3>2 DEF Typed
    <3> QED BY <2>1, <2>2, <3>3 DEF FewInv
  <2> QED BY <2>1, <2>2, <2>3 DEF WaitInv, AwakeInv, EagerInv
<1>6. CASE ContextDone \/ Drain \/ Wait \/ Timeout \/ UNCHANGED vars
  <2>1. /\ UNCHANGED <<active, remaining, ready, inDegree, results, task, ended>>
        /\ (~over' => ~over) /\ (loop' # "idle" => loop # "idle") /\ (loop' = "select" => loop = "select")
    BY <1>6 DEF ContextDone, Drain, Wait, Timeout, vars, loopVars, dagVars
  <2> QED BY <2>1 DEF WaitInv, AwakeInv, EagerInv, FewInv, Told, Base, Ended
<1>7. CASE Crash
  BY <1>7 DEF Crash, WaitInv, AwakeInv, EagerInv, FewInv
<1>8. ASSUME NEW t \in Tasks, Enqueue(t) PROVE WaitInv'
  BY <1>8, EnqueueWaits
<1>9. ASSUME NEW t \in Tasks, BeginTask(t) \/ ExecuteTask(t) \/ FailFast(t) \/ Report(t) PROVE WaitInv'
  BY <1>9, MoveWaits
<1> QED BY <1>1, <1>2, <1>3, <1>4, <1>5, <1>6, <1>7, <1>8, <1>9 DEF Next, Step, Loop

(* With no task at work and none ready, the acyclic graph has a task that  *)
(* waits for nothing: the loop had no message left to wait for.            *)
LEMMA SomeoneIsAtWork ==
    ASSUME Core, WaitInv, loop = "select", ~over
    PROVE  active > 0
<1> USE DEF Core
<1> SUFFICES ASSUME active = 0 PROVE FALSE
    BY DEF Typed
<1>1. /\ Cardinality(InFlight) \in Nat /\ (Cardinality(InFlight) = 0 <=> InFlight = {})
      /\ Cardinality(Ended) \in Nat
  BY TaskSets DEF InFlight, Ended
<1>2. InFlight = {} /\ ended = 0 /\ ready = {} /\ remaining > 0
  BY <1>1, DagAssumption DEF LoopInv, WaitInv, AwakeInv, Typed
<1>3. Cardinality(Ended) < Cardinality(Tasks \ Base)
  <2>1. Cardinality(Tasks \ Base) \in Nat
    BY TaskSets
  <2> QED BY <1>1, <1>2, <2>1 DEF WaitInv, FewInv, Typed
<1>4. (Tasks \ Base) \ Ended # {}
  <2>1. ASSUME Tasks \ Base \subseteq Ended PROVE FALSE
    <3>1. IsFiniteSet(Ended)
      BY TaskSets DEF Ended
    <3>2. Cardinality(Tasks \ Base) <= Cardinality(Ended)
      BY <2>1, <3>1, FS_Subset
    <3>3. Cardinality(Tasks \ Base) \in Nat
      BY TaskSets
    <3> QED BY <1>1, <1>3, <3>2, <3>3
  <2> QED BY <2>1
<1>5. PICK t \in (Tasks \ Base) \ Ended : Deps[t] \cap ((Tasks \ Base) \ Ended) = {}
  BY <1>4, DagAssumption
<1>6. Deps[t] \subseteq Told /\ task[t] = "none"
  BY <1>2, <1>5, DagAssumption DEF Told, Ended, InFlight
<1>7. inDegree[t] <= 0
  <2>1. Deps[t] \ Told = {}
    BY <1>6
  <2> QED BY <2>1, <1>5, FS_EmptySet DEF WaitInv, EagerInv
<1> QED BY <1>2, <1>5, <1>6, <1>7 DEF WaitInv, EagerInv

(* The loop never sleeps on a message that no task will send, a task that  *)
(* is handed out finds a token of the semaphore, and the channel of the    *)
(* messages never overflows, for every acyclic graph and every failure,    *)
(* crash and resume (runParallel, dispatchReadyTasks).                     *)
THEOREM LoopNeverStuck == Spec => []LoopIsNeverStuck
<1>1. Init => WaitInv
  BY DEF Init, WaitInv, AwakeInv, EagerInv, FewInv
<1>2. DagInv /\ WaitInv /\ [Next]_vars => WaitInv'
  BY NextWaits DEF DagInv, Core
<1>3. DagInv /\ WaitInv => LoopIsNeverStuck
  <2> SUFFICES ASSUME DagInv, WaitInv PROVE LoopIsNeverStuck
      OBVIOUS
  <2>1. Core
    BY DEF DagInv, Core
  <2>2. /\ Cardinality(InFlight) \in Nat /\ Cardinality(Ended) \in Nat
        /\ Cardinality(Ended) <= Cardinality(Tasks) /\ Cardinality(Tasks) \in Nat
    BY TaskSets DEF InFlight, Ended
  <2>3. ended <= Cardinality(Tasks) /\ Cardinality(InFlight) <= active
    BY <2>1, <2>2 DEF Core, LoopInv, Typed
  <2>4. HasReady => Cardinality(InFlight) < MaxConcurrency
    BY <2>1, <2>2, <2>3, DagAssumption DEF HasReady, Core, Typed
  <2> QED BY <2>1, <2>3, <2>4, SomeoneIsAtWork DEF LoopIsNeverStuck
<1> QED BY <1>1, <1>2, <1>3, DagInvariant, PTL DEF Spec

-----------------------------------------------------------------------------
(* The sequential runner, WorkflowSteps.                                    *)

\* The types that the proof needs; the bounds on the counters do not matter.
StepsTyped ==
    /\ checkpoint.index \in Steps
    /\ applied \in [Steps -> Nat] /\ step \in Nat /\ lost \in Nat
    /\ pc \in {"idle", "save", "execute", "done", "failed"}
    /\ pc \in {"save", "execute"} => step \in Steps

\* A step after the checkpoint was only executed by runners that lost its
\* checkpoint, and the step that a runner stands at is not before it.
StepsPaid ==
    /\ \A i \in Steps : applied[i] <= 1 + lost /\ (i > checkpoint.index => applied[i] <= lost)
    /\ pc \in {"save", "execute"} => step >= checkpoint.index /\ applied[step] <= lost
    /\ pc = "execute" /\ step > checkpoint.index => applied[step] + 1 <= lost

StepsInv ==
    /\ StepsTyped
    /\ status = "none" => pc = "idle" /\ checkpoint.index = 0 /\ applied = [i \in Steps |-> 0]
    /\ Resumable => StepsPaid

(* The invariant holds initially.                                          *)
LEMMA InitStepsInv == StepsInit => StepsInv
BY StepsAssumption DEF StepsInit, StepsInv, StepsTyped, StepsPaid, Steps

(* Every step keeps the invariant; the store may lose any checkpoint.      *)
LEMMA NextStepsInv == StepsInv /\ [StepsNext]_stepsVars => StepsInv'
<1> SUFFICES ASSUME StepsInv, [StepsNext]_stepsVars PROVE StepsInv'
    OBVIOUS
<1> USE StepsAssumption DEF StepsInv, StepsTyped, Steps
<1>1. CASE StartSteps
  BY <1>1 DEF StartSteps, Goto, StepsPaid
<1>2. CASE ResumeSteps
  <2>1. StepsTyped'
    BY <1>2 DEF ResumeSteps, Goto, ResumeAt
  <2>2. Resumable => StepsPaid'
    BY <1>2 DEF ResumeSteps, Goto, ResumeAt, StepsPaid
  <2>. QED  BY <1>2, <2>1, <2>2 DEF ResumeSteps
<1>3. CASE SaveCheckpoint
  <2>1. StepsTyped' /\ status' # "none"
    BY <1>3 DEF SaveCheckpoint
  <2>2. ASSUME Resumable PROVE StepsPaid'
    BY <1>3, <2>2 DEF SaveCheckpoint, StepsPaid
  <2>. QED  BY <2>1, <2>2
<1>4. CASE ExecuteStep
  <2>1. step \in Steps
    BY <1>4 DEF ExecuteStep
  <2>2. StepsTyped' /\ status' # "none"
    BY <1>4, <2>1 DEF ExecuteStep, Goto
  <2>3. ASSUME Resumable PROVE StepsPaid'
    <3>1. CASE pc' = "failed" /\ UNCHANGED <<applied, results, step>>
      BY <1>4, <2>3, <3>1 DEF ExecuteStep, StepsPaid
    <3>2. CASE applied' = [applied EXCEPT ![step] = @ + 1] /\ Goto(step + 1)
      <4>1. applied'[step] = applied[step] + 1 /\ \A i \in Steps \ {step} : applied'[i] = applied[i]
        BY <2>1, <3>2
      <4>2. step >= checkpoint.index /\ applied[step] <= lost
            /\ (step > checkpoint.index => applied[step] + 1 <= lost)
        BY <1>4, <2>3 DEF ExecuteStep, StepsPaid
      <4>3. UNCHANGED <<checkpoint, lost>> /\ step' = step + 1 /\ pc' \in {"save", "done"}
            /\ (pc' = "save" => step + 1 \in Steps)
        BY <1>4, <2>1, <3>2 DEF ExecuteStep, Goto
      <4>4. \A i \in Steps : applied'[i] <= 1 + lost /\ (i > checkpoint.index => applied'[i] <= lost)
        BY <2>1, <2>3, <4>1, <4>2 DEF StepsPaid
      <4>5. pc' = "save" => step' >= checkpoint.index /\ applied'[step'] <= lost
        <5>1. ASSUME pc' = "save" PROVE step + 1 \in Steps /\ step + 1 > checkpoint.index
          BY <2>1, <4>2, <4>3, <5>1
        <5>. QED  BY <2>1, <4>3, <4>4, <5>1
      <4>. QED  BY <4>3, <4>4, <4>5 DEF StepsPaid
    <3>. QED  BY <1>4, <3>1, <3>2 DEF ExecuteStep
  <2>. QED  BY <2>2, <2>3
<1>5. CASE Finish
  BY <1>5 DEF Finish, StepsPaid
<1>6. CASE CrashSteps
  BY <1>6 DEF CrashSteps, StepsPaid
<1>7. CASE UNCHANGED stepsVars
  BY <1>7 DEF stepsVars, StepsPaid
<1>. QED  BY <1>1, <1>2, <1>3, <1>4, <1>5, <1>6, <1>7 DEF StepsNext

(* A step is repeated only for a checkpoint that was not saved, however    *)
(* often the run fails, crashes and is resumed (saveCheckpoint,            *)
(* ResumeWorkflow).                                                        *)
THEOREM RepeatsOnlyIfLost == StepsSpec => []RepeatsArePaidFor
<1>1. StepsInv => RepeatsArePaidFor
  BY DEF StepsInv, StepsPaid, RepeatsArePaidFor
<1>. QED  BY InitStepsInv, NextStepsInv, <1>1, PTL DEF StepsSpec

-----------------------------------------------------------------------------
\* What a runner has in its results map is of earlier, executed steps.
StepsHonest ==
    /\ StepsTyped
    /\ status = "none" => pc = "idle" /\ results = {}
    /\ \A i \in checkpoint.results : i \in Steps /\ applied[i] > 0 /\ i < checkpoint.index
    /\ pc \in {"save", "execute"} =>
          \A i \in results : i \in Steps /\ applied[i] > 0 /\ i < step

(* Every step preserves the types.                                         *)
LEMMA NextStepsTyped == StepsTyped /\ [StepsNext]_stepsVars => StepsTyped'
<1> SUFFICES ASSUME StepsTyped, [StepsNext]_stepsVars PROVE StepsTyped'
    OBVIOUS
<1> USE StepsAssumption DEF StepsTyped, Steps
<1>1. ASSUME StepsTyped, ExecuteStep PROVE StepsTyped'
  <2>1. step \in Steps
    BY <1>1 DEF ExecuteStep
  <2>. QED  BY <1>1, <2>1 DEF ExecuteStep, Goto
<1>2. ASSUME StepsTyped, StepsNext, ~ExecuteStep PROVE StepsTyped'
  BY <1>2 DEF StepsNext, StartSteps, ResumeSteps, ResumeAt,
               Goto, SaveCheckpoint, Finish, CrashSteps
<1>. QED  BY <1>1, <1>2 DEF stepsVars

(* Every step keeps the results of earlier, executed steps.                *)
LEMMA NextStepsHonest == StepsHonest /\ [StepsNext]_stepsVars => StepsHonest'
<1> SUFFICES ASSUME StepsHonest, [StepsNext]_stepsVars PROVE StepsHonest'
    OBVIOUS
<1>0. StepsTyped'
  BY NextStepsTyped DEF StepsHonest
<1> USE DEF StepsHonest
<1>1. CASE StartSteps
  BY <1>0, <1>1 DEF StartSteps, Goto
<1>2. CASE ResumeSteps
  BY <1>0, <1>2 DEF ResumeSteps, Goto, ResumeAt, StepsTyped, Steps
<1>3. CASE SaveCheckpoint
  BY <1>0, <1>3 DEF SaveCheckpoint, StepsTyped
<1>4. CASE ExecuteStep
  <2>1. step \in Steps /\ UNCHANGED checkpoint /\ status' # "none"
    BY <1>4 DEF ExecuteStep, StepsTyped
  <2>2. \A i \in Steps : applied[i] > 0 => applied'[i] > 0
    BY <1>4, <2>1 DEF ExecuteStep, StepsTyped
  <2>3. pc' \in {"save", "execute"} =>
           step' = step + 1 /\ applied'[step] > 0 /\ results' \subseteq results \cup {step}
    BY <1>4, <2>1 DEF ExecuteStep, Goto, StepsTyped
  <2>4. \A i \in results : i \in Steps /\ applied'[i] > 0 /\ i < step
    BY <1>4, <2>2 DEF ExecuteStep
  <2>5. pc' \in {"save", "execute"} =>
           \A i \in results' : i \in Steps /\ applied'[i] > 0 /\ i < step'
    BY <2>1, <2>3, <2>4 DEF Steps
  <2>. QED  BY <1>0, <2>1, <2>2, <2>5
<1>5. CASE Finish
  BY <1>0, <1>5 DEF Finish
<1>6. CASE CrashSteps
  BY <1>0, <1>6 DEF CrashSteps
<1>7. CASE UNCHANGED stepsVars
  BY <1>0, <1>7 DEF stepsVars
<1>. QED  BY <1>1, <1>2, <1>3, <1>4, <1>5, <1>6, <1>7 DEF StepsNext

(* A checkpoint holds results of executed steps before its index only, so  *)
(* a template never reads the result of a step that was not executed       *)
(* (saveCheckpoint, executeResumeStep).                                    *)
THEOREM HonestCheckpoints == StepsSpec => []IndexIsHonest
<1>1. StepsInit => StepsHonest
  BY StepsAssumption DEF StepsInit, StepsHonest, StepsTyped, Steps
<1>2. StepsHonest => IndexIsHonest
  BY DEF StepsHonest, IndexIsHonest
<1>. QED  BY <1>1, <1>2, NextStepsHonest, PTL DEF StepsSpec

-----------------------------------------------------------------------------
\* The counters keep their bounds, and a checkpoint is lost by a fault.
StepsBudget ==
    /\ StepsTyped /\ step <= NumSteps /\ results \subseteq Steps
    /\ status \in {"none", "running", "done", "failed"} /\ checkpoint.results \subseteq Steps
    /\ counters \in [DOMAIN StepsLimit -> Nat] /\ lost <= counters["faults"]
    /\ \A c \in DOMAIN StepsLimit : counters[c] <= StepsLimit[c]

(* A counter that is spent stays within its bound.                         *)
LEMMA StepSpent ==
    ASSUME StepsBudget, NEW c \in DOMAIN StepsLimit, SpendStep(c)
    PROVE  /\ counters' \in [DOMAIN StepsLimit -> Nat] /\ counters'[c] = counters[c] + 1
           /\ \A e \in (DOMAIN StepsLimit) \ {c} : counters'[e] = counters[e]
           /\ \A e \in DOMAIN StepsLimit : counters'[e] <= StepsLimit[e]
<1>1. StepsLimit[c] \in Nat /\ counters[c] \in Nat /\ counters[c] < StepsLimit[c]
  BY BoundsAssumption DEF StepsLimit, StepsBudget, SpendStep
<1>2. counters' = [counters EXCEPT ![c] = counters[c] + 1]
  BY DEF SpendStep
<1> QED BY <1>1, <1>2 DEF StepsBudget

(* Every step keeps the bounds.                                            *)
LEMMA NextStepsBudget == StepsBudget /\ [StepsNext]_stepsVars => StepsBudget'
<1> SUFFICES ASSUME StepsBudget, [StepsNext]_stepsVars PROVE StepsBudget'
    OBVIOUS
<1> USE DEF StepsBudget
<1>0. StepsTyped'
  BY NextStepsTyped
<1>d. /\ {"errors", "faults", "crashes", "resumes"} = DOMAIN StepsLimit
      /\ counters["faults"] \in Nat /\ lost \in Nat
  BY DEF StepsLimit, StepsTyped
<1>u. UNCHANGED counters => /\ counters' \in [DOMAIN StepsLimit -> Nat]
                            /\ \A e \in DOMAIN StepsLimit : counters'[e] <= StepsLimit[e]
  OBVIOUS
<1>1. CASE StartSteps
  BY <1>0, <1>u, <1>1, StepsAssumption DEF StartSteps, Goto
<1>2. CASE ResumeSteps
  <2>1. step' <= NumSteps
    BY <1>2, StepsAssumption DEF ResumeSteps, Goto, ResumeAt, StepsTyped, Steps
  <2> QED BY <1>0, <1>d, <1>2, <2>1, StepSpent DEF ResumeSteps
<1>3. CASE SaveCheckpoint
  <2>1. CASE SpendStep("faults")
    BY <1>0, <1>d, <1>3, <2>1, StepSpent, StepsAssumption DEF SaveCheckpoint, StepsTyped
  <2>2. CASE UNCHANGED <<lost, counters>>
    BY <1>0, <1>u, <1>3, <2>2 DEF SaveCheckpoint
  <2> QED BY <1>3, <2>1, <2>2 DEF SaveCheckpoint
<1>4. CASE ExecuteStep
  <2>1. step \in Steps
    BY <1>4 DEF ExecuteStep, StepsTyped
  <2>2. step' <= NumSteps /\ results' \subseteq Steps
    <3>1. results' \subseteq Steps
      BY <1>4, <2>1 DEF ExecuteStep
    <3>2. step + 1 <= NumSteps
      BY <2>1, StepsAssumption DEF Steps
    <3>3. step' \in {step, step + 1}
      BY <1>4 DEF ExecuteStep, Goto
    <3> QED BY <3>1, <3>2, <3>3
  <2>3. CASE SpendStep("errors")
    BY <1>0, <1>d, <1>4, <2>2, <2>3, StepSpent DEF ExecuteStep
  <2>4. CASE UNCHANGED counters
    BY <1>0, <1>u, <1>4, <2>2, <2>4 DEF ExecuteStep
  <2> QED BY <1>4, <2>3, <2>4 DEF ExecuteStep
<1>5. CASE Finish
  <2>1. CASE SpendStep("faults")
    BY <1>0, <1>d, <1>5, <2>1, StepSpent DEF Finish
  <2>2. CASE UNCHANGED counters
    BY <1>0, <1>u, <1>5, <2>2 DEF Finish
  <2> QED BY <1>5, <2>1, <2>2 DEF Finish
<1>6. CASE CrashSteps
  BY <1>0, <1>d, <1>6, StepSpent, StepsAssumption DEF CrashSteps
<1>7. CASE UNCHANGED stepsVars
  BY <1>0, <1>u, <1>7 DEF stepsVars
<1>. QED  BY <1>1, <1>2, <1>3, <1>4, <1>5, <1>6, <1>7 DEF StepsNext

(* Every state of the sequential runner is type-correct.                   *)
THEOREM StepsType == StepsSpec => []StepsTypeOK
<1>1. StepsInit => StepsBudget
  <2> SUFFICES ASSUME StepsInit PROVE StepsBudget
      OBVIOUS
  <2>1. \A c \in DOMAIN StepsLimit : counters[c] = 0 /\ StepsLimit[c] \in Nat
    BY BoundsAssumption DEF StepsInit, StepsLimit
  <2> QED BY <2>1, StepsAssumption DEF StepsInit, StepsBudget, StepsTyped, Steps, StepsLimit
<1>2. StepsBudget => StepsTypeOK
  <2> SUFFICES ASSUME StepsBudget PROVE StepsTypeOK
      OBVIOUS
  <2>1. \A c \in DOMAIN StepsLimit : counters[c] \in 0..StepsLimit[c]
    <3> SUFFICES ASSUME NEW c \in DOMAIN StepsLimit PROVE counters[c] \in 0..StepsLimit[c]
        OBVIOUS
    <3>1. counters[c] \in Nat /\ StepsLimit[c] \in Nat /\ counters[c] <= StepsLimit[c]
      BY BoundsAssumption DEF StepsBudget, StepsLimit
    <3> QED BY <3>1
  <2>2. lost \in 0..MaxFaults
    <3>1. counters["faults"] \in Nat /\ counters["faults"] <= MaxFaults
      BY DEF StepsBudget, StepsLimit
    <3> QED BY <3>1, BoundsAssumption DEF StepsBudget, StepsTyped
  <2>3. step \in 0..NumSteps
    BY StepsAssumption DEF StepsBudget, StepsTyped
  <2> QED BY <2>1, <2>2, <2>3 DEF StepsBudget, StepsTyped, StepsTypeOK
<1>. QED  BY <1>1, <1>2, NextStepsBudget, PTL DEF StepsSpec
=============================================================================
