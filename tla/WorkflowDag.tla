---------------------------- MODULE WorkflowDag ----------------------------
(* A workflow run with max_concurrency > 1 (pkg/workflow/scheduler.go): a  *)
(* loop hands the ready tasks to goroutines, a finished task makes its     *)
(* dependents ready and saves a checkpoint, the first error ends the       *)
(* context.  After a crash or a failure the run is resumed from the        *)
(* checkpoint.  The step rows, which nothing reads back, are left out.     *)
EXTENDS WorkflowRun, FiniteSets

CONSTANTS
    Tasks,            \* the tasks of the workflow
    Deps,             \* Deps[t]: the tasks that t depends on (Conn)
    MaxConcurrency,   \* wf.MaxConcurrency
    MaxSilents,       \* bound: tasks that return the empty result
    MaxTimeouts       \* bound: ends of the caller's context

\* ParseYAML refuses a workflow without tasks, and ValidateDAG accepts only
\* acyclic dependencies on known tasks.
ASSUME DagAssumption ==
    /\ IsFiniteSet(Tasks) /\ Tasks # {}
    /\ Deps \in [Tasks -> SUBSET Tasks]
    /\ \A S \in (SUBSET Tasks) \ {{}} : \E t \in S : Deps[t] \cap S = {}
    /\ MaxConcurrency \in Nat \ {0, 1}
    /\ MaxSilents \in Nat /\ MaxTimeouts \in Nat

\* The checkpoint is the set of completed tasks.
VARIABLES
    loop,        \* where runParallel is
    ready,       \* the ready list
    inDegree,    \* dagNode.inDegree
    active,      \* activeCount
    remaining,   \* totalRemaining
    task,        \* where the goroutine of each task is
    ended,       \* the messages in the channel done
    over,        \* the context has ended
    failed,      \* firstErr is set
    holes        \* history: a resume began from a checkpoint with holes

rowVars  == <<status, checkpoint, holes>>
loopVars == <<loop, active, remaining>>
dagVars  == <<ready, inDegree, results>>
vars == <<rowVars, applied, loopVars, dagVars, task, ended, over, failed, counters>>

Limit == [errors |-> MaxErrors, silents |-> MaxSilents, faults |-> MaxFaults,
          timeouts |-> MaxTimeouts, crashes |-> MaxCrashes, resumes |-> MaxResumes]
Spend(c) == counters[c] < Limit[c] /\ counters' = [counters EXCEPT ![c] = @ + 1]

PCs == {"none", "start", "execute", "enqueue", "fail", "report", "ended"}
InFlight == {t \in Tasks : task[t] \notin {"none", "ended"}}
Executed == {t \in Tasks : applied[t] > 0}

TypeOK ==
    /\ status \in {"none", "running", "done", "failed"} /\ checkpoint \subseteq Tasks
    /\ applied \in [Tasks -> Nat]
    /\ loop \in {"idle", "dispatch", "select", "drain", "wait"}
    /\ active \in 0..MaxConcurrency /\ remaining \in 0..Cardinality(Tasks)
    /\ ready \subseteq Tasks /\ results \subseteq Tasks /\ inDegree \in [Tasks -> Int]
    /\ task \in [Tasks -> PCs] /\ ended \in 0..Cardinality(Tasks)
    /\ over \in BOOLEAN /\ failed \in BOOLEAN /\ holes \in BOOLEAN
    /\ \A c \in DOMAIN Limit : counters[c] \in 0..Limit[c]

Init ==
    /\ status = "none" /\ checkpoint = {} /\ applied = [t \in Tasks |-> 0]
    /\ loop = "idle" /\ active = 0 /\ remaining = 0
    /\ ready = {} /\ inDegree = [t \in Tasks |-> 0] /\ results = {}
    /\ task = [t \in Tasks |-> "none"] /\ ended = 0 /\ over = FALSE /\ failed = FALSE
    /\ holes = FALSE /\ counters = [c \in DOMAIN Limit |-> 0]

-----------------------------------------------------------------------------
(* Start and resume.                                                       *)

\* Faulty: the ready list of a resume does not skip the completed tasks.
ReadyAfter_All(done) == {t \in Tasks : Deps[t] \subseteq done}

\* Faulty: completed dependencies do not count when the ready list is made.
ReadyAfter_Roots(done) == {t \in Tasks \ done : Deps[t] = {}}

(* buildDAG, and for a resume premarkCompletedTasksForResume and           *)
(* recomputeReadyList.                                                     *)
ReadyAfter(done) == {t \in Tasks \ done : Deps[t] \subseteq done}

Run(done) ==
    /\ loop' = "dispatch" /\ active' = 0 /\ remaining' = Cardinality(Tasks \ done)
    /\ ready' = ReadyAfter(done) /\ results' = done
    /\ inDegree' = [t \in Tasks |-> Cardinality(Deps[t] \ done)]
    /\ task' = [t \in Tasks |-> "none"] /\ ended' = 0 /\ over' = FALSE /\ failed' = FALSE

StartRun ==
    /\ status = "none" /\ status' = "running"
    /\ Run({})
    /\ UNCHANGED <<checkpoint, holes, applied, counters>>

(* ResumeWorkflow, when no runner is at work on the run; an error of the   *)
(* store is ignored.                                                       *)
ResumeWorkflow ==
    /\ loop = "idle" /\ status \in {"running", "failed"} /\ Spend("resumes")
    /\ \/ checkpoint # Tasks /\ Run(checkpoint) /\ UNCHANGED status
       \/ /\ checkpoint = Tasks /\ status' \in {status, "done"}
          /\ UNCHANGED <<loopVars, dagVars, task, ended, over, failed>>
    /\ holes' = (holes \/ \E t \in checkpoint : ~(Deps[t] \subseteq checkpoint))
    /\ UNCHANGED <<checkpoint, applied>>

-----------------------------------------------------------------------------
(* The loop of runParallel and runParallelResume.                          *)

HasReady == ready # {} /\ active < MaxConcurrency

(* dispatchReadyTasks: one goroutine per ready task; sem is its token.     *)
Dispatch ==
    /\ loop = "dispatch"
    /\ HasReady /\ Cardinality(InFlight) < MaxConcurrency
    /\ \E t \in ready : ready' = ready \ {t} /\ task' = [task EXCEPT ![t] = "start"]
    /\ active' = active + 1
    /\ UNCHANGED <<rowVars, applied, loop, remaining, inDegree, results, ended, over, failed, counters>>

Dispatched ==
    /\ loop = "dispatch" /\ ~HasReady /\ loop' = "select"
    /\ UNCHANGED <<rowVars, applied, active, remaining, dagVars, task, ended, over, failed, counters>>

TaskDone ==
    /\ loop = "select" /\ ended > 0
    /\ ended' = ended - 1 /\ active' = active - 1 /\ remaining' = remaining - 1
    /\ loop' = IF remaining' = 0 THEN "drain" ELSE "dispatch"
    /\ UNCHANGED <<rowVars, applied, dagVars, task, over, failed, counters>>

ContextDone ==
    /\ loop = "select" /\ over /\ loop' = "drain"
    /\ UNCHANGED <<rowVars, applied, active, remaining, dagVars, task, ended, over, failed, counters>>

\* Faulty: the outcome is written after the goroutines have ended.
Drain_AfterWait ==
    /\ loop = "drain" /\ InFlight = {}
    /\ status' = (IF failed THEN "failed" ELSE "done") /\ loop' = "wait"
    /\ UNCHANGED <<checkpoint, holes, applied, active, remaining, dagVars, task, ended, over, failed, counters>>

\* Faulty: the outcome ignores firstErr.
Drain_AlwaysDone ==
    /\ loop = "drain" /\ status' = "done" /\ loop' = "wait"
    /\ UNCHANGED <<checkpoint, holes, applied, active, remaining, dagVars, task, ended, over, failed, counters>>

(* finalizeParallelStatus writes the outcome before it waits; an error of  *)
(* the store is ignored.                                                   *)
Drain ==
    /\ loop = "drain" /\ loop' = "wait"
    /\ \/ status' = (IF failed THEN "failed" ELSE "done") /\ UNCHANGED counters
       \/ UNCHANGED status /\ Spend("faults")
    /\ UNCHANGED <<checkpoint, holes, applied, active, remaining, dagVars, task, ended, over, failed>>

Wait ==
    /\ loop = "wait" /\ InFlight = {} /\ loop' = "idle"
    /\ UNCHANGED <<rowVars, applied, active, remaining, dagVars, task, ended, over, failed, counters>>

-----------------------------------------------------------------------------
(* The goroutine of a task.                                                *)

At(t, from, to) == task[t] = from /\ task' = [task EXCEPT ![t] = to]

(* executeParallelTask looks at the context and renders the parameters; a  *)
(* template error is also written to the run row at once.                  *)
BeginTask(t) ==
    /\ \/ over /\ At(t, "start", "fail") /\ UNCHANGED <<status, counters>>
       \/ ~over /\ At(t, "start", "execute") /\ UNCHANGED <<status, counters>>
       \/ ~over /\ At(t, "start", "fail") /\ status' = "failed" /\ Spend("errors")
    /\ UNCHANGED <<checkpoint, holes, applied, loopVars, dagVars, ended, over, failed>>

\* Faulty: a task that fails leaves a result.
ExecuteTask_KeepsOutput(t) ==
    /\ \/ /\ At(t, "execute", "enqueue") /\ UNCHANGED counters
          /\ applied' = [applied EXCEPT ![t] = @ + 1]
       \/ At(t, "execute", "fail") /\ UNCHANGED applied /\ IF over THEN UNCHANGED counters ELSE Spend("errors")
    /\ results' = results \cup {t}
    /\ UNCHANGED <<rowVars, loopVars, ready, inDegree, ended, over, failed>>

(* executeStepResult: an empty result gets no entry in the results map.    *)
ExecuteTask(t) ==
    /\ \/ /\ At(t, "execute", "enqueue") /\ applied' = [applied EXCEPT ![t] = @ + 1]
          /\ \/ results' = results \cup {t} /\ UNCHANGED counters
             \/ UNCHANGED results /\ Spend("silents")
       \/ /\ At(t, "execute", "fail") /\ UNCHANGED <<applied, results>>
          /\ IF over THEN UNCHANGED counters ELSE Spend("errors")
    /\ UNCHANGED <<rowVars, loopVars, ready, inDegree, ended, over, failed>>

Dependents(t) == {d \in Tasks : t \in Deps[d]}

Released(t) == {d \in Dependents(t) : inDegree[d] = 1}

(* enqueueDependentsAndSaveCheckpoint, under the lock; the checkpoint      *)
(* lists the tasks with a result.                                          *)
Enqueue(t) ==
    /\ At(t, "enqueue", "report")
    /\ inDegree' = [d \in Tasks |-> IF d \in Dependents(t) THEN inDegree[d] - 1 ELSE inDegree[d]]
    /\ ready' = ready \cup Released(t)
    /\ \/ checkpoint' = results /\ UNCHANGED counters
       \/ UNCHANGED checkpoint /\ Spend("faults")
    /\ UNCHANGED <<status, holes, applied, loopVars, results, ended, over, failed>>

\* Faulty: the first error is kept and the others go on.
FailFast_KeepsContext(t) ==
    /\ At(t, "fail", "report") /\ failed' = TRUE
    /\ UNCHANGED <<rowVars, applied, loopVars, dagVars, ended, over, counters>>

(* errOnce: the first error is kept and ends the context.                  *)
FailFast(t) ==
    /\ At(t, "fail", "report") /\ failed' = TRUE /\ over' = TRUE
    /\ UNCHANGED <<rowVars, applied, loopVars, dagVars, ended, counters>>

Report(t) ==
    /\ At(t, "report", "ended") /\ ended' = ended + 1
    /\ UNCHANGED <<rowVars, applied, loopVars, dagVars, over, failed, counters>>

-----------------------------------------------------------------------------
(* The caller's context ends (ten minutes after the start), or the process *)
(* crashes.                                                                *)

Timeout ==
    /\ loop # "idle" /\ ~over /\ over' = TRUE /\ Spend("timeouts")
    /\ UNCHANGED <<rowVars, applied, loopVars, dagVars, task, ended, failed>>

Crash ==
    /\ loop # "idle" /\ loop' = "idle" /\ Spend("crashes")
    /\ active' = 0 /\ remaining' = 0 /\ ready' = {} /\ inDegree' = [t \in Tasks |-> 0]
    /\ results' = {} /\ task' = [t \in Tasks |-> "none"] /\ ended' = 0
    /\ over' = FALSE /\ failed' = FALSE
    /\ UNCHANGED <<rowVars, applied>>

Loop == Dispatch \/ Dispatched \/ TaskDone \/ ContextDone \/ Drain \/ Wait
Step(t) == BeginTask(t) \/ Enqueue(t) \/ FailFast(t) \/ Report(t)

Next ==
    \/ StartRun \/ ResumeWorkflow \/ Loop \/ Timeout \/ Crash
    \/ \E t \in Tasks : Step(t) \/ ExecuteTask(t)

Spec == Init /\ [][Next]_vars

(* The loop and the goroutines run; an executor may hang.                  *)
FairSpec == Spec /\ WF_vars(Loop) /\ \A t \in Tasks : WF_vars(Step(t))

-----------------------------------------------------------------------------
(* Properties.                                                             *)

(* When a task is executed, the tasks it depends on have been, whatever    *)
(* the tasks returned: "tasks with inDegree==0 that have not yet           *)
(* completed" (recomputeReadyList).  DagRunSpec says so while a run is     *)
(* whole.                                                                  *)
DepsAlwaysFirst ==
    \A t \in Tasks : task[t] = "execute" => Deps[t] \subseteq Executed

(* The checkpoint lists only tasks that were executed, and so were all     *)
(* they depend on.                                                         *)
CheckpointIsHonest ==
    ~holes => \A t \in checkpoint : t \in Executed /\ Deps[t] \subseteq Executed

(* A task that the checkpoint lists is not executed again, unless a resume *)
(* began from a checkpoint with holes.                                     *)
RecordedOnce ==
    [][~holes => \A t \in checkpoint : applied'[t] = applied[t]]_vars

(* The loop is never stuck: it waits for a message only when a task that   *)
(* is at work, or a message in the channel, will wake it; a token of sem   *)
(* is free for every task it hands out; and the channel has room for every *)
(* message of a goroutine.                                                 *)
LoopIsNeverStuck ==
    /\ loop = "select" /\ ~over => active > 0
    /\ loop = "dispatch" /\ HasReady => Cardinality(InFlight) < MaxConcurrency
    /\ ended <= Cardinality(Tasks)

(* A run that is done has executed every task.                             *)
DoneMeansAll == status = "done" => Executed = Tasks

(* The parallel runner implements the abstract run, which is whole until   *)
(* its context ends or it is resumed from a checkpoint with holes.         *)
Abstract == INSTANCE DagRun WITH
    executed <- Executed, outcome <- status, whole <- counters.timeouts = 0 /\ ~holes
DagRunSpec == Abstract!Spec

(* A failed run gets its outcome although a branch hangs, unless a call of *)
(* the store failed or the process died.                                   *)
FailureIsRecorded == failed ~> status # "running" \/ counters.faults + counters.crashes > 0

(* Every run that starts or is resumed ends when the executors return: no  *)
(* finished task leaves the loop asleep with ready tasks.                  *)
EveryRunEnds ==
    (\A t \in Tasks : WF_vars(ExecuteTask(t))) => (loop # "idle" ~> loop = "idle")
=============================================================================
