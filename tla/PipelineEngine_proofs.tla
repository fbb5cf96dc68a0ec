----------------------- MODULE PipelineEngine_proofs -----------------------
(***************************************************************************)
(* Proofs about PipelineEngine, for any sets of definitions, events and    *)
(* goroutines and any bounds: type correctness, the exclusive claim of a   *)
(* pair, the refinement of EventClaim, the order and the record of the     *)
(* steps, the exclusion of cron executions, and that no match is lost.     *)
(*                                                                         *)
(* The argument: every step of the system has one of seven effects on the  *)
(* claims (StepEffect), and each effect preserves the ownership invariant  *)
(* and is a step, or a stutter, of EventClaim.  Since nobody else runs a   *)
(* goroutine's pair, it knows which steps of the pair were acknowledged    *)
(* (Progress).  CronInv and MatchInv stand on the same invariant.          *)
(***************************************************************************)
EXTENDS PipelineEngine, TLAPS

(* What a goroutine holds at each point of its execution.                  *)
WellFormed(t) ==
    /\ t.pc # "idle" => t.evt \in Ids
    /\ t.pc \notin {"idle", "match"} => t.def \in Pipelines
    /\ t.pc \in {"checkpoint", "begin", "invoke", "report"} => t.step <= NumSteps

(* The inductive invariant.  OneOwner is not inductive alone: two          *)
(* goroutines stay apart because a pair leaves "new" by the insert of one  *)
(* of them, which the rows of the two tables record for good.              *)
TypeInv == TypeOK /\ \A w \in Workers : WellFormed(task[w])

Ownership ==
    /\ \A w \in Workers : Owns(w) => Pair(w) \in consumed
    /\ \A w \in Workers : task[w].pc = "create" => runs[Pair(w)] = "none"
    /\ \A w \in Workers : task[w].pc \in RunPCs => runs[Pair(w)] = "start"
    /\ \A x \in Pairs : runs[x] # "none" => x \in consumed
    /\ OneOwner

IInv == TypeInv /\ Ownership

-----------------------------------------------------------------------------
(* Type correctness.                                                       *)

(* A goroutine at rest is well formed.                                     *)
LEMMA IdleOK == Idle \in Task /\ WellFormed(Idle)
BY ConstantsAssumption DEF Idle, Task, PCs, RunPCs, WellFormed

(* A step that replaces the task of one goroutine by a well-formed one     *)
(* keeps all tasks well formed.                                            *)
LEMMA OneTask ==
    ASSUME TypeInv, NEW w \in Workers, NEW t \in Task, WellFormed(t),
           task' = [task EXCEPT ![w] = t]
    PROVE  task' \in [Workers -> Task] /\ \A v \in Workers : WellFormed(task'[v])
BY DEF TypeInv, TypeOK

(* A task is well formed, and names a pair once it is past the match.      *)
LEMMA TaskFacts ==
    ASSUME TypeInv, NEW w \in Workers
    PROVE  /\ task[w] \in Task /\ WellFormed(task[w])
           /\ task[w].pc \notin {"idle", "match"} => Pair(w) \in Pairs
BY DEF TypeInv, TypeOK, WellFormed, Pair, Pairs

(* Return, by which an execution ends.                                     *)
LEMMA ReturnType ==
    ASSUME TypeInv, NEW w \in Workers, task[w].pc \notin {"idle", "match"}, Return(w)
    PROVE  /\ task' \in [Workers -> Task] /\ \A v \in Workers : WellFormed(task'[v])
           /\ defs' = defs /\ mutexes' = mutexes /\ held' \subseteq mutexes
           /\ task'[w].pc \in {"idle", "match"}
           /\ \A v \in Workers \ {w} : task'[v] = task[v]
<1> DEFINE t == IF task[w].src = "event"
                THEN [task[w] EXCEPT !.pc = "match", !.def = None, !.step = 1,
                                     !.attempt = 1, !.err = "none"]
                ELSE Idle
<1>1. t \in Task /\ WellFormed(t) /\ t.pc \in {"idle", "match"}
    <2>1. task[w] \in Task /\ WellFormed(task[w])
        BY TaskFacts
    <2>2. CASE task[w].src = "event"
        <3>1. task[w].evt \in Ids
            BY <2>1 DEF WellFormed
        <3>2. 1 \in 1..(NumSteps + 1) /\ 1 \in 1..MaxAttempts
            BY ConstantsAssumption
        <3>3. t = [task[w] EXCEPT !.pc = "match", !.def = None, !.step = 1,
                                  !.attempt = 1, !.err = "none"]
            BY <2>2
        <3>4. t \in Task
            BY <2>1, <3>2, <3>3 DEF Task, PCs
        <3>5. t.pc = "match" /\ t.evt = task[w].evt
            BY <2>1, <3>3 DEF Task
        <3> QED BY <3>1, <3>4, <3>5 DEF WellFormed
    <2>3. CASE task[w].src # "event"
        BY <2>3, IdleOK DEF Idle
    <2> QED BY <2>2, <2>3
<1>2. task' = [task EXCEPT ![w] = t]
    BY DEF Return
<1> HIDE DEF t
<1>3. task' \in [Workers -> Task] /\ \A v \in Workers : WellFormed(task'[v])
    BY <1>1, <1>2, OneTask
<1>4. task'[w] = t /\ \A v \in Workers \ {w} : task'[v] = task[v]
    BY <1>2 DEF TypeInv, TypeOK
<1> QED BY <1>1, <1>3, <1>4 DEF Return, TypeInv, TypeOK

(* The type of everything but the tasks.                                   *)
RestOK ==
    /\ consumed \subseteq Pairs
    /\ runs \in [Pairs -> RunStatus]
    /\ checkpoint \in [Pairs -> 0..NumSteps]
    /\ stepRow \in [Pairs -> [Steps -> RunStatus]]
    /\ defs \subseteq mutexes /\ mutexes \subseteq Pipelines /\ held \subseteq mutexes
    /\ minted \subseteq LocalIds
    /\ applied \in [Pairs -> [Steps -> Nat]]
    /\ owed \subseteq Pairs
    /\ deliveries \in [BusEvents -> 0..MaxDeliveries]
    /\ crashes \in 0..MaxCrashes /\ reloads \in 0..MaxReloads

TasksOK == task \in [Workers -> Task] /\ \A w \in Workers : WellFormed(task[w])

(* The type invariant in its two parts.                                    *)
LEMMA TypeParts == TypeInv <=> RestOK /\ TasksOK
BY DEF TypeInv, TypeOK, RestOK, TasksOK

(* The same, after a step.                                                 *)
LEMMA TypePartsPrime == TypeInv' <=> RestOK' /\ TasksOK'
BY DEF TypeInv, TypeOK, RestOK, TasksOK

(* The type invariant holds initially.                                     *)
LEMMA InitType == Init => TypeInv
<1> SUFFICES ASSUME Init PROVE TypeInv
    OBVIOUS
<1>1. TasksOK
    BY IdleOK DEF Init, TasksOK
<1>2. RestOK
    BY ConstantsAssumption DEF Init, RestOK, RunStatus
<1> QED BY <1>1, <1>2, TypeParts

(* An outcome that a step or a run may be recorded with.                   *)
LEMMA Outcome ==
    ASSUME TypeInv, NEW w \in Workers
    PROVE  (IF task[w].err = "none" THEN "done" ELSE task[w].err) \in Terminal
BY DEF TypeInv, TypeOK, Task, Terminal

(* The step loop goes on, or ends, with a well-formed task.                *)
LEMMA LoopType ==
    ASSUME TypeInv, NEW w \in Workers, task[w].pc \in {"create", "report"},
           NEW i \in 1..(NumSteps + 1)
    PROVE  LET t == [task[w] EXCEPT !.pc = LoopPC(w, i), !.step = i]
           IN  t \in Task /\ WellFormed(t) /\ t.pc \in RunPCs
<1> DEFINE t == [task[w] EXCEPT !.pc = LoopPC(w, i), !.step = i]
<1>1. task[w] \in Task /\ task[w].evt \in Ids /\ task[w].def \in Pipelines
    BY TaskFacts DEF WellFormed
<1>2. /\ LoopPC(w, i) \in {"finish", "checkpoint", "begin"}
      /\ LoopPC(w, i) # "finish" => i <= NumSteps
    BY ConstantsAssumption DEF LoopPC
<1>3. t \in Task /\ t.pc = LoopPC(w, i) /\ t.step = i /\ t.evt \in Ids /\ t.def \in Pipelines
    BY <1>1, <1>2 DEF Task, PCs, RunPCs
<1>4. WellFormed(t) /\ t.pc \in RunPCs
    BY <1>2, <1>3 DEF WellFormed, RunPCs
<1> QED BY <1>3, <1>4

(* A run between its checkpoints is at a step of its pipeline.             *)
LEMMA StepType ==
    ASSUME TypeInv, NEW w \in Workers,
           task[w].pc \in {"checkpoint", "begin", "invoke", "report"}
    PROVE  task[w].step \in Steps
BY ConstantsAssumption, TaskFacts DEF WellFormed, Task, Steps

(* Every step preserves the type invariant.                                *)
LEMMA TypeStep == TypeInv /\ [Next]_vars => TypeInv'
<1> SUFFICES ASSUME TypeInv, [Next]_vars PROVE RestOK' /\ TasksOK'
    BY TypePartsPrime
<1> USE DEF store, memory, world
<1>r. RestOK /\ TasksOK
    BY TypeParts
<1>1. ASSUME NEW w \in Workers, Execute(w) PROVE RestOK' /\ TasksOK'
    <2>w. /\ task[w] \in Task /\ WellFormed(task[w])
          /\ task[w].pc \notin {"idle", "match"} => Pair(w) \in Pairs
        BY TaskFacts
    <2>t. ASSUME NEW t \in Task, WellFormed(t), task' = [task EXCEPT ![w] = t]
          PROVE  TasksOK'
        BY <2>t, OneTask DEF TasksOK
    <2>r. ASSUME task[w].pc \notin {"idle", "match"}, Return(w)
          PROVE  TasksOK' /\ defs' = defs /\ mutexes' = mutexes /\ held' \subseteq mutexes
        BY <2>r, ReturnType DEF TasksOK
    <2>1. CASE NextMatch(w)
        <3>1. RestOK'
            BY <1>r, <2>1 DEF NextMatch, RestOK
        <3>2. CASE task' = [task EXCEPT ![w] = Idle]
            BY <2>t, <3>1, <3>2, IdleOK
        <3>3. ASSUME NEW p \in task[w].todo,
                     task' = [task EXCEPT ![w].pc = "check", ![w].def = p,
                                          ![w].todo = @ \ {p}]
              PROVE  TasksOK'
            <4> DEFINE t == [task[w] EXCEPT !.pc = "check", !.def = p, !.todo = @ \ {p}]
            <4>1. task' = [task EXCEPT ![w] = t]
                BY <3>3, <1>r DEF TasksOK
            <4>2. p \in Pipelines /\ t \in Task
                BY <2>w DEF Task, PCs
            <4>3. t.pc = "check" /\ t.evt \in Ids /\ t.def \in Pipelines
                BY <2>w, <2>1, <4>2 DEF Task, WellFormed, NextMatch
            <4>4. WellFormed(t)
                BY <4>3 DEF WellFormed
            <4> HIDE DEF t
            <4> QED BY <2>t, <4>1, <4>2, <4>4
        <3> QED BY <2>1, <3>1, <3>2, <3>3 DEF NextMatch
    <2>2. CASE HasConsumed(w)
        <3>1. CASE task' = [task EXCEPT ![w].pc = "record"] /\ UNCHANGED memory
            <4> DEFINE t == [task[w] EXCEPT !.pc = "record"]
            <4>1. task' = [task EXCEPT ![w] = t]
                BY <3>1, <1>r DEF TasksOK
            <4>2. t \in Task /\ WellFormed(t)
                BY <2>w, <2>2 DEF Task, PCs, WellFormed, HasConsumed
            <4> HIDE DEF t
            <4> QED BY <1>r, <2>2, <2>t, <3>1, <4>1, <4>2 DEF HasConsumed, RestOK
        <3>2. CASE Return(w)
            BY <1>r, <2>2, <2>r, <3>2 DEF HasConsumed, RestOK
        <3> QED BY <2>2, <3>1, <3>2 DEF HasConsumed
    <2>3. CASE RecordConsumption(w)
        <3>1. consumed' \subseteq Pairs
            BY <1>r, <2>w, <2>3 DEF RecordConsumption, RestOK
        <3>2. CASE task' = [task EXCEPT ![w].pc = "create"] /\ UNCHANGED memory
            <4> DEFINE t == [task[w] EXCEPT !.pc = "create"]
            <4>1. task' = [task EXCEPT ![w] = t]
                BY <3>2, <1>r DEF TasksOK
            <4>2. t \in Task /\ WellFormed(t)
                BY <2>w, <2>3 DEF Task, PCs, WellFormed, RecordConsumption
            <4> HIDE DEF t
            <4> QED BY <1>r, <2>3, <2>t, <3>1, <3>2, <4>1, <4>2 DEF RecordConsumption, RestOK
        <3>3. CASE Return(w)
            BY <1>r, <2>3, <2>r, <3>1, <3>3 DEF RecordConsumption, RestOK
        <3> QED BY <2>3, <3>2, <3>3 DEF RecordConsumption
    <2>4. CASE CreateRun(w)
        <3>1. runs' \in [Pairs -> RunStatus]
            BY <1>r, <2>w, <2>4 DEF CreateRun, RestOK, RunStatus
        <3>2. CASE task' = [task EXCEPT ![w].pc = LoopPC(w, 1), ![w].step = 1] /\ UNCHANGED memory
            <4> DEFINE t == [task[w] EXCEPT !.pc = LoopPC(w, 1), !.step = 1]
            <4>1. task' = [task EXCEPT ![w] = t]
                BY <3>2, <1>r DEF TasksOK
            <4>2. 1 \in 1..(NumSteps + 1)
                BY ConstantsAssumption
            <4>3. t \in Task /\ WellFormed(t)
                BY <2>4, <4>2, LoopType DEF CreateRun
            <4> HIDE DEF t
            <4> QED BY <1>r, <2>4, <2>t, <3>1, <3>2, <4>1, <4>3 DEF CreateRun, RestOK
        <3>3. CASE Return(w)
            BY <1>r, <2>4, <2>r, <3>1, <3>3 DEF CreateRun, RestOK
        <3> QED BY <2>4, <3>2, <3>3 DEF CreateRun
    <2>5. CASE SaveCheckpoint(w)
        <3>1. Pair(w) \in Pairs /\ task[w].step \in 0..NumSteps
            BY <2>w, <2>5, StepType, ConstantsAssumption DEF SaveCheckpoint, Steps
        <3>2. RestOK'
            BY <1>r, <2>5, <3>1 DEF SaveCheckpoint, RestOK
        <3> DEFINE t == [task[w] EXCEPT !.pc = "begin"]
        <3>3. task' = [task EXCEPT ![w] = t]
            BY <2>5, <1>r DEF TasksOK, SaveCheckpoint
        <3>4. t \in Task /\ WellFormed(t)
            BY <2>w, <2>5 DEF Task, PCs, RunPCs, WellFormed, SaveCheckpoint
        <3> HIDE DEF t
        <3> QED BY <2>t, <3>2, <3>3, <3>4
    <2>6. CASE BeginStep(w)
        <3>1. Pair(w) \in Pairs /\ task[w].step \in Steps
            BY <2>w, <2>6, StepType DEF BeginStep
        <3>2. stepRow' \in [Pairs -> [Steps -> RunStatus]]
            <4>1. CASE UNCHANGED stepRow
                BY <4>1, <1>r DEF RestOK
            <4>2. CASE stepRow' = [stepRow EXCEPT ![Pair(w)][task[w].step] = "start"]
                BY <4>2, <3>1, <1>r DEF RestOK, RunStatus
            <4> QED BY <2>6, <4>1, <4>2 DEF BeginStep
        <3>3. RestOK'
            BY <1>r, <2>6, <3>2 DEF BeginStep, RestOK
        <3>4. CASE task' = [task EXCEPT ![w].pc = "invoke", ![w].attempt = 1]
            <4> DEFINE t == [task[w] EXCEPT !.pc = "invoke", !.attempt = 1]
            <4>1. task' = [task EXCEPT ![w] = t]
                BY <3>4, <1>r DEF TasksOK
            <4>2. 1 \in 1..MaxAttempts
                BY ConstantsAssumption
            <4>3. t \in Task
                BY <2>w, <4>2 DEF Task, PCs, RunPCs
            <4>4. WellFormed(t)
                BY <2>w, <2>6 DEF Task, WellFormed, BeginStep
            <4> HIDE DEF t
            <4> QED BY <2>t, <3>3, <4>1, <4>3, <4>4
        <3>5. ASSUME NEW x \in {"failed", "cancel"},
                     task' = [task EXCEPT ![w].pc = "finish", ![w].err = x]
              PROVE  TasksOK'
            <4> DEFINE t == [task[w] EXCEPT !.pc = "finish", !.err = x]
            <4>1. task' = [task EXCEPT ![w] = t]
                BY <3>5, <1>r DEF TasksOK
            <4>2. t \in Task /\ WellFormed(t)
                BY <2>w, <2>6 DEF Task, PCs, RunPCs, WellFormed, BeginStep
            <4> HIDE DEF t
            <4> QED BY <2>t, <4>1, <4>2
        <3> QED BY <2>6, <3>3, <3>4, <3>5 DEF BeginStep
    <2>7. CASE InvokeOk(w)
        <3>1. Pair(w) \in Pairs /\ task[w].step \in Steps
            BY <2>w, <2>7, StepType DEF InvokeOk
        <3>2. applied' \in [Pairs -> [Steps -> Nat]]
            BY <1>r, <2>7, <3>1 DEF InvokeOk, RestOK
        <3>3. RestOK'
            BY <1>r, <2>7, <3>2 DEF InvokeOk, RestOK
        <3> DEFINE t == [task[w] EXCEPT !.pc = "report"]
        <3>4. task' = [task EXCEPT ![w] = t]
            BY <2>7, <1>r DEF TasksOK, InvokeOk
        <3>5. t \in Task /\ WellFormed(t)
            BY <2>w, <2>7 DEF Task, PCs, RunPCs, WellFormed, InvokeOk
        <3> HIDE DEF t
        <3> QED BY <2>t, <3>3, <3>4, <3>5
    <2>8. CASE InvokeRetry(w)
        <3>1. RestOK'
            BY <1>r, <2>8 DEF InvokeRetry, RestOK
        <3> DEFINE t == [task[w] EXCEPT !.attempt = @ + 1]
        <3>2. task' = [task EXCEPT ![w] = t]
            BY <2>8, <1>r DEF TasksOK, InvokeRetry
        <3>3. t \in Task /\ WellFormed(t)
            BY <2>w, <2>8, ConstantsAssumption DEF Task, PCs, RunPCs, WellFormed, InvokeRetry
        <3> HIDE DEF t
        <3> QED BY <2>t, <3>1, <3>2, <3>3
    <2>9. CASE InvokeGiveUp(w)
        <3>1. RestOK'
            BY <1>r, <2>9 DEF InvokeGiveUp, RestOK
        <3>2. PICK x \in {"failed", "cancel"} :
                  task' = [task EXCEPT ![w].pc = "report", ![w].err = x]
            BY <2>9 DEF InvokeGiveUp
        <3> DEFINE t == [task[w] EXCEPT !.pc = "report", !.err = x]
        <3>3. task' = [task EXCEPT ![w] = t]
            BY <3>2, <1>r DEF TasksOK
        <3>4. t \in Task /\ WellFormed(t)
            BY <2>w, <2>9 DEF Task, PCs, RunPCs, WellFormed, InvokeGiveUp
        <3> HIDE DEF t
        <3> QED BY <2>t, <3>1, <3>3, <3>4
    <2>10. CASE ReportStep(w)
        <3>1. Pair(w) \in Pairs /\ task[w].step \in Steps
            BY <2>w, <2>10, StepType DEF ReportStep
        <3>2. stepRow' \in [Pairs -> [Steps -> RunStatus]]
            <4>1. CASE UNCHANGED stepRow
                BY <4>1, <1>r DEF RestOK
            <4>2. ASSUME NEW o \in Terminal,
                         stepRow' = [stepRow EXCEPT ![Pair(w)][task[w].step] = o]
                  PROVE  stepRow' \in [Pairs -> [Steps -> RunStatus]]
                BY <4>2, <3>1, <1>r DEF RestOK, RunStatus
            <4> QED BY <2>10, <4>1, <4>2, Outcome DEF ReportStep
        <3>3. RestOK'
            BY <1>r, <2>10, <3>2 DEF ReportStep, RestOK
        <3>4. CASE task[w].err = "none"
            <4> DEFINE t == [task[w] EXCEPT !.pc = LoopPC(w, task[w].step + 1),
                                            !.step = task[w].step + 1]
            <4>1. task' = [task EXCEPT ![w] = t]
                BY <2>10, <3>4, <1>r DEF TasksOK, ReportStep
            <4>2. task[w].step + 1 \in 1..(NumSteps + 1)
                BY <3>1, ConstantsAssumption DEF Steps
            <4>3. t \in Task /\ WellFormed(t)
                BY <2>10, <4>2, LoopType DEF ReportStep
            <4> HIDE DEF t
            <4> QED BY <2>t, <3>3, <4>1, <4>3
        <3>5. CASE task[w].err # "none"
            <4> DEFINE t == [task[w] EXCEPT !.pc = "finish"]
            <4>1. task' = [task EXCEPT ![w] = t]
                BY <2>10, <3>5, <1>r DEF TasksOK, ReportStep
            <4>2. t \in Task /\ WellFormed(t)
                BY <2>w, <2>10 DEF Task, PCs, RunPCs, WellFormed, ReportStep
            <4> HIDE DEF t
            <4> QED BY <2>t, <3>3, <4>1, <4>2
        <3> QED BY <3>4, <3>5
    <2>11. CASE FinishRun(w)
        <3>1. Pair(w) \in Pairs /\ Return(w)
            BY <2>w, <2>11 DEF FinishRun
        <3>2. runs' \in [Pairs -> RunStatus]
            <4>1. ASSUME NEW o \in Terminal, runs' = [runs EXCEPT ![Pair(w)] = o]
                  PROVE  runs' \in [Pairs -> RunStatus]
                BY <4>1, <3>1, <1>r DEF RestOK, RunStatus
            <4> QED BY <1>r, <2>11, <4>1, Outcome DEF FinishRun, RestOK
        <3> QED BY <1>r, <2>11, <2>r, <3>1, <3>2 DEF FinishRun, RestOK
    <2> QED BY <1>1, <2>1, <2>2, <2>3, <2>4, <2>5, <2>6, <2>7, <2>8, <2>9, <2>10, <2>11
            DEF Execute
<1>2. ASSUME NEW w \in Workers, ContextEnds(w) PROVE RestOK' /\ TasksOK'
    <2> DEFINE t == [task[w] EXCEPT !.ctx = "dead"]
    <2>1. task' = [task EXCEPT ![w] = t]
        BY <1>2, <1>r DEF TasksOK, ContextEnds
    <2>2. t \in Task /\ WellFormed(t)
        BY <1>2, TaskFacts DEF Task, WellFormed
    <2> HIDE DEF t
    <2> QED BY <1>r, <1>2, <2>1, <2>2, OneTask DEF ContextEnds, RestOK, TasksOK
<1>3. ASSUME NEW w \in Workers, NEW e \in BusEvents, Deliver(w, e)
      PROVE  RestOK' /\ TasksOK'
    <2> DEFINE t == [Idle EXCEPT !.pc = "match", !.evt = e, !.todo = FindByEvent(e)]
    <2>1. FindByEvent(e) \subseteq Pipelines
        BY <1>r DEF FindByEvent, RestOK
    <2>2. t \in Task /\ t.pc = "match" /\ t.evt \in Ids
        BY <2>1, IdleOK DEF Task, PCs, Ids
    <2>3. WellFormed(t)
        BY <2>2 DEF WellFormed
    <2>4. task' = [task EXCEPT ![w] = t]
        BY <1>3 DEF Deliver
    <2> HIDE DEF t
    <2>5. TasksOK'
        BY <2>2, <2>3, <2>4, OneTask DEF TasksOK
    <2>6. FindByEvent(e) \X {e} \subseteq Pairs
        BY <2>1 DEF Pairs, Ids
    <2>7. deliveries' \in [BusEvents -> 0..MaxDeliveries]
        BY <1>r, <1>3, ConstantsAssumption DEF Deliver, RestOK
    <2> QED BY <1>r, <1>3, <2>5, <2>6, <2>7 DEF Deliver, RestOK
<1>4. ASSUME NEW w \in Workers, NEW p \in Pipelines,
             WebhookRequest(w, p) \/ ManualRequest(w, p) \/ CronTick(w, p)
      PROVE  RestOK' /\ TasksOK'
    <2>1. PICK source \in {"webhook", "manual", "cron"} : Launch(w, p, source)
        BY <1>4 DEF WebhookRequest, ManualRequest, CronTick
    <2>2. PICK e \in LocalIds \ minted :
              /\ minted' = minted \cup {e}
              /\ task' = [task EXCEPT ![w] = [Idle EXCEPT !.pc = "check", !.src = source,
                                                          !.evt = e, !.def = p]]
        BY <2>1 DEF Launch
    <2> DEFINE t == [Idle EXCEPT !.pc = "check", !.src = source, !.evt = e, !.def = p]
    <2>3. t \in Task /\ t.pc = "check" /\ t.evt \in Ids /\ t.def \in Pipelines
        BY IdleOK DEF Task, PCs, Ids
    <2>4. WellFormed(t)
        BY <2>3 DEF WellFormed
    <2>5. task' = [task EXCEPT ![w] = t]
        BY <2>2
    <2> HIDE DEF t
    <2>6. TasksOK'
        BY <2>3, <2>4, <2>5, OneTask DEF TasksOK
    <2>7. held' \subseteq mutexes
        BY <1>r, <1>4 DEF WebhookRequest, ManualRequest, CronTick, RestOK
    <2> QED BY <1>r, <2>1, <2>2, <2>6, <2>7 DEF Launch, RestOK
<1>5. ASSUME NEW D \in SUBSET Pipelines, Reload(D) PROVE RestOK' /\ TasksOK'
    BY <1>r, <1>5, ConstantsAssumption DEF Reload, RestOK, TasksOK
<1>6. CASE Crash
    BY <1>r, <1>6, IdleOK, ConstantsAssumption DEF Crash, RestOK, TasksOK
<1>7. CASE UNCHANGED vars
    BY <1>r, <1>7 DEF vars, RestOK, TasksOK
<1> QED BY <1>1, <1>2, <1>3, <1>4, <1>5, <1>6, <1>7 DEF Next

(* However goroutines, faults, crashes and reloads interleave, the tables, *)
(* the engine's memory and every goroutine's locals keep their types.      *)
THEOREM TypeCorrect == Spec => []TypeOK
<1>1. Init => TypeInv
    BY InitType
<1>2. TypeInv /\ [Next]_vars => TypeInv'
    BY TypeStep
<1>3. TypeInv => TypeOK
    BY DEF TypeInv
<1> QED BY <1>1, <1>2, <1>3, PTL DEF Spec

-----------------------------------------------------------------------------
(* What a step of one goroutine does to the claims.                        *)

Others(w) == \A v \in Workers \ {w} : task'[v] = task[v]

\* It owns nothing before and after; an insert may have claimed a pair in vain.
Outside(w) ==
    /\ ~Owns(w) /\ ~Owns(w)' /\ runs' = runs
    /\ consumed' = consumed \/ \E x \in Pairs : consumed' = consumed \cup {x}

\* It wins a pair.
Winning(w) ==
    /\ task[w].pc = "record" /\ task'[w].pc = "create"
    /\ Pair(w)' = Pair(w) /\ Pair(w) \in Pairs \ consumed
    /\ consumed' = consumed \cup {Pair(w)} /\ runs' = runs

\* It starts the run of its pair, or gives the pair up, or both.
Starting(w) ==
    /\ task[w].pc = "create" /\ Pair(w) \in Pairs /\ consumed' = consumed
    /\ \/ runs' = runs /\ ~Owns(w)'
       \/ /\ runs' = [runs EXCEPT ![Pair(w)] = "start"]
          /\ ~Owns(w)' \/ (task'[w].pc \in RunPCs /\ Pair(w)' = Pair(w))

\* It goes on with what it was doing, for the same pair.
Working(w) ==
    /\ consumed' = consumed /\ runs' = runs /\ Pair(w)' = Pair(w)
    /\ task'[w].pc = task[w].pc \/ (task[w].pc \in RunPCs /\ task'[w].pc \in RunPCs)

\* It returns from the run, which has an outcome unless the update failed.
Ending(w) ==
    /\ task[w].pc \in RunPCs /\ Pair(w) \in Pairs /\ ~Owns(w)' /\ consumed' = consumed
    /\ runs' = runs \/ \E o \in Terminal : runs' = [runs EXCEPT ![Pair(w)] = o]

Effect(w) ==
    Others(w) /\ (Outside(w) \/ Winning(w) \/ Starting(w) \/ Working(w) \/ Ending(w))

\* No goroutine's pair or place changes, or all of them lose theirs.
NoEffect ==
    /\ consumed' = consumed /\ runs' = runs
    /\ task' = task \/ \A w \in Workers : ~Owns(w)'

\* A goroutine that leaves an execution by Return owns nothing afterwards.
LEMMA ReturnFrees ==
    ASSUME TypeInv, NEW w \in Workers, task[w].pc \notin {"idle", "match"}, Return(w)
    PROVE  Others(w) /\ ~Owns(w)'
BY ReturnType DEF Others, Owns, RunPCs

(* A step that only changes fields of one task which no claim depends on.  *)
LEMMA FieldsOnly ==
    ASSUME TypeInv, NEW w \in Workers, NEW t,
           task' = [task EXCEPT ![w] = t]
    PROVE  Others(w) /\ task'[w] = t
BY DEF TypeInv, TypeOK, Others

(* A step of a goroutine has one of the listed effects on claims and runs. *)
LEMMA ExecuteEffect ==
    ASSUME TypeInv, NEW w \in Workers, Execute(w)
    PROVE  Effect(w)
<1> USE DEF store, memory, world
<1>w. /\ task[w] \in Task /\ WellFormed(task[w]) /\ task \in [Workers -> Task]
      /\ task[w].pc \notin {"idle", "match"} => Pair(w) \in Pairs
    BY TaskFacts DEF TypeInv, TypeOK
<1>1. CASE NextMatch(w)
    <2>1. Others(w) /\ task'[w].pc \in {"idle", "check"}
        <3>1. CASE task' = [task EXCEPT ![w] = Idle]
            BY <1>w, <3>1 DEF Others, Idle
        <3>2. ASSUME NEW p \in task[w].todo,
                     task' = [task EXCEPT ![w].pc = "check", ![w].def = p,
                                          ![w].todo = @ \ {p}]
              PROVE  Others(w) /\ task'[w].pc = "check"
            BY <1>w, <3>2 DEF Others, Task
        <3> QED BY <1>1, <3>1, <3>2 DEF NextMatch
    <2> QED BY <1>1, <2>1 DEF NextMatch, Effect, Outside, Owns, RunPCs
<1>2. CASE HasConsumed(w)
    <2>1. Others(w) /\ ~Owns(w)'
        <3>1. CASE task' = [task EXCEPT ![w].pc = "record"]
            BY <1>w, <3>1 DEF Others, Owns, RunPCs, Task
        <3>2. CASE Return(w)
            BY <1>2, <3>2, ReturnFrees DEF HasConsumed
        <3> QED BY <1>2, <3>1, <3>2 DEF HasConsumed
    <2> QED BY <1>2, <2>1 DEF HasConsumed, Effect, Outside, Owns, RunPCs
<1>3. CASE RecordConsumption(w)
    <2>1. CASE /\ Pair(w) \notin consumed /\ consumed' = consumed \cup {Pair(w)}
               /\ task' = [task EXCEPT ![w].pc = "create"]
        <3>1. Others(w) /\ task'[w].pc = "create" /\ Pair(w)' = Pair(w)
            BY <1>w, <2>1 DEF Others, Pair, Task
        <3> QED BY <1>3, <1>w, <2>1, <3>1 DEF RecordConsumption, Effect, Winning
    <2>2. CASE Return(w) /\ (consumed' = consumed \/ consumed' = consumed \cup {Pair(w)})
        <3>1. Others(w) /\ ~Owns(w)'
            BY <1>3, <2>2, ReturnFrees DEF RecordConsumption
        <3>2. \E x \in Pairs : consumed' = consumed \/ consumed' = consumed \cup {x}
            BY <1>3, <1>w, <2>2 DEF RecordConsumption
        <3> QED BY <1>3, <3>1, <3>2 DEF RecordConsumption, Effect, Outside, Owns, RunPCs
    <2> QED BY <1>3, <2>1, <2>2 DEF RecordConsumption
<1>4. CASE CreateRun(w)
    <2>1. CASE /\ runs' = [runs EXCEPT ![Pair(w)] = "start"]
               /\ task' = [task EXCEPT ![w].pc = LoopPC(w, 1), ![w].step = 1]
        <3>1. Others(w) /\ task'[w].pc = LoopPC(w, 1) /\ Pair(w)' = Pair(w)
            BY <1>w, <2>1 DEF Others, Pair, Task
        <3>2. LoopPC(w, 1) \in RunPCs
            BY DEF LoopPC, RunPCs
        <3> QED BY <1>4, <1>w, <2>1, <3>1, <3>2 DEF CreateRun, Effect, Starting
    <2>2. CASE Return(w)
        <3>1. Others(w) /\ ~Owns(w)'
            BY <1>4, <2>2, ReturnFrees DEF CreateRun
        <3> QED BY <1>4, <1>w, <3>1, <2>2 DEF CreateRun, Effect, Starting
    <2> QED BY <1>4, <2>1, <2>2 DEF CreateRun
<1>5. ASSUME task[w].pc \in RunPCs, Others(w), task'[w].pc \in RunPCs, Pair(w)' = Pair(w),
             consumed' = consumed, runs' = runs
      PROVE  Effect(w)
    BY <1>5 DEF Effect, Working
<1>6. CASE SaveCheckpoint(w)
    <2>1. Others(w) /\ task'[w].pc = "begin" /\ Pair(w)' = Pair(w)
        BY <1>w, <1>6 DEF SaveCheckpoint, Others, Pair, Task
    <2> QED BY <1>5, <1>6, <2>1 DEF SaveCheckpoint, RunPCs
<1>7. CASE BeginStep(w)
    <2>1. Others(w) /\ task'[w].pc \in {"invoke", "finish"} /\ Pair(w)' = Pair(w)
        BY <1>w, <1>7 DEF BeginStep, Others, Pair, Task
    <2> QED BY <1>5, <1>7, <2>1 DEF BeginStep, RunPCs
<1>8. CASE InvokeOk(w)
    <2>1. Others(w) /\ task'[w].pc = "report" /\ Pair(w)' = Pair(w)
        BY <1>w, <1>8 DEF InvokeOk, Others, Pair, Task
    <2> QED BY <1>5, <1>8, <2>1 DEF InvokeOk, RunPCs
<1>9. CASE InvokeRetry(w)
    <2>1. Others(w) /\ task'[w].pc = "invoke" /\ Pair(w)' = Pair(w)
        BY <1>w, <1>9 DEF InvokeRetry, Others, Pair, Task
    <2> QED BY <1>5, <1>9, <2>1 DEF InvokeRetry, RunPCs
<1>10. CASE InvokeGiveUp(w)
    <2>1. Others(w) /\ task'[w].pc = "report" /\ Pair(w)' = Pair(w)
        BY <1>w, <1>10 DEF InvokeGiveUp, Others, Pair, Task
    <2> QED BY <1>5, <1>10, <2>1 DEF InvokeGiveUp, RunPCs
<1>11. CASE ReportStep(w)
    <2>1. LoopPC(w, task[w].step + 1) \in RunPCs
        BY DEF LoopPC, RunPCs
    <2>2. Others(w) /\ task'[w].pc \in RunPCs /\ Pair(w)' = Pair(w)
        BY <1>w, <1>11, <2>1 DEF ReportStep, Others, Pair, Task, RunPCs
    <2> QED BY <1>5, <1>11, <2>2 DEF ReportStep, RunPCs
<1>12. CASE FinishRun(w)
    <2>1. Others(w) /\ ~Owns(w)'
        BY <1>12, ReturnFrees DEF FinishRun
    <2>2. runs' = runs \/ \E o \in Terminal : runs' = [runs EXCEPT ![Pair(w)] = o]
        BY <1>12, Outcome DEF FinishRun
    <2> QED BY <1>12, <1>w, <2>1, <2>2 DEF FinishRun, Effect, Ending, RunPCs
<1> QED BY <1>1, <1>2, <1>3, <1>4, <1>6, <1>7, <1>8, <1>9, <1>10, <1>11, <1>12 DEF Execute

(* So has every step of the engine, or it has no effect on them.           *)
LEMMA StepEffect ==
    ASSUME TypeInv, [Next]_vars
    PROVE  NoEffect \/ \E w \in Workers : Effect(w)
<1> USE DEF store, memory, world
<1>1. ASSUME NEW w \in Workers, Execute(w) PROVE Effect(w)
    BY <1>1, ExecuteEffect
<1>2. ASSUME NEW w \in Workers, ContextEnds(w) PROVE Effect(w)
    <2>1. Others(w) /\ task'[w].pc = task[w].pc /\ Pair(w)' = Pair(w)
        BY <1>2 DEF ContextEnds, Others, Pair, TypeInv, TypeOK, Task
    <2> QED BY <1>2, <2>1 DEF ContextEnds, Effect, Working
<1>3. ASSUME NEW w \in Workers, NEW e \in BusEvents, Deliver(w, e) PROVE Effect(w)
    <2>1. Others(w) /\ task'[w].pc = "match"
        BY <1>3 DEF Deliver, Others, TypeInv, TypeOK, Idle
    <2> QED BY <1>3, <2>1 DEF Deliver, Effect, Outside, Owns, RunPCs
<1>4. ASSUME NEW w \in Workers, NEW p \in Pipelines,
             WebhookRequest(w, p) \/ ManualRequest(w, p) \/ CronTick(w, p)
      PROVE  Effect(w)
    <2>1. PICK source \in {"webhook", "manual", "cron"} : Launch(w, p, source)
        BY <1>4 DEF WebhookRequest, ManualRequest, CronTick
    <2>2. Others(w) /\ task'[w].pc = "check"
        BY <2>1 DEF Launch, Others, TypeInv, TypeOK, Idle
    <2> QED BY <2>1, <2>2 DEF Launch, Effect, Outside, Owns, RunPCs
<1>5. ASSUME NEW D \in SUBSET Pipelines, Reload(D) PROVE NoEffect
    BY <1>5 DEF Reload, NoEffect
<1>6. CASE Crash
    BY <1>6 DEF Crash, NoEffect, Owns, RunPCs, Idle
<1>7. CASE UNCHANGED vars
    BY <1>7 DEF vars, NoEffect
<1> QED BY <1>1, <1>2, <1>3, <1>4, <1>5, <1>6, <1>7 DEF Next

-----------------------------------------------------------------------------
(* The claims are exclusive.                                               *)

(* Nobody owns a pair initially.                                           *)
LEMMA InitOwnership == Init => Ownership
BY DEF Init, Ownership, OneOwner, Owns, RunPCs, Idle

(* The listed effects keep the owners exclusive.                           *)
LEMMA EffectOwnership ==
    ASSUME TypeInv, TypeInv', Ownership, NEW w \in Workers, Effect(w)
    PROVE  Ownership'
<1>o. /\ \A v \in Workers \ {w} : /\ task'[v].pc = task[v].pc
                                  /\ Pair(v)' = Pair(v) /\ (Owns(v)' <=> Owns(v))
      /\ \A v \in Workers : Owns(v) => Pair(v) \in Pairs
      /\ \A v \in Workers : Owns(v)' => Pair(v)' \in Pairs
    <2>1. \A v \in Workers \ {w} : task'[v] = task[v]
        BY DEF Effect, Others
    <2>2. ASSUME NEW v \in Workers, Owns(v) PROVE Pair(v) \in Pairs
        BY <2>2, TaskFacts DEF Owns, RunPCs
    <2>3. ASSUME NEW v \in Workers, Owns(v)' PROVE Pair(v)' \in Pairs
        BY <2>3 DEF Owns, RunPCs, TypeInv, TypeOK, WellFormed, Pair, Pairs
    <2> QED BY <2>1, <2>2, <2>3 DEF Pair, Owns
<1>t. runs \in [Pairs -> RunStatus] /\ consumed \subseteq Pairs
    BY DEF TypeInv, TypeOK
<1>p. \A v \in Workers : task[v].pc = "create" => Owns(v) /\ task[v].pc \notin RunPCs
    BY DEF Owns, RunPCs
<1>q. \A v \in Workers : task[v].pc \in RunPCs => Owns(v)
    BY DEF Owns
<1>r. /\ \A v \in Workers : task'[v].pc = "create" => Owns(v)' /\ task'[v].pc \notin RunPCs
      /\ \A v \in Workers : task'[v].pc \in RunPCs => Owns(v)'
      /\ \A v \in Workers : Owns(v)' => task'[v].pc = "create" \/ task'[v].pc \in RunPCs
    BY DEF Owns, RunPCs
<1>s. \A v \in Workers \ {w} : Owns(v) /\ Owns(w) => Pair(v) # Pair(w)
    BY DEF Ownership, OneOwner
<1>1. CASE Outside(w)
    <2>1. consumed \subseteq consumed' /\ runs' = runs /\ ~Owns(w)'
        BY <1>1 DEF Outside
    <2> QED BY <1>o, <1>p, <1>q, <1>r, <2>1 DEF Ownership, OneOwner
<1>2. CASE Winning(w)
    <2>1. \A v \in Workers \ {w} : Owns(v) => Pair(v) # Pair(w)
        BY <1>2 DEF Winning, Ownership
    <2>2. runs[Pair(w)] = "none"
        BY <1>2 DEF Winning, Ownership
    <2> QED BY <1>2, <1>o, <1>p, <1>q, <1>r, <2>1, <2>2 DEF Winning, Ownership, OneOwner
<1>3. CASE Starting(w)
    <2>1. Owns(w) /\ Pair(w) \in consumed
        BY <1>3, <1>p DEF Starting, Ownership
    <2>2. CASE runs' = runs /\ ~Owns(w)'
        BY <1>3, <2>2, <1>o, <1>p, <1>q, <1>r DEF Starting, Ownership, OneOwner
    <2>3. CASE runs' = [runs EXCEPT ![Pair(w)] = "start"]
        <3>1. /\ runs'[Pair(w)] = "start"
              /\ \A x \in Pairs \ {Pair(w)} : runs'[x] = runs[x]
            BY <1>3, <1>t, <2>3 DEF Starting
        <3> QED BY <1>3, <2>1, <3>1, <1>o, <1>p, <1>q, <1>r, <1>s
                DEF Starting, Ownership, OneOwner
    <2> QED BY <1>3, <2>2, <2>3 DEF Starting
<1>4. CASE Working(w)
    <2>1. /\ Owns(w)' <=> Owns(w)
          /\ task'[w].pc = "create" <=> task[w].pc = "create"
          /\ task'[w].pc \in RunPCs <=> task[w].pc \in RunPCs
        BY <1>4 DEF Working, Owns, RunPCs
    <2> QED BY <1>4, <2>1, <1>o, <1>p, <1>q, <1>r DEF Working, Ownership, OneOwner
<1>5. CASE Ending(w)
    <2>1. Owns(w) /\ Pair(w) \in consumed
        BY <1>5, <1>q DEF Ending, Ownership
    <2>2. \A x \in Pairs \ {Pair(w)} : runs'[x] = runs[x]
        BY <1>5, <1>t DEF Ending
    <2> QED BY <1>5, <2>1, <2>2, <1>o, <1>p, <1>q, <1>r, <1>s
            DEF Ending, Ownership, OneOwner
<1> QED BY <1>1, <1>2, <1>3, <1>4, <1>5 DEF Effect

(* Every step preserves the invariant.                                     *)
LEMMA Inductive == IInv /\ [Next]_vars => IInv'
<1> SUFFICES ASSUME IInv, [Next]_vars PROVE IInv'
    OBVIOUS
<1>1. TypeInv'
    BY TypeStep DEF IInv
<1>2. CASE NoEffect
    <2>1. CASE task' = task
        BY <1>1, <1>2, <2>1 DEF IInv, Ownership, OneOwner, NoEffect, Owns, Pair
    <2>2. CASE \A w \in Workers : ~Owns(w)'
        BY <1>1, <1>2, <2>2 DEF IInv, Ownership, OneOwner, NoEffect, Owns
    <2> QED BY <1>2, <2>1, <2>2 DEF NoEffect
<1>3. ASSUME NEW w \in Workers, Effect(w) PROVE Ownership'
    BY <1>1, <1>3, EffectOwnership DEF IInv
<1> QED BY <1>1, <1>2, <1>3, StepEffect DEF IInv

(* The invariant holds throughout.                                         *)
LEMMA Invariant == Spec => []IInv
<1>1. Init => IInv
    BY InitType, InitOwnership DEF IInv
<1> QED BY <1>1, Inductive, PTL DEF Spec

(* No two goroutines ever execute the same pair, whatever is redelivered,  *)
(* fails, times out or crashes: the unique index of event_consumptions     *)
(* makes the claim of checkDedupAndRecord exclusive.                       *)
THEOREM ExclusiveExecution == Spec => []OneOwner
<1>1. IInv => OneOwner
    BY DEF IInv, Ownership
<1> QED BY <1>1, Invariant, PTL

(* While a goroutine runs steps, the pair stays claimed and its run row    *)
(* stays in the Start state: no other goroutine settles the run.           *)
THEOREM RunningIsRecorded == Spec => []OwnerRuns
<1>1. IInv => OwnerRuns
    BY DEF IInv, Ownership, OwnerRuns, Owns
<1> QED BY <1>1, Invariant, PTL

-----------------------------------------------------------------------------
(* The engine implements EventClaim.                                       *)

Stages == [x \in Pairs |-> Stage(x)]

(* The initial states are initial states of the claims.                    *)
LEMMA InitClaims == IInv /\ Init => Claims!Init
BY DEF Init, Claims!Init, Stage

(* A step that moves one pair from one stage to another.                   *)
LEMMA OnePairMoves ==
    ASSUME NEW x \in Pairs, NEW s, Stage(x)' = s,
           \A y \in Pairs \ {x} : Stage(y)' = Stage(y)
    PROVE  Stages' = [Stages EXCEPT ![x] = s]
BY DEF Stages

(* One pair that moves one stage on makes a step of the claims.            *)
LEMMA ClaimsSteps ==
    ASSUME NEW x \in Pairs, NEW s, Stages' = [Stages EXCEPT ![x] = s],
           \/ Stage(x) = "new" /\ s = "claimed"
           \/ Stage(x) = "claimed" /\ s = "running"
           \/ Stage(x) = "running" /\ s \in Terminal
    PROVE  Claims!Next
<1>1. Stages[x] = Stage(x)
    BY DEF Stages
<1>2. CASE Stage(x) = "new" /\ s = "claimed"
    <2>1. Claims!Claim(x)
        BY <1>1, <1>2 DEF Claims!Claim, Stages
    <2> QED BY <2>1 DEF Claims!Next
<1>3. CASE Stage(x) = "claimed" /\ s = "running"
    <2>1. Claims!Start(x)
        BY <1>1, <1>3 DEF Claims!Start, Stages
    <2> QED BY <2>1 DEF Claims!Next
<1>4. CASE Stage(x) = "running" /\ s \in Terminal
    <2>1. Claims!Settle(x)
        BY <1>1, <1>4 DEF Claims!Settle, Claims!Outcomes, Terminal, Stages
    <2> QED BY <2>1 DEF Claims!Next
<1> QED BY <1>2, <1>3, <1>4

(* The listed effects are steps of the claims, or stutters.                *)
LEMMA EffectClaims ==
    ASSUME IInv, NEW w \in Workers, Effect(w)
    PROVE  Claims!Next \/ Stages' = Stages
<1>t. runs \in [Pairs -> RunStatus] /\ consumed \subseteq Pairs
    BY DEF IInv, TypeInv, TypeOK
<1>1. CASE runs' = runs /\ consumed' = consumed
    BY <1>1 DEF Stages, Stage
<1>2. ASSUME NEW x \in Pairs, runs' = runs, consumed' = consumed \cup {x}
      PROVE  Claims!Next \/ Stages' = Stages
    <2>1. CASE x \in consumed
        BY <1>2, <2>1 DEF Stages, Stage
    <2>2. CASE x \notin consumed
        <3>1. runs[x] = "none"
            BY <2>2 DEF IInv, Ownership
        <3>2. Stage(x) = "new" /\ Stage(x)' = "claimed"
            BY <1>2, <2>2, <3>1 DEF Stage
        <3>3. \A y \in Pairs \ {x} : Stage(y)' = Stage(y)
            BY <1>2 DEF Stage
        <3> QED BY <3>2, <3>3, OnePairMoves, ClaimsSteps
    <2> QED BY <2>1, <2>2
<1>3. CASE Starting(w) /\ runs' = [runs EXCEPT ![Pair(w)] = "start"]
    <2>1. /\ Pair(w) \in Pairs /\ Pair(w) \in consumed /\ runs[Pair(w)] = "none"
          /\ consumed' = consumed
        BY <1>3 DEF Starting, IInv, Ownership, Owns
    <2>2. PICK x \in Pairs : x = Pair(w)
        BY <2>1
    <2>3. Stage(x) = "claimed" /\ Stage(x)' = "running"
        BY <1>3, <1>t, <2>1, <2>2 DEF Stage
    <2>4. \A y \in Pairs \ {x} : Stage(y)' = Stage(y)
        BY <1>3, <1>t, <2>1, <2>2 DEF Stage
    <2> QED BY <2>3, <2>4, OnePairMoves, ClaimsSteps
<1>4. ASSUME Ending(w), NEW o \in Terminal, runs' = [runs EXCEPT ![Pair(w)] = o]
      PROVE  Claims!Next
    <2>1. Pair(w) \in Pairs /\ runs[Pair(w)] = "start" /\ consumed' = consumed
        BY <1>4 DEF Ending, IInv, Ownership
    <2>2. PICK x \in Pairs : x = Pair(w)
        BY <2>1
    <2>3. Stage(x) = "running" /\ Stage(x)' = o
        BY <1>4, <1>t, <2>1, <2>2 DEF Stage, Terminal
    <2>4. \A y \in Pairs \ {x} : Stage(y)' = Stage(y)
        BY <1>4, <1>t, <2>1, <2>2 DEF Stage
    <2> QED BY <2>3, <2>4, OnePairMoves, ClaimsSteps
<1>5. CASE Outside(w)
    BY <1>1, <1>2, <1>5 DEF Outside
<1>6. CASE Winning(w)
    BY <1>2, <1>6 DEF Winning
<1>7. CASE Starting(w)
    BY <1>1, <1>3, <1>7 DEF Starting
<1>8. CASE Working(w)
    BY <1>1, <1>8 DEF Working
<1>9. CASE Ending(w)
    BY <1>1, <1>4, <1>9 DEF Ending
<1> QED BY <1>5, <1>6, <1>7, <1>8, <1>9 DEF Effect

(* Every step of the engine is a step of the claims, or a stutter.         *)
LEMMA StepClaims == IInv /\ [Next]_vars => [Claims!Next]_Stages
<1> SUFFICES ASSUME IInv, [Next]_vars PROVE Claims!Next \/ Stages' = Stages
    OBVIOUS
<1>1. CASE NoEffect
    BY <1>1 DEF NoEffect, Stages, Stage
<1>2. ASSUME NEW w \in Workers, Effect(w) PROVE Claims!Next \/ Stages' = Stages
    BY <1>2, EffectClaims
<1> QED BY <1>1, <1>2, StepEffect DEF IInv

(* The engine processes every pair at most once: it claims the pair, then  *)
(* starts its run, then settles it, each at most once and in this order.   *)
THEOREM ImplementsClaim == Spec => ClaimSpec
<1>1. Init => Claims!Init
    BY InitClaims, InitType, InitOwnership DEF IInv
<1>2. IInv /\ [Next]_vars => [Claims!Next]_[x \in Pairs |-> Stage(x)]
    BY StepClaims DEF Stages
<1> QED BY <1>1, <1>2, Invariant, PTL DEF Spec, ClaimSpec, Claims!Spec

-----------------------------------------------------------------------------
(* The steps of a pipeline.                                                *)

\* The steps of its pair that a running goroutine has behind it.
Behind(w) == IF task[w].pc = "report" /\ task[w].err = "none"
             THEN task[w].step ELSE task[w].step - 1

StepsDone(w) ==
    /\ \A i \in Steps : applied[Pair(w)][i] = IF i <= Behind(w) THEN 1 ELSE 0
    /\ task[w].pc = "finish" => (task[w].err = "none" <=> task[w].step > NumSteps)

(* What the three properties on steps need: a running goroutine knows      *)
(* exactly which steps of its pair were acknowledged, because a pair       *)
(* without a run has none and nobody else runs the pair.                   *)
Progress ==
    /\ \A w \in Workers : task[w].pc \in RunPCs => StepsDone(w)
    /\ \A w \in Workers : task[w].pc \notin {"report", "finish"} => task[w].err = "none"
    /\ \A x \in Pairs : runs[x] = "none" => \A i \in Steps : applied[x][i] = 0
    /\ StepsOnceInOrder
    /\ CheckpointCovers
    /\ RowsTellTheTruth

(* The progress of the others is not disturbed by a goroutine that invokes *)
(* nothing, or only for the pair it runs.                                  *)
LEMMA OthersProgress ==
    ASSUME IInv, Progress, NEW w \in Workers, Others(w),
           \/ applied' = applied
           \/ /\ task[w].pc \in RunPCs
              /\ \A x \in Pairs \ {Pair(w)} : applied'[x] = applied[x]
    PROVE  \A v \in Workers \ {w} :
              /\ task'[v].pc \in RunPCs => StepsDone(v)'
              /\ task'[v].pc \notin {"report", "finish"} => task'[v].err = "none"
<1> SUFFICES ASSUME NEW v \in Workers \ {w}
             PROVE  /\ task'[v].pc \in RunPCs => StepsDone(v)'
                    /\ task'[v].pc \notin {"report", "finish"} => task'[v].err = "none"
    OBVIOUS
<1>1. task'[v] = task[v]
    BY DEF Others
<1>2. ASSUME task[v].pc \in RunPCs PROVE applied'[Pair(v)] = applied[Pair(v)]
    <2>1. CASE applied' = applied
        BY <2>1
    <2>2. CASE /\ task[w].pc \in RunPCs
               /\ \A x \in Pairs \ {Pair(w)} : applied'[x] = applied[x]
        <3>1. Pair(v) # Pair(w)
            BY <1>2, <2>2 DEF IInv, Ownership, OneOwner, Owns
        <3>2. Pair(v) \in Pairs
            BY <1>2, TaskFacts DEF IInv, RunPCs
        <3> QED BY <2>2, <3>1, <3>2
    <2> QED BY <2>1, <2>2
<1> QED BY <1>1, <1>2 DEF Progress, StepsDone, Behind, Pair

(* A step that leaves the invocations and the rows of steps alone.         *)
LEMMA QuietProgress ==
    ASSUME IInv, Progress, NEW w \in Workers, Others(w), UNCHANGED <<applied, stepRow>>,
           task'[w].pc \in RunPCs => StepsDone(w)',
           task'[w].pc \notin {"report", "finish"} => task'[w].err = "none",
           \A x \in Pairs : runs'[x] = "none" => runs[x] = "none",
           \A x \in Pairs : runs'[x] \in {"failed", "cancel"} =>
              runs[x] \in {"failed", "cancel"} \/ \E i \in Steps : applied[x][i] = 0,
           CheckpointCovers'
    PROVE  Progress'
<1>1. \A v \in Workers : /\ task'[v].pc \in RunPCs => StepsDone(v)'
                         /\ task'[v].pc \notin {"report", "finish"} => task'[v].err = "none"
    BY OthersProgress
<1>2. StepsOnceInOrder' /\ RowsTellTheTruth'
    BY DEF Progress, StepsOnceInOrder, RowsTellTheTruth
<1> QED BY <1>1, <1>2 DEF Progress

(* A goroutine that returns from an execution has no run and no error.     *)
LEMMA ReturnClears ==
    ASSUME TypeInv, NEW w \in Workers, task[w].pc \notin {"idle", "match"}, Return(w)
    PROVE  Others(w) /\ task'[w].pc \in {"idle", "match"} /\ task'[w].err = "none"
<1>1. task'[w].err = "none"
    <2>1. task[w] \in Task /\ task \in [Workers -> Task]
        BY DEF TypeInv, TypeOK
    <2>2. CASE task[w].src = "event"
        <3>1. task'[w] = [task[w] EXCEPT !.pc = "match", !.def = None, !.step = 1,
                                         !.attempt = 1, !.err = "none"]
            BY <2>1, <2>2 DEF Return
        <3> QED BY <2>1, <3>1 DEF Task
    <2>3. CASE task[w].src # "event"
        BY <2>1, <2>3 DEF Return, Idle
    <2> QED BY <2>2, <2>3
<1> QED BY <1>1, ReturnType DEF Others

(* Every step keeps the progress of the runs.                              *)
LEMMA ProgressStep ==
    ASSUME IInv, Progress, [Next]_vars
    PROVE  Progress'
<1> USE DEF store, memory, world
<1>i. /\ TypeInv /\ task \in [Workers -> Task] /\ runs \in [Pairs -> RunStatus]
      /\ applied \in [Pairs -> [Steps -> Nat]] /\ stepRow \in [Pairs -> [Steps -> RunStatus]]
      /\ checkpoint \in [Pairs -> 0..NumSteps] /\ NumSteps \in Nat
    BY ConstantsAssumption DEF IInv, TypeInv, TypeOK
<1>c. CheckpointCovers
    BY DEF Progress
<1>r. \A p \in RunPCs : p \notin {"idle", "match", "check", "record", "create", "load"}
    BY DEF RunPCs
<1>1. ASSUME NEW w \in Workers, Execute(w) PROVE Progress'
    <2>w. /\ task[w] \in Task /\ WellFormed(task[w])
          /\ task[w].pc \notin {"idle", "match"} => Pair(w) \in Pairs
        BY <1>i, TaskFacts
    <2>e. task[w].pc \notin {"report", "finish"} => task[w].err = "none"
        BY DEF Progress
    <2>d. task[w].pc \in RunPCs => StepsDone(w) /\ runs[Pair(w)] = "start"
        BY DEF Progress, IInv, Ownership
    <2>1. CASE NextMatch(w)
        <3>1. Others(w) /\ task'[w].pc \in {"idle", "check"} /\ task'[w].err = "none"
            <4>1. CASE task' = [task EXCEPT ![w] = Idle]
                BY <1>i, <4>1 DEF Others, Idle
            <4>2. ASSUME NEW p \in task[w].todo,
                         task' = [task EXCEPT ![w].pc = "check", ![w].def = p,
                                              ![w].todo = @ \ {p}]
                  PROVE  Others(w) /\ task'[w].pc = "check" /\ task'[w].err = "none"
                <5>1. /\ Others(w)
                      /\ task'[w] = [task[w] EXCEPT !.pc = "check", !.def = p, !.todo = @ \ {p}]
                    BY <1>i, <4>2 DEF Others
                <5>2. task[w].err = "none"
                    BY <2>e, <2>1 DEF NextMatch
                <5> QED BY <2>w, <5>1, <5>2 DEF Task
            <4> QED BY <2>1, <4>1, <4>2 DEF NextMatch
        <3>2. UNCHANGED <<applied, stepRow, runs, checkpoint>>
            BY <2>1 DEF NextMatch
        <3> QED BY <1>c, <1>r, <3>1, <3>2, QuietProgress DEF CheckpointCovers
    <2>2. CASE HasConsumed(w)
        <3>1. Others(w) /\ task'[w].pc \notin RunPCs /\ task'[w].err = "none"
            BY <1>i, <1>r, <2>w, <2>e, <2>2, ReturnClears DEF HasConsumed, Others, Task
        <3>2. UNCHANGED <<applied, stepRow, runs, checkpoint>>
            BY <2>2 DEF HasConsumed
        <3> QED BY <1>c, <3>1, <3>2, QuietProgress DEF CheckpointCovers
    <2>3. CASE RecordConsumption(w)
        <3>1. Others(w) /\ task'[w].pc \notin RunPCs /\ task'[w].err = "none"
            BY <1>i, <1>r, <2>w, <2>e, <2>3, ReturnClears DEF RecordConsumption, Others, Task
        <3>2. UNCHANGED <<applied, stepRow, runs, checkpoint>>
            BY <2>3 DEF RecordConsumption
        <3> QED BY <1>c, <3>1, <3>2, QuietProgress DEF CheckpointCovers
    <2>4. CASE CreateRun(w)
        <3>1. UNCHANGED <<applied, stepRow, checkpoint>> /\ task[w].pc = "create"
            BY <2>4 DEF CreateRun
        <3>2. runs' = runs \/ runs' = [runs EXCEPT ![Pair(w)] = "start"]
            BY <2>4 DEF CreateRun
        <3>3. /\ \A x \in Pairs : runs'[x] = "none" => runs[x] = "none"
              /\ \A x \in Pairs : runs'[x] \in {"failed", "cancel"} =>
                    runs[x] \in {"failed", "cancel"}
            BY <1>i, <3>2
        <3>4. CheckpointCovers'
            BY <1>c, <3>1 DEF CheckpointCovers
        <3>5. CASE Return(w)
            BY <1>i, <1>r, <3>1, <3>3, <3>4, <3>5, ReturnClears, QuietProgress
        <3>6. CASE task' = [task EXCEPT ![w].pc = LoopPC(w, 1), ![w].step = 1]
            <4>1. Others(w) /\ task'[w] = [task[w] EXCEPT !.pc = LoopPC(w, 1), !.step = 1]
                BY <1>i, <3>6 DEF Others
            <4>2. /\ task'[w].pc = LoopPC(w, 1) /\ task'[w].step = 1 /\ task'[w].err = "none"
                  /\ Pair(w)' = Pair(w)
                BY <2>w, <2>e, <3>1, <4>1 DEF Task, Pair
            <4>3. \A i \in Steps : applied[Pair(w)][i] = 0
                BY <2>w, <3>1 DEF Progress, IInv, Ownership
            <4>4. task'[w].pc # "report" /\ (task'[w].pc = "finish" <=> 1 > NumSteps)
                BY <4>2 DEF LoopPC
            <4>5. StepsDone(w)'
                BY <3>1, <4>2, <4>3, <4>4, <1>i DEF StepsDone, Behind, Steps
            <4> QED BY <3>1, <3>3, <3>4, <4>1, <4>2, <4>5, QuietProgress
        <3> QED BY <2>4, <3>5, <3>6 DEF CreateRun
    <2>5. CASE SaveCheckpoint(w)
        <3>1. Others(w) /\ task'[w] = [task[w] EXCEPT !.pc = "begin"]
            BY <1>i, <2>5 DEF SaveCheckpoint, Others
        <3>2. /\ task'[w].pc = "begin" /\ task'[w].step = task[w].step
              /\ task'[w].err = "none" /\ Pair(w)' = Pair(w) /\ task[w].pc = "checkpoint"
              /\ UNCHANGED <<applied, stepRow, runs>>
            BY <2>w, <2>e, <2>5, <3>1 DEF Task, Pair, SaveCheckpoint
        <3>3. StepsDone(w) /\ StepsDone(w)'
            BY <2>d, <3>2 DEF StepsDone, Behind, RunPCs
        <3>4. CheckpointCovers'
            <4>1. CASE UNCHANGED checkpoint
                BY <1>c, <3>2, <4>1 DEF CheckpointCovers
            <4>2. CASE checkpoint' = [checkpoint EXCEPT ![Pair(w)] = task[w].step]
                <5>1. task[w].step \in 1..NumSteps
                    BY <1>i, <3>2, StepType DEF Steps
                <5>2. \A i \in 1..(task[w].step - 1) : applied[Pair(w)][i] > 0
                    BY <1>i, <3>2, <3>3, <5>1 DEF StepsDone, Behind, Steps
                <5> QED BY <1>i, <1>c, <2>w, <3>2, <4>2, <5>2 DEF CheckpointCovers
            <4> QED BY <2>5, <4>1, <4>2 DEF SaveCheckpoint
        <3> QED BY <3>1, <3>2, <3>3, <3>4, QuietProgress
    <2>6. CASE BeginStep(w)
        <3>1. Others(w) /\ UNCHANGED <<applied, runs, checkpoint>> /\ task[w].pc = "begin"
            BY <1>i, <2>6 DEF BeginStep, Others
        <3>2. task[w].step \in Steps
            BY <1>i, <3>1, StepType
        <3>3. \/ task'[w] = [task[w] EXCEPT !.pc = "invoke", !.attempt = 1]
              \/ \E x \in {"failed", "cancel"} :
                    task'[w] = [task[w] EXCEPT !.pc = "finish", !.err = x]
            BY <1>i, <2>6 DEF BeginStep
        <3>4. /\ task'[w].pc \in {"invoke", "finish"} /\ task'[w].step = task[w].step
              /\ task'[w].pc = "invoke" => task'[w].err = "none"
              /\ task'[w].pc = "finish" => task'[w].err # "none"
              /\ Pair(w)' = Pair(w)
            BY <2>w, <2>e, <3>1, <3>3 DEF Task, Pair
        <3>5. StepsDone(w)'
            BY <1>i, <2>d, <3>1, <3>2, <3>4 DEF StepsDone, Behind, RunPCs, Steps
        <3>6. \A x \in Pairs, i \in Steps : stepRow'[x][i] = "done" => stepRow[x][i] = "done"
            <4>1. CASE UNCHANGED stepRow
                BY <4>1
            <4>2. CASE stepRow' = [stepRow EXCEPT ![Pair(w)][task[w].step] = "start"]
                <5>1. \A x \in Pairs, i \in Steps :
                         ~(x = Pair(w) /\ i = task[w].step) => stepRow'[x][i] = stepRow[x][i]
                    BY <1>i, <2>w, <3>1, <3>2, <4>2
                <5>2. stepRow'[Pair(w)][task[w].step] = "start"
                    BY <1>i, <2>w, <3>1, <3>2, <4>2
                <5> QED BY <5>1, <5>2
            <4> QED BY <2>6, <4>1, <4>2 DEF BeginStep
        <3>7. \A v \in Workers : /\ task'[v].pc \in RunPCs => StepsDone(v)'
                                 /\ task'[v].pc \notin {"report", "finish"} =>
                                       task'[v].err = "none"
            BY <3>1, <3>4, <3>5, OthersProgress
        <3>8. StepsOnceInOrder' /\ CheckpointCovers' /\ RowsTellTheTruth'
            BY <3>1, <3>6 DEF Progress, StepsOnceInOrder, CheckpointCovers, RowsTellTheTruth
        <3> QED BY <3>1, <3>7, <3>8 DEF Progress
    <2>7. CASE InvokeOk(w)
        <3>1. /\ Others(w) /\ task'[w] = [task[w] EXCEPT !.pc = "report"]
              /\ task[w].pc = "invoke" /\ UNCHANGED <<runs, checkpoint, stepRow>>
            BY <1>i, <2>7 DEF InvokeOk, Others
        <3>2. task[w].step \in Steps /\ Pair(w) \in Pairs
            BY <1>i, <2>w, <3>1, StepType
        <3>3. /\ task'[w].pc = "report" /\ task'[w].step = task[w].step
              /\ task'[w].err = "none" /\ Pair(w)' = Pair(w)
            BY <2>w, <2>e, <3>1 DEF Task, Pair
        <3>4. \A i \in Steps : applied[Pair(w)][i] = IF i < task[w].step THEN 1 ELSE 0
            BY <1>i, <2>d, <3>1, <3>2 DEF StepsDone, Behind, RunPCs, Steps
        <3>5. /\ \A x \in Pairs \ {Pair(w)} : applied'[x] = applied[x]
              /\ \A i \in Steps : applied'[Pair(w)][i] = IF i <= task[w].step THEN 1 ELSE 0
            BY <1>i, <2>7, <3>2, <3>4 DEF InvokeOk, Steps
        <3>6. StepsDone(w)'
            BY <3>3, <3>5 DEF StepsDone, Behind
        <3>7. \A v \in Workers : /\ task'[v].pc \in RunPCs => StepsDone(v)'
                                 /\ task'[v].pc \notin {"report", "finish"} =>
                                       task'[v].err = "none"
            BY <3>1, <3>3, <3>5, <3>6, OthersProgress DEF RunPCs
        <3>8. \A x \in Pairs : runs'[x] = "none" => \A i \in Steps : applied'[x][i] = 0
            BY <2>d, <3>1, <3>5 DEF Progress, RunPCs
        <3>9. StepsOnceInOrder'
            <4>1. \A x \in Pairs \ {Pair(w)}, i \in Steps :
                     /\ applied'[x][i] <= 1
                     /\ i > 1 /\ applied'[x][i] > 0 => applied'[x][i - 1] > 0
                BY <3>5 DEF Progress, StepsOnceInOrder
            <4>2. \A i \in Steps :
                     /\ applied'[Pair(w)][i] <= 1
                     /\ i > 1 /\ applied'[Pair(w)][i] > 0 => applied'[Pair(w)][i - 1] > 0
                <5> TAKE i \in Steps
                <5>1. applied'[Pair(w)][i] = IF i <= task[w].step THEN 1 ELSE 0
                    BY <3>5
                <5>2. ASSUME i > 1, i <= task[w].step PROVE applied'[Pair(w)][i - 1] = 1
                    <6>1. i - 1 \in Steps /\ i - 1 <= task[w].step
                        BY <1>i, <3>2, <5>2 DEF Steps
                    <6> QED BY <3>5, <6>1
                <5> QED BY <5>1, <5>2
            <4> QED BY <4>1, <4>2 DEF StepsOnceInOrder
        <3>10. \A x \in Pairs, i \in Steps : applied[x][i] > 0 => applied'[x][i] > 0
            BY <3>2, <3>4, <3>5 DEF Steps
        <3>11. CheckpointCovers'
            BY <1>i, <1>c, <3>1, <3>10 DEF CheckpointCovers, Steps
        <3>12. RowsTellTheTruth'
            BY <2>d, <3>1, <3>5, <3>10 DEF Progress, RowsTellTheTruth, RunPCs
        <3> QED BY <3>7, <3>8, <3>9, <3>11, <3>12 DEF Progress
    <2>8. CASE InvokeRetry(w)
        <3>1. /\ Others(w) /\ task'[w] = [task[w] EXCEPT !.attempt = @ + 1]
              /\ task[w].pc = "invoke" /\ UNCHANGED <<applied, runs, checkpoint, stepRow>>
            BY <1>i, <2>8 DEF InvokeRetry, Others
        <3>2. /\ task'[w].pc = "invoke" /\ task'[w].step = task[w].step
              /\ task'[w].err = "none" /\ Pair(w)' = Pair(w)
            BY <2>w, <2>e, <3>1 DEF Task, Pair
        <3>3. StepsDone(w)'
            BY <2>d, <3>1, <3>2 DEF StepsDone, Behind, RunPCs
        <3> QED BY <1>c, <3>1, <3>2, <3>3, QuietProgress DEF CheckpointCovers
    <2>9. CASE InvokeGiveUp(w)
        <3>1. /\ Others(w) /\ task[w].pc = "invoke"
              /\ \E x \in {"failed", "cancel"} :
                    task'[w] = [task[w] EXCEPT !.pc = "report", !.err = x]
              /\ UNCHANGED <<applied, runs, checkpoint, stepRow>>
            BY <1>i, <2>9 DEF InvokeGiveUp, Others
        <3>2. /\ task'[w].pc = "report" /\ task'[w].step = task[w].step
              /\ task'[w].err # "none" /\ Pair(w)' = Pair(w)
            BY <2>w, <3>1 DEF Task, Pair
        <3>3. StepsDone(w)'
            BY <2>d, <3>1, <3>2 DEF StepsDone, Behind, RunPCs
        <3> QED BY <1>c, <3>1, <3>2, <3>3, QuietProgress DEF CheckpointCovers
    <2>10. CASE ReportStep(w)
        <3>1. /\ task[w].pc = "report" /\ UNCHANGED <<applied, runs, checkpoint>> /\ Others(w)
            BY <1>i, <2>10 DEF ReportStep, Others
        <3>2. task[w].step \in Steps
            BY <1>i, <3>1, StepType
        <3>3. StepsDone(w)
            BY <2>d, <3>1 DEF RunPCs
        <3>4. /\ task'[w].pc \notin {"report"} /\ StepsDone(w)'
              /\ task'[w].pc # "finish" => task'[w].err = "none"
            <4>1. CASE task[w].err = "none"
                <5>1. task'[w] = [task[w] EXCEPT !.pc = LoopPC(w, task[w].step + 1),
                                                 !.step = task[w].step + 1]
                    BY <1>i, <2>10, <4>1 DEF ReportStep
                <5>2. /\ task'[w].pc = LoopPC(w, task[w].step + 1) /\ task'[w].err = "none"
                      /\ task'[w].step = task[w].step + 1 /\ Pair(w)' = Pair(w)
                    BY <2>w, <4>1, <5>1 DEF Task, Pair
                <5>3. task'[w].pc # "report" /\ (task'[w].pc = "finish" <=> task'[w].step > NumSteps)
                    BY <5>2 DEF LoopPC
                <5> QED BY <1>i, <3>1, <3>2, <3>3, <4>1, <5>2, <5>3 DEF StepsDone, Behind, Steps
            <4>2. CASE task[w].err # "none"
                <5>1. task'[w] = [task[w] EXCEPT !.pc = "finish"]
                    BY <1>i, <2>10, <4>2 DEF ReportStep
                <5>2. /\ task'[w].pc = "finish" /\ task'[w].err = task[w].err
                      /\ task'[w].step = task[w].step /\ Pair(w)' = Pair(w)
                    BY <2>w, <5>1 DEF Task, Pair
                <5> QED BY <1>i, <3>1, <3>2, <3>3, <4>2, <5>2 DEF StepsDone, Behind, Steps
            <4> QED BY <4>1, <4>2
        <3>5. \A v \in Workers : /\ task'[v].pc \in RunPCs => StepsDone(v)'
                                 /\ task'[v].pc \notin {"report", "finish"} =>
                                       task'[v].err = "none"
            BY <3>1, <3>4, OthersProgress
        <3>6. \A x \in Pairs, i \in Steps :
                 stepRow'[x][i] = "done" => stepRow[x][i] = "done" \/ applied[x][i] > 0
            <4>1. CASE UNCHANGED stepRow
                BY <4>1
            <4>2. CASE stepRow' = [stepRow EXCEPT ![Pair(w)][task[w].step] =
                                      IF task[w].err = "none" THEN "done" ELSE task[w].err]
                <5>1. task[w].err = "none" => applied[Pair(w)][task[w].step] = 1
                    BY <3>1, <3>2, <3>3 DEF StepsDone, Behind, Steps
                <5>2. task[w].err # "done"
                    BY <2>w DEF Task
                <5>3. \A x \in Pairs, i \in Steps :
                         ~(x = Pair(w) /\ i = task[w].step) => stepRow'[x][i] = stepRow[x][i]
                    BY <1>i, <2>w, <3>1, <3>2, <4>2
                <5>4. stepRow'[Pair(w)][task[w].step] =
                         IF task[w].err = "none" THEN "done" ELSE task[w].err
                    BY <1>i, <2>w, <3>1, <3>2, <4>2
                <5> QED BY <5>1, <5>2, <5>3, <5>4
            <4> QED BY <2>10, <4>1, <4>2 DEF ReportStep
        <3>7. StepsOnceInOrder' /\ CheckpointCovers' /\ RowsTellTheTruth'
            BY <3>1, <3>6 DEF Progress, StepsOnceInOrder, CheckpointCovers, RowsTellTheTruth
        <3> QED BY <3>1, <3>5, <3>7 DEF Progress
    <2>11. CASE FinishRun(w)
        <3>1. /\ task[w].pc = "finish" /\ UNCHANGED <<applied, stepRow, checkpoint>>
              /\ Return(w) /\ Pair(w) \in Pairs
            BY <2>w, <2>11 DEF FinishRun
        <3>2. task[w].err # "none" => \E i \in Steps : applied[Pair(w)][i] = 0
            <4>1. StepsDone(w) /\ task[w].step \in 1..(NumSteps + 1)
                BY <2>d, <2>w, <3>1 DEF RunPCs, Task
            <4> SUFFICES ASSUME task[w].err # "none" PROVE applied[Pair(w)][task[w].step] = 0
                                                        /\ task[w].step \in Steps
                OBVIOUS
            <4> QED BY <1>i, <3>1, <4>1 DEF StepsDone, Behind, Steps
        <3>3. \/ runs' = runs
              \/ runs' = [runs EXCEPT ![Pair(w)] = IF task[w].err = "none" THEN "done"
                                                                          ELSE task[w].err]
            BY <2>11 DEF FinishRun
        <3>4. /\ \A x \in Pairs : runs'[x] = "none" => runs[x] = "none"
              /\ \A x \in Pairs : runs'[x] \in {"failed", "cancel"} =>
                    runs[x] \in {"failed", "cancel"} \/ \E i \in Steps : applied[x][i] = 0
            BY <1>i, <3>1, <3>2, <3>3
        <3>5. CheckpointCovers'
            BY <1>c, <3>1 DEF CheckpointCovers
        <3> QED BY <1>i, <1>r, <3>1, <3>4, <3>5, ReturnClears, QuietProgress
    <2> QED BY <1>1, <2>1, <2>2, <2>3, <2>4, <2>5, <2>6, <2>7, <2>8, <2>9, <2>10, <2>11
            DEF Execute
<1>2. ASSUME NEW w \in Workers, ContextEnds(w) PROVE Progress'
    <2>1. Others(w) /\ UNCHANGED <<applied, stepRow, runs, checkpoint>>
        BY <1>i, <1>2 DEF ContextEnds, Others
    <2>2. /\ task'[w].pc = task[w].pc /\ task'[w].err = task[w].err
          /\ task'[w].step = task[w].step /\ Pair(w)' = Pair(w)
        BY <1>i, <1>2 DEF ContextEnds, Task, Pair
    <2>3. /\ task'[w].pc \in RunPCs => StepsDone(w)'
          /\ task'[w].pc \notin {"report", "finish"} => task'[w].err = "none"
        BY <2>1, <2>2 DEF Progress, StepsDone, Behind
    <2> QED BY <1>c, <2>1, <2>3, QuietProgress DEF CheckpointCovers
<1>3. ASSUME NEW w \in Workers, NEW e \in BusEvents, Deliver(w, e) PROVE Progress'
    <2>1. /\ Others(w) /\ UNCHANGED <<applied, stepRow, runs, checkpoint>>
          /\ task'[w].pc = "match" /\ task'[w].err = "none"
        BY <1>i, <1>3 DEF Deliver, Others, Idle
    <2> QED BY <1>c, <1>r, <2>1, QuietProgress DEF CheckpointCovers
<1>4. ASSUME NEW w \in Workers, NEW p \in Pipelines,
             WebhookRequest(w, p) \/ ManualRequest(w, p) \/ CronTick(w, p)
      PROVE  Progress'
    <2>1. PICK source \in {"webhook", "manual", "cron"} : Launch(w, p, source)
        BY <1>4 DEF WebhookRequest, ManualRequest, CronTick
    <2>2. /\ Others(w) /\ UNCHANGED <<applied, stepRow, runs, checkpoint>>
          /\ task'[w].pc = "check" /\ task'[w].err = "none"
        BY <1>i, <2>1 DEF Launch, Others, Idle
    <2> QED BY <1>c, <1>r, <2>2, QuietProgress DEF CheckpointCovers
<1>5. ASSUME UNCHANGED <<applied, stepRow, runs, checkpoint>>,
             task' = task \/ task' = [w \in Workers |-> Idle]
      PROVE  Progress'
    <2>1. \A w \in Workers : /\ task'[w].pc \in RunPCs => StepsDone(w)'
                             /\ task'[w].pc \notin {"report", "finish"} => task'[w].err = "none"
        <3>1. CASE task' = task
            BY <1>5, <3>1 DEF Progress, StepsDone, Behind, Pair
        <3>2. CASE task' = [w \in Workers |-> Idle]
            BY <1>r, <3>2 DEF Idle
        <3> QED BY <1>5, <3>1, <3>2
    <2>2. StepsOnceInOrder' /\ CheckpointCovers' /\ RowsTellTheTruth'
        BY <1>5 DEF Progress, StepsOnceInOrder, CheckpointCovers, RowsTellTheTruth
    <2> QED BY <1>5, <2>1, <2>2 DEF Progress
<1>6. ASSUME NEW D \in SUBSET Pipelines, Reload(D) PROVE Progress'
    BY <1>5, <1>6 DEF Reload
<1>7. CASE Crash
    BY <1>5, <1>7 DEF Crash
<1>8. CASE UNCHANGED vars
    BY <1>5, <1>8 DEF vars
<1> QED BY <1>1, <1>2, <1>3, <1>4, <1>6, <1>7, <1>8 DEF Next

(* The progress of the runs holds in every reachable state.                *)
LEMMA ProgressInvariant == Spec => []Progress
<1>1. Init => Progress
    <2> SUFFICES ASSUME Init PROVE Progress
        OBVIOUS
    <2>1. \A w \in Workers : task[w].pc = "idle" /\ task[w].err = "none"
        BY DEF Init, Idle
    <2>2. \A x \in Pairs : /\ runs[x] = "none" /\ checkpoint[x] = 0
                           /\ \A i \in Steps : applied[x][i] = 0 /\ stepRow[x][i] = "none"
        BY DEF Init
    <2>3. StepsOnceInOrder /\ CheckpointCovers /\ RowsTellTheTruth
        BY <2>2 DEF StepsOnceInOrder, CheckpointCovers, RowsTellTheTruth
    <2> QED BY <2>1, <2>2, <2>3 DEF Progress, RunPCs
<1> QED BY <1>1, Invariant, ProgressStep, PTL DEF Spec

(* Redelivery, retries and failing store calls never make a step of one    *)
(* event's run succeed twice, and no step runs before its predecessor was  *)
(* acknowledged (runPipelineSteps), whatever crashes or is reloaded.       *)
THEOREM StepsAreOrdered == Spec => []StepsOnceInOrder
<1>1. Progress => StepsOnceInOrder
    BY DEF Progress
<1> QED BY <1>1, ProgressInvariant, PTL

(* Every step before a saved checkpoint was acknowledged: the run that     *)
(* continues from saveCheckpointIfResumable's row skips no work.           *)
THEOREM CheckpointsAreHonest == Spec => []CheckpointCovers
<1>1. Progress => CheckpointCovers
    BY DEF Progress
<1> QED BY <1>1, ProgressInvariant, PTL

(* The rows of steps and runs agree with what the capabilities            *)
(* acknowledged: "done" is never recorded for a step that was not, and a   *)
(* run recorded as failed or cancelled has a step that was not.            *)
THEOREM RowsAreTrue == Spec => []RowsTellTheTruth
<1>1. Progress => RowsTellTheTruth
    BY DEF Progress
<1> QED BY <1>1, ProgressInvariant, PTL

-----------------------------------------------------------------------------
(* Cron executions.                                                        *)

(* A cron execution holds the mutex of its definition from the tick to its *)
(* return.                                                                 *)
CronInv ==
    /\ \A w \in Workers : task[w].src = "cron" =>
          task[w].pc \notin {"idle", "match"} /\ task[w].def \in held
    /\ CronExclusive

(* A goroutine that keeps its definition and its source, or starts an      *)
(* execution that is no cron execution, disturbs no cron execution.        *)
LEMMA CronKept ==
    ASSUME CronInv, NEW w \in Workers, Others(w), held' = held,
           task'[w].src = "cron" =>
              /\ task[w].src = "cron" /\ task'[w].def = task[w].def
              /\ task'[w].pc \notin {"idle", "match"}
    PROVE  CronInv'
BY DEF CronInv, CronExclusive, Others

(* A return unlocks the mutex of its own definition, which no other cron   *)
(* execution holds.                                                        *)
LEMMA CronReturn ==
    ASSUME TypeInv, CronInv, NEW w \in Workers, task[w].pc \notin {"idle", "match"}, Return(w)
    PROVE  CronInv'
<1>1. Others(w)
    BY ReturnClears
<1>2. task'[w].src # "cron"
    <2>1. task[w] \in Task /\ task \in [Workers -> Task]
        BY DEF TypeInv, TypeOK
    <2>2. CASE task[w].src = "event"
        <3>1. task'[w] = [task[w] EXCEPT !.pc = "match", !.def = None, !.step = 1,
                                         !.attempt = 1, !.err = "none"]
            BY <2>1, <2>2 DEF Return
        <3> QED BY <2>1, <2>2, <3>1 DEF Task
    <2>3. CASE task[w].src # "event"
        BY <2>1, <2>3 DEF Return, Idle
    <2> QED BY <2>2, <2>3
<1>3. CASE task[w].src # "cron"
    BY <1>1, <1>2, <1>3, CronKept DEF Return
<1>4. CASE task[w].src = "cron"
    <2>1. held' = held \ {task[w].def}
        BY <1>4 DEF Return
    <2>2. \A v \in Workers \ {w} : task[v].src = "cron" => task[v].def # task[w].def
        BY <1>4 DEF CronInv, CronExclusive
    <2> QED BY <1>1, <1>2, <2>1, <2>2 DEF CronInv, CronExclusive, Others
<1> QED BY <1>3, <1>4

(* Every step keeps the cron executions apart.                             *)
LEMMA CronStep ==
    ASSUME TypeInv, CronInv, [Next]_vars
    PROVE  CronInv'
<1> USE DEF store, memory, world
<1>i. task \in [Workers -> Task]
    BY DEF TypeInv, TypeOK
<1>1. ASSUME NEW w \in Workers, Execute(w) PROVE CronInv'
    <2>w. task[w] \in Task
        BY <1>i
    <2>1. ASSUME task[w].pc \notin {"idle", "match"}, held' = held, Others(w),
                 task'[w].src = task[w].src, task'[w].def = task[w].def,
                 task'[w].pc \notin {"idle", "match"}
          PROVE  CronInv'
        BY <2>1, CronKept
    <2>2. CASE NextMatch(w)
        <3>1. task[w].pc = "match" /\ task[w].src # "cron" /\ held' = held
            BY <2>2 DEF NextMatch, CronInv
        <3>2. CASE task' = [task EXCEPT ![w] = Idle]
            BY <1>i, <3>1, <3>2, CronKept DEF Others, Idle
        <3>3. ASSUME NEW p \in task[w].todo,
                     task' = [task EXCEPT ![w].pc = "check", ![w].def = p,
                                          ![w].todo = @ \ {p}]
              PROVE  CronInv'
            <4>1. /\ Others(w)
                  /\ task'[w] = [task[w] EXCEPT !.pc = "check", !.def = p, !.todo = @ \ {p}]
                BY <1>i, <3>3 DEF Others
            <4>2. task'[w].src # "cron"
                BY <2>w, <3>1, <4>1 DEF Task
            <4> QED BY <3>1, <4>1, <4>2, CronKept
        <3> QED BY <2>2, <3>2, <3>3 DEF NextMatch
    <2>3. ASSUME task[w].pc \notin {"idle", "match"}, Return(w) PROVE CronInv'
        BY <2>3, CronReturn
    <2>4. ASSUME NEW c \in PCs \ {"idle", "match"}, task[w].pc \notin {"idle", "match"}, held' = held,
                 task' = [task EXCEPT ![w].pc = c]
          PROVE  CronInv'
        <3>1. Others(w) /\ task'[w] = [task[w] EXCEPT !.pc = c]
            BY <1>i, <2>4 DEF Others
        <3> QED BY <2>1, <2>4, <2>w, <3>1 DEF Task
    <2>5. ASSUME NEW c \in PCs \ {"idle", "match"}, NEW i, task[w].pc \notin {"idle", "match"}, held' = held,
                 task' = [task EXCEPT ![w].pc = c, ![w].step = i]
          PROVE  CronInv'
        <3>1. Others(w) /\ task'[w] = [task[w] EXCEPT !.pc = c, !.step = i]
            BY <1>i, <2>5 DEF Others
        <3>2. task'[w].pc = c /\ task'[w].src = task[w].src /\ task'[w].def = task[w].def
            BY <2>w, <3>1 DEF Task
        <3> QED BY <2>1, <2>5, <3>1, <3>2
    <2>6. ASSUME NEW c \in PCs \ {"idle", "match"}, NEW x, task[w].pc \notin {"idle", "match"}, held' = held,
                 task' = [task EXCEPT ![w].pc = c, ![w].err = x]
          PROVE  CronInv'
        <3>1. Others(w) /\ task'[w] = [task[w] EXCEPT !.pc = c, !.err = x]
            BY <1>i, <2>6 DEF Others
        <3>2. task'[w].pc = c /\ task'[w].src = task[w].src /\ task'[w].def = task[w].def
            BY <2>w, <3>1 DEF Task
        <3> QED BY <2>1, <2>6, <3>1, <3>2
    <2>7. ASSUME NEW c \in PCs \ {"idle", "match"}, NEW a, task[w].pc \notin {"idle", "match"}, held' = held,
                 task' = [task EXCEPT ![w].pc = c, ![w].attempt = a]
          PROVE  CronInv'
        <3>1. Others(w) /\ task'[w] = [task[w] EXCEPT !.pc = c, !.attempt = a]
            BY <1>i, <2>7 DEF Others
        <3>2. task'[w].pc = c /\ task'[w].src = task[w].src /\ task'[w].def = task[w].def
            BY <2>w, <3>1 DEF Task
        <3> QED BY <2>1, <2>7, <3>1, <3>2
    <2>8. \A i \in Nat : LoopPC(w, i) \in PCs \ {"idle", "match"}
        BY DEF LoopPC, PCs, RunPCs
    <2>11. CASE HasConsumed(w)
        BY <2>3, <2>4, <2>11 DEF HasConsumed, PCs, RunPCs
    <2>12. CASE RecordConsumption(w)
        BY <2>3, <2>4, <2>12 DEF RecordConsumption, PCs, RunPCs
    <2>13. CASE CreateRun(w)
        BY <2>3, <2>5, <2>8, <2>13 DEF CreateRun
    <2>14. CASE SaveCheckpoint(w)
        <3>1. /\ task[w].pc = "checkpoint" /\ held' = held
              /\ task' = [task EXCEPT ![w].pc = "begin"]
            BY <2>14 DEF SaveCheckpoint
        <3> QED BY <2>4, <3>1 DEF PCs, RunPCs
    <2>15. CASE BeginStep(w)
        BY <2>6, <2>7, <2>15 DEF BeginStep, PCs, RunPCs
    <2>16. CASE InvokeOk(w)
        <3>1. /\ task[w].pc = "invoke" /\ held' = held
              /\ task' = [task EXCEPT ![w].pc = "report"]
            BY <2>16 DEF InvokeOk
        <3> QED BY <2>4, <3>1 DEF PCs, RunPCs
    <2>17. CASE InvokeRetry(w)
        <3>1. /\ Others(w) /\ task'[w] = [task[w] EXCEPT !.attempt = @ + 1]
              /\ task[w].pc = "invoke" /\ held' = held
            BY <1>i, <2>17 DEF InvokeRetry, Others
        <3> QED BY <2>1, <2>w, <3>1 DEF Task
    <2>18. CASE InvokeGiveUp(w)
        <3>1. task[w].pc = "invoke" /\ held' = held
            BY <2>18 DEF InvokeGiveUp
        <3>2. PICK x \in {"failed", "cancel"} :
                 task' = [task EXCEPT ![w].pc = "report", ![w].err = x]
            BY <2>18 DEF InvokeGiveUp
        <3> QED BY <2>6, <3>1, <3>2 DEF PCs, RunPCs
    <2>19. CASE ReportStep(w)
        <3>1. task[w].pc = "report" /\ held' = held
            BY <2>19 DEF ReportStep
        <3>2. CASE task[w].err = "none"
            <4>1. task[w].step + 1 \in Nat
                BY <2>w DEF Task
            <4>2. task' = [task EXCEPT ![w].pc = LoopPC(w, task[w].step + 1),
                                       ![w].step = task[w].step + 1]
                BY <2>19, <3>2 DEF ReportStep
            <4> QED BY <2>5, <2>8, <3>1, <4>1, <4>2
        <3>3. CASE task[w].err # "none"
            <4>1. task' = [task EXCEPT ![w].pc = "finish"]
                BY <2>19, <3>3 DEF ReportStep
            <4> QED BY <2>4, <3>1, <4>1 DEF PCs, RunPCs
        <3> QED BY <3>2, <3>3
    <2>20. CASE FinishRun(w)
        BY <2>3, <2>20 DEF FinishRun
    <2> QED BY <1>1, <2>2, <2>11, <2>12, <2>13, <2>14, <2>15, <2>16, <2>17, <2>18, <2>19, <2>20
            DEF Execute
<1>2. ASSUME NEW w \in Workers, ContextEnds(w) PROVE CronInv'
    <2>1. /\ Others(w) /\ task'[w] = [task[w] EXCEPT !.ctx = "dead"]
          /\ held' = held
        BY <1>i, <1>2 DEF ContextEnds, Others
    <2>2. /\ task'[w].src = task[w].src /\ task'[w].def = task[w].def
          /\ task'[w].pc = task[w].pc
        BY <1>i, <2>1 DEF Task
    <2> QED BY <2>1, <2>2, CronKept DEF CronInv
<1>3. ASSUME NEW w \in Workers, NEW e \in BusEvents, Deliver(w, e) PROVE CronInv'
    <2>1. Others(w) /\ task'[w].src = "event" /\ held' = held
        BY <1>i, <1>3 DEF Deliver, Others, Idle
    <2> QED BY <2>1, CronKept
<1>4. ASSUME NEW w \in Workers, NEW p \in Pipelines, WebhookRequest(w, p) \/ ManualRequest(w, p)
      PROVE  CronInv'
    <2>1. PICK source \in {"webhook", "manual"} : Launch(w, p, source) /\ held' = held
        BY <1>4 DEF WebhookRequest, ManualRequest
    <2>2. Others(w) /\ task'[w].src # "cron"
        BY <1>i, <2>1 DEF Launch, Others, Idle
    <2> QED BY <2>1, <2>2, CronKept
<1>5. ASSUME NEW w \in Workers, NEW p \in Pipelines, CronTick(w, p) PROVE CronInv'
    <2>1. /\ Others(w) /\ task'[w].src = "cron" /\ task'[w].def = p
          /\ task'[w].pc = "check" /\ p \notin held /\ held' = held \cup {p}
        BY <1>i, <1>5 DEF CronTick, Launch, Others, Idle
    <2>2. \A v \in Workers \ {w} : task[v].src = "cron" => task[v].def # p
        BY <2>1 DEF CronInv
    <2> QED BY <2>1, <2>2 DEF CronInv, CronExclusive, Others
<1>6. ASSUME NEW D \in SUBSET Pipelines, Reload(D) PROVE CronInv'
    BY <1>6 DEF Reload, CronInv, CronExclusive
<1>7. CASE Crash
    BY <1>7 DEF Crash, CronInv, CronExclusive, Idle
<1>8. CASE UNCHANGED vars
    BY <1>8 DEF vars, CronInv, CronExclusive
<1> QED BY <1>1, <1>2, <1>3, <1>4, <1>5, <1>6, <1>7, <1>8 DEF Next

(* Two cron executions of one definition never overlap, not even across    *)
(* reloads: the mutex of a definition is never replaced while the process  *)
(* lives (Engine.Reload), and only its holder unlocks it.                  *)
THEOREM CronRunsAlone == Spec => []CronExclusive
<1>1. Init => CronInv
    BY DEF Init, Idle, CronInv, CronExclusive
<1>2. IInv => TypeInv
    BY DEF IInv
<1>3. CronInv => CronExclusive
    BY DEF CronInv
<1> QED BY <1>1, <1>2, <1>3, Invariant, CronStep, PTL DEF Spec

-----------------------------------------------------------------------------
(* Events that match.                                                      *)

(* No call fails, no context ends and the process does not crash.          *)
Calm == ~StoreFaults /\ ~Timeouts /\ MaxCrashes = 0

(* At most one definition subscribes to an event: pipeline_runs.event_id   *)
(* is unique, so the run of a second one would be refused.                 *)
OneSubscriberEach ==
    \A p, q \in Pipelines : Subscribed[p] \cap Subscribed[q] # {} => p = q

(* types.Id() mints ids that no event of the bus has.                      *)
IdsAreFresh == BusEvents \cap LocalIds = {}

\* The goroutine has won the pair x and not yet created its run.
Claiming(w, x) == task[w].pc = "create" /\ Pair(w) = x

\* The goroutine executes the pair x, or has it queued.
Covers(w, x) == task[w].evt = x[2] /\ (task[w].def = x[1] \/ x[1] \in task[w].todo)

\* The goroutine goes on with the same job.
SameJob(w) ==
    /\ task'[w].src = task[w].src /\ task'[w].evt = task[w].evt
    /\ task'[w].todo = task[w].todo /\ task'[w].def = task[w].def
    /\ task'[w].ctx = task[w].ctx

\* No deadline has passed, and a handler works for subscribers of its event.
Traced(w) ==
    /\ task[w].ctx = "live"
    /\ task[w].pc = "idle" => task[w].evt = None
    /\ task[w].pc = "match" => task[w].def = None
    /\ task[w].pc # "idle" /\ task[w].src # "event" => task[w].evt \in LocalIds
    /\ task[w].pc # "idle" /\ task[w].src = "event" =>
          /\ task[w].evt \in BusEvents
          /\ \A p \in task[w].todo \cup ({task[w].def} \ {None}) : task[w].evt \in Subscribed[p]

(* What NoMatchLost needs: a handler works only for subscribers of its     *)
(* event, so does every run of a bus event, and a pair that is recorded as *)
(* consumed has its run or a goroutine about to create it.                 *)
MatchInv ==
    /\ \A w \in Workers : Traced(w)
    /\ owed \subseteq Pipelines \X BusEvents
    /\ \A p \in Pipelines, e \in BusEvents :
          runs[<<p, e>>] # "none" => e \in Subscribed[p]
    /\ \A x \in consumed : x[2] \in BusEvents /\ runs[x] = "none" =>
          \E w \in Workers : Claiming(w, x)
    /\ NoMatchLost

(* A step of one goroutine that drops no pair it covers.                   *)
LEMMA MatchKept ==
    ASSUME IInv, MatchInv, NEW w \in Workers, Others(w), Traced(w)', UNCHANGED owed,
           \A x \in Pairs : runs[x] # "none" => runs'[x] # "none",
           \A p \in Pipelines, e \in BusEvents :
              runs'[<<p, e>>] # "none" => runs[<<p, e>>] # "none" \/ e \in Subscribed[p],
           \A x \in consumed' : x \in consumed \/ Claiming(w, x)',
           \A x \in Pairs : x[2] \in BusEvents /\ Claiming(w, x) =>
              Claiming(w, x)' \/ runs'[x] # "none",
           \A x \in owed : Covers(w, x) =>
              Covers(w, x)' \/ runs'[x] # "none" \/ \E v \in Workers \ {w} : Covers(v, x)
    PROVE  MatchInv'
<1>1. \A v \in Workers \ {w} : task'[v] = task[v]
    BY DEF Others
<1>2. \A v \in Workers : Traced(v)'
    BY <1>1 DEF MatchInv, Traced
<1>3. \A v \in Workers \ {w} : \A x : /\ Claiming(v, x)' <=> Claiming(v, x)
                                      /\ Covers(v, x)' <=> Covers(v, x)
    BY <1>1 DEF Claiming, Covers, Pair
<1>4. consumed \subseteq Pairs /\ owed \subseteq Pairs
    BY DEF IInv, TypeInv, TypeOK
<1>5. ASSUME NEW x \in consumed', x[2] \in BusEvents, runs'[x] = "none"
      PROVE  \E v \in Workers : Claiming(v, x)'
    <2>1. CASE x \notin consumed
        BY <2>1
    <2>2. CASE x \in consumed
        <3>1. x \in Pairs /\ runs[x] = "none"
            BY <1>4, <1>5, <2>2
        <3>2. PICK v \in Workers : Claiming(v, x)
            BY <1>5, <2>2, <3>1 DEF MatchInv
        <3> QED BY <1>3, <1>5, <3>1, <3>2
    <2> QED BY <2>1, <2>2
<1>6. ASSUME NEW x \in owed', runs'[x] = "none" PROVE \E v \in Workers : Covers(v, x)'
    <2>1. x \in owed /\ runs[x] = "none"
        BY <1>4, <1>6
    <2>2. PICK v \in Workers : Covers(v, x)
        BY <2>1 DEF MatchInv, NoMatchLost, Covers
    <2> QED BY <1>3, <1>6, <2>1, <2>2
<1>7. NoMatchLost'
    BY <1>6 DEF NoMatchLost, Covers
<1>8. \A p \in Pipelines, e \in BusEvents : runs'[<<p, e>>] # "none" => e \in Subscribed[p]
    BY DEF MatchInv
<1>9. owed' \subseteq Pipelines \X BusEvents
    BY DEF MatchInv
<1> QED BY <1>2, <1>5, <1>7, <1>8, <1>9 DEF MatchInv

(* A goroutine that goes on with its execution.                            *)
LEMMA MatchMoves ==
    ASSUME IInv, MatchInv, NEW w \in Workers, Others(w), UNCHANGED owed,
           task[w].pc \notin {"idle", "match"}, task'[w].pc \notin {"idle", "match"},
           SameJob(w),
           \A x \in Pairs : runs[x] # "none" => runs'[x] # "none",
           \A p \in Pipelines, e \in BusEvents :
              runs'[<<p, e>>] # "none" => runs[<<p, e>>] # "none" \/ e \in Subscribed[p],
           \A x \in consumed' : x \in consumed \/ Claiming(w, x)',
           \A x \in Pairs : x[2] \in BusEvents /\ Claiming(w, x) =>
              Claiming(w, x)' \/ runs'[x] # "none"
    PROVE  MatchInv'
<1>1. Traced(w)'
    BY DEF MatchInv, Traced, SameJob
<1>2. \A x \in owed : Covers(w, x) => Covers(w, x)'
    BY DEF Covers, SameJob
<1> QED BY <1>1, <1>2, MatchKept

(* A goroutine that goes on and changes no table.                          *)
LEMMA MatchQuiet ==
    ASSUME IInv, MatchInv, NEW w \in Workers, Others(w), UNCHANGED <<owed, runs, consumed>>,
           task[w].pc \notin {"idle", "match", "create"}, task'[w].pc \notin {"idle", "match"},
           SameJob(w)
    PROVE  MatchInv'
<1>1. \A x \in Pairs : ~Claiming(w, x)
    BY DEF Claiming
<1> QED BY <1>1, MatchMoves

(* A return: the pair has its run, or another goroutine creates it, or the *)
(* execution was for no event of the bus.                                  *)
LEMMA MatchReturn ==
    ASSUME IdsAreFresh, IInv, MatchInv, NEW w \in Workers, UNCHANGED <<owed, consumed>>,
           task[w].pc \notin {"idle", "match"}, Return(w),
           \A x \in Pairs : runs[x] # "none" => runs'[x] # "none",
           \A p \in Pipelines, e \in BusEvents :
              runs'[<<p, e>>] # "none" => runs[<<p, e>>] # "none" \/ e \in Subscribed[p],
           task[w].src = "event" =>
              \/ runs'[Pair(w)] # "none"
              \/ \E v \in Workers \ {w} : Claiming(v, Pair(w))
    PROVE  MatchInv'
<1>t. /\ task \in [Workers -> Task] /\ task[w] \in Task /\ owed \subseteq Pairs
      /\ Pair(w) \in Pairs /\ TypeInv
    BY TaskFacts DEF IInv, TypeInv, TypeOK
<1>o. Others(w)
    BY <1>t, ReturnClears
<1>1. CASE task[w].src = "event"
    <2>1. task'[w] = [task[w] EXCEPT !.pc = "match", !.def = None, !.step = 1,
                                     !.attempt = 1, !.err = "none"]
        BY <1>t, <1>1 DEF Return
    <2>2. /\ task'[w].pc = "match" /\ task'[w].src = "event" /\ task'[w].evt = task[w].evt
          /\ task'[w].todo = task[w].todo /\ task'[w].def = None /\ task'[w].ctx = task[w].ctx
        BY <1>t, <1>1, <2>1 DEF Task
    <2>3. Traced(w)'
        BY <1>1, <2>2 DEF MatchInv, Traced
    <2>4. \A x \in Pairs : Claiming(w, x) => runs'[x] # "none"
        BY <1>1 DEF Claiming, IInv, Ownership, OneOwner, Owns
    <2>5. ASSUME NEW x \in owed, Covers(w, x)
          PROVE  Covers(w, x)' \/ runs'[x] # "none" \/ \E v \in Workers \ {w} : Covers(v, x)
        <3>1. CASE x[1] \in task[w].todo
            BY <2>2, <2>5, <3>1 DEF Covers
        <3>2. CASE task[w].def = x[1]
            <4>1. Pair(w) = x
                BY <1>t, <2>5, <3>2 DEF Covers, Pair, Pairs
            <4>2. \A v \in Workers : Claiming(v, x) => Covers(v, x)
                BY DEF Claiming, Covers, Pair
            <4> QED BY <1>1, <4>1, <4>2
        <3> QED BY <2>5, <3>1, <3>2 DEF Covers
    <2> QED BY <1>o, <2>3, <2>4, <2>5, MatchKept
<1>2. CASE task[w].src # "event"
    <2>1. task'[w] = Idle
        BY <1>t, <1>2 DEF Return
    <2>2. Traced(w)'
        BY <2>1, <1>2 DEF Traced, Idle
    <2>3. task[w].evt \notin BusEvents
        BY <1>2 DEF MatchInv, Traced, IdsAreFresh
    <2>4. \A x \in Pairs : x[2] \in BusEvents => ~Claiming(w, x)
        BY <2>3 DEF Claiming, Pair
    <2>5. \A x \in owed : ~Covers(w, x)
        BY <2>3 DEF Covers, MatchInv
    <2> QED BY <1>o, <2>2, <2>4, <2>5, MatchKept
<1> QED BY <1>1, <1>2

(* Every step keeps the matched pairs, when nothing fails.                 *)
LEMMA MatchStep ==
    ASSUME Calm, OneSubscriberEach, IdsAreFresh, IInv, MatchInv, [Next]_vars
    PROVE  MatchInv'
<1> USE DEF store, memory, world
<1>i. /\ TypeInv /\ task \in [Workers -> Task] /\ runs \in [Pairs -> RunStatus]
      /\ consumed \subseteq Pairs /\ owed \subseteq Pairs
    BY DEF IInv, TypeInv, TypeOK
<1>1. ASSUME NEW w \in Workers, Execute(w) PROVE MatchInv'
    <2>w. /\ task[w] \in Task /\ WellFormed(task[w])
          /\ task[w].pc \notin {"idle", "match"} => Pair(w) \in Pairs
        BY <1>i, TaskFacts
    <2>t. Traced(w)
        BY DEF MatchInv
    <2>c. StoreOk(w) /\ ~StoreErr(w)
        BY <2>t DEF Calm, StoreOk, StoreErr, Traced
    <2>p. ASSUME Pair(w) \in consumed, task[w].pc \in {"check", "record"}
          PROVE  task[w].src = "event" => \/ runs[Pair(w)] # "none"
                                          \/ \E v \in Workers \ {w} : Claiming(v, Pair(w))
        <3> SUFFICES ASSUME task[w].src = "event", runs[Pair(w)] = "none"
                     PROVE  \E v \in Workers \ {w} : Claiming(v, Pair(w))
            OBVIOUS
        <3>1. Pair(w)[2] \in BusEvents
            BY <2>t, <2>p DEF Traced, Pair
        <3>2. PICK v \in Workers : Claiming(v, Pair(w))
            BY <2>p, <3>1 DEF MatchInv
        <3> QED BY <2>p, <3>2 DEF Claiming
    <2>1. CASE NextMatch(w)
        <3>1. /\ task[w].pc = "match" /\ UNCHANGED <<owed, runs, consumed>>
              /\ \A x \in Pairs : ~Claiming(w, x)
            BY <2>1 DEF NextMatch, Claiming
        <3>2. task[w].def = None /\ \A x \in owed : x[1] # None
            BY <1>i, <2>t, <3>1, ConstantsAssumption DEF Traced, Pairs
        <3>3. CASE task[w].todo = {} /\ task' = [task EXCEPT ![w] = Idle]
            <4>1. Others(w) /\ task'[w] = Idle
                BY <1>i, <3>3 DEF Others
            <4>2. Traced(w)'
                BY <4>1 DEF Traced, Idle
            <4>3. \A x \in owed : ~Covers(w, x)
                BY <3>2, <3>3 DEF Covers
            <4> QED BY <3>1, <4>1, <4>2, <4>3, MatchKept
        <3>4. ASSUME NEW p \in task[w].todo,
                     task' = [task EXCEPT ![w].pc = "check", ![w].def = p,
                                          ![w].todo = @ \ {p}]
              PROVE  MatchInv'
            <4>1. /\ Others(w)
                  /\ task'[w] = [task[w] EXCEPT !.pc = "check", !.def = p, !.todo = @ \ {p}]
                BY <1>i, <3>4 DEF Others
            <4>2. /\ task'[w].pc = "check" /\ task'[w].def = p
                  /\ task'[w].todo = task[w].todo \ {p} /\ task'[w].evt = task[w].evt
                  /\ task'[w].src = task[w].src /\ task'[w].ctx = task[w].ctx
                BY <2>w, <4>1 DEF Task
            <4>3. Traced(w)'
                BY <2>t, <3>1, <4>2 DEF Traced
            <4>4. \A x \in owed : Covers(w, x) => Covers(w, x)'
                BY <3>2, <4>2 DEF Covers
            <4> QED BY <3>1, <4>1, <4>3, <4>4, MatchKept
        <3> QED BY <2>1, <3>3, <3>4 DEF NextMatch
    <2>2. CASE HasConsumed(w)
        <3>1. task[w].pc = "check" /\ UNCHANGED <<owed, runs, consumed>>
            BY <2>2 DEF HasConsumed
        <3>2. CASE task' = [task EXCEPT ![w].pc = "record"]
            <4>1. Others(w) /\ task'[w] = [task[w] EXCEPT !.pc = "record"]
                BY <1>i, <3>2 DEF Others
            <4>2. /\ task'[w].src = task[w].src /\ task'[w].evt = task[w].evt
                  /\ task'[w].todo = task[w].todo /\ task'[w].def = task[w].def
                  /\ task'[w].ctx = task[w].ctx /\ task'[w].pc = "record"
                BY <2>w, <4>1 DEF Task
            <4> QED BY <3>1, <4>1, <4>2, MatchQuiet DEF SameJob
        <3>3. CASE Pair(w) \in consumed /\ Return(w)
            BY <2>p, <3>1, <3>3, MatchReturn
        <3> QED BY <2>c, <2>2, <3>2, <3>3 DEF HasConsumed
    <2>3. CASE RecordConsumption(w)
        <3>1. task[w].pc = "record" /\ UNCHANGED <<owed, runs>>
            BY <2>3 DEF RecordConsumption
        <3>2. CASE consumed' = consumed \cup {Pair(w)} /\ task' = [task EXCEPT ![w].pc = "create"]
            <4>1. Others(w) /\ task'[w] = [task[w] EXCEPT !.pc = "create"]
                BY <1>i, <3>2 DEF Others
            <4>2. /\ task'[w].src = task[w].src /\ task'[w].evt = task[w].evt
                  /\ task'[w].todo = task[w].todo /\ task'[w].def = task[w].def
                  /\ task'[w].ctx = task[w].ctx /\ task'[w].pc = "create"
                BY <2>w, <4>1 DEF Task
            <4>3. \A x \in consumed' : x \in consumed \/ Claiming(w, x)'
                BY <3>2, <4>2 DEF Claiming, Pair
            <4>4. \A x \in Pairs : ~Claiming(w, x)
                BY <3>1 DEF Claiming
            <4> QED BY <3>1, <4>1, <4>2, <4>3, <4>4, MatchMoves DEF SameJob
        <3>3. CASE Pair(w) \in consumed /\ UNCHANGED consumed /\ Return(w)
            BY <2>p, <3>1, <3>3, MatchReturn
        <3> QED BY <2>c, <2>3, <3>2, <3>3 DEF RecordConsumption
    <2>4. CASE CreateRun(w)
        <3>1. /\ task[w].pc = "create" /\ UNCHANGED <<owed, consumed>> /\ Pair(w) \in Pairs
              /\ task[w].def \in Pipelines /\ task[w].def # None
            BY <2>4, <2>w, ConstantsAssumption DEF CreateRun, WellFormed
        <3>2. task[w].evt \in BusEvents => task[w].evt \in Subscribed[task[w].def]
            BY <2>t, <3>1 DEF Traced, IdsAreFresh
        <3>3. CASE /\ runs' = [runs EXCEPT ![Pair(w)] = "start"]
                   /\ task' = [task EXCEPT ![w].pc = LoopPC(w, 1), ![w].step = 1]
            <4>1. Others(w) /\ task'[w] = [task[w] EXCEPT !.pc = LoopPC(w, 1), !.step = 1]
                BY <1>i, <3>3 DEF Others
            <4>2. LoopPC(w, 1) \in RunPCs
                BY DEF LoopPC, RunPCs
            <4>3. /\ task'[w].src = task[w].src /\ task'[w].evt = task[w].evt
                  /\ task'[w].todo = task[w].todo /\ task'[w].def = task[w].def
                  /\ task'[w].ctx = task[w].ctx /\ task'[w].pc \notin {"idle", "match"}
                BY <2>w, <4>1, <4>2 DEF Task, RunPCs
            <4>4. /\ runs'[Pair(w)] = "start"
                  /\ \A x \in Pairs \ {Pair(w)} : runs'[x] = runs[x]
                BY <1>i, <3>1, <3>3
            <4>5. \A x \in Pairs : /\ runs[x] # "none" => runs'[x] # "none"
                                   /\ Claiming(w, x) => runs'[x] # "none"
                BY <4>4 DEF Claiming
            <4>6. \A p \in Pipelines, e \in BusEvents :
                     runs'[<<p, e>>] # "none" => runs[<<p, e>>] # "none" \/ e \in Subscribed[p]
                <5> SUFFICES ASSUME NEW p \in Pipelines, NEW e \in BusEvents,
                                    runs'[<<p, e>>] # runs[<<p, e>>]
                             PROVE  e \in Subscribed[p]
                    OBVIOUS
                <5>1. <<p, e>> \in Pairs
                    BY DEF Pairs, Ids
                <5>2. <<p, e>> = Pair(w)
                    BY <4>4, <5>1
                <5>3. p = task[w].def /\ e = task[w].evt
                    BY <5>2 DEF Pair
                <5> QED BY <3>2, <5>3
            <4> QED BY <3>1, <4>1, <4>3, <4>5, <4>6, MatchMoves DEF SameJob
        <3>4. CASE ~EventIdFree(task[w].evt) /\ UNCHANGED runs /\ Return(w)
            <4>1. task[w].src # "event"
                <5> SUFFICES ASSUME task[w].src = "event" PROVE FALSE
                    OBVIOUS
                <5>1. PICK q \in Pipelines : runs[<<q, task[w].evt>>] # "none"
                    BY <3>4 DEF EventIdFree
                <5>2. task[w].evt \in BusEvents
                    BY <2>t, <3>1 DEF Traced
                <5>3. task[w].evt \in Subscribed[q] /\ task[w].evt \in Subscribed[task[w].def]
                    BY <3>2, <5>1, <5>2 DEF MatchInv
                <5>4. q = task[w].def
                    BY <3>1, <5>3 DEF OneSubscriberEach
                <5> QED BY <3>1, <5>1, <5>4 DEF Pair, IInv, Ownership
            <4> QED BY <3>1, <3>4, <4>1, MatchReturn
        <3> QED BY <2>c, <2>4, <3>3, <3>4 DEF CreateRun
    <2>5. ASSUME task[w].pc \in RunPCs, task'[w].pc \in RunPCs, Others(w), SameJob(w),
                 UNCHANGED <<owed, runs, consumed>>
          PROVE  MatchInv'
        BY <2>5, MatchQuiet DEF RunPCs
    <2>6. CASE FinishRun(w)
        <3>1. /\ task[w].pc = "finish" /\ UNCHANGED <<owed, consumed>> /\ Return(w)
              /\ Pair(w) \in Pairs /\ runs[Pair(w)] = "start"
            BY <2>6, <2>w DEF FinishRun, IInv, Ownership, RunPCs
        <3>2. PICK o \in Terminal : runs' = [runs EXCEPT ![Pair(w)] = o]
            BY <1>i, <2>c, <2>6, Outcome DEF FinishRun
        <3>3. /\ runs'[Pair(w)] = o /\ o # "none"
              /\ \A x \in Pairs \ {Pair(w)} : runs'[x] = runs[x]
            BY <1>i, <3>1, <3>2 DEF Terminal
        <3>4. \A x \in Pairs : runs[x] # "none" <=> runs'[x] # "none"
            BY <3>1, <3>3
        <3>5. \A p \in Pipelines, e \in BusEvents : <<p, e>> \in Pairs
            BY DEF Pairs, Ids
        <3> QED BY <3>1, <3>3, <3>4, <3>5, MatchReturn
    <2>7. CASE SaveCheckpoint(w)
        <3>1. Others(w) /\ task'[w].pc \in {"begin"} /\ SameJob(w)
            BY <1>i, <2>w, <2>7 DEF SaveCheckpoint, Others, SameJob, Task
        <3> QED BY <2>5, <2>7, <3>1 DEF SaveCheckpoint, RunPCs
    <2>9. CASE InvokeOk(w)
        <3>1. Others(w) /\ task'[w].pc \in {"report"} /\ SameJob(w)
            BY <1>i, <2>w, <2>9 DEF InvokeOk, Others, SameJob, Task
        <3> QED BY <2>5, <2>9, <3>1 DEF InvokeOk, RunPCs
    <2>10. CASE InvokeRetry(w)
        <3>1. Others(w) /\ task'[w].pc \in {"invoke"} /\ SameJob(w)
            BY <1>i, <2>w, <2>10 DEF InvokeRetry, Others, SameJob, Task
        <3> QED BY <2>5, <2>10, <3>1 DEF InvokeRetry, RunPCs
    <2>8. CASE BeginStep(w)
        <3>1. \/ task'[w] = [task[w] EXCEPT !.pc = "invoke", !.attempt = 1]
              \/ \E x \in {"failed", "cancel"} :
                    task'[w] = [task[w] EXCEPT !.pc = "finish", !.err = x]
            BY <1>i, <2>8 DEF BeginStep
        <3>2. Others(w) /\ task'[w].pc \in {"invoke", "finish"} /\ SameJob(w)
            BY <1>i, <2>w, <2>8, <3>1 DEF BeginStep, Others, SameJob, Task
        <3> QED BY <2>5, <2>8, <3>2 DEF BeginStep, RunPCs
    <2>11. CASE InvokeGiveUp(w)
        <3>1. \E x \in {"failed", "cancel"} :
                 task'[w] = [task[w] EXCEPT !.pc = "report", !.err = x]
            BY <1>i, <2>11 DEF InvokeGiveUp
        <3>2. Others(w) /\ task'[w].pc = "report" /\ SameJob(w)
            BY <1>i, <2>w, <2>11, <3>1 DEF InvokeGiveUp, Others, SameJob, Task
        <3> QED BY <2>5, <2>11, <3>2 DEF InvokeGiveUp, RunPCs
    <2>12. CASE ReportStep(w)
        <3>1. LoopPC(w, task[w].step + 1) \in {"finish", "checkpoint", "begin"}
            BY DEF LoopPC
        <3>2. \/ task'[w] = [task[w] EXCEPT !.pc = LoopPC(w, task[w].step + 1),
                                            !.step = task[w].step + 1]
              \/ task'[w] = [task[w] EXCEPT !.pc = "finish"]
            BY <1>i, <2>12 DEF ReportStep
        <3>3. Others(w) /\ task'[w].pc \in RunPCs /\ SameJob(w)
            BY <1>i, <2>w, <2>12, <3>1, <3>2 DEF ReportStep, Others, SameJob, Task, RunPCs
        <3> QED BY <2>5, <2>12, <3>3 DEF ReportStep, RunPCs
    <2> QED BY <1>1, <2>1, <2>2, <2>3, <2>4, <2>6, <2>7, <2>8, <2>9, <2>10, <2>11, <2>12
            DEF Execute
<1>2. ASSUME NEW w \in Workers PROVE ~ContextEnds(w)
    BY DEF Calm, ContextEnds
<1>3. ASSUME NEW w \in Workers, NEW e \in BusEvents, Deliver(w, e) PROVE MatchInv'
    <2> DEFINE found == FindByEvent(e)
    <2>1. /\ Others(w) /\ task'[w] = [Idle EXCEPT !.pc = "match", !.evt = e, !.todo = found]
          /\ UNCHANGED <<runs, consumed>> /\ owed' = owed \cup (found \X {e})
          /\ task[w].pc = "idle"
        BY <1>i, <1>3 DEF Deliver, Others
    <2>2. found \subseteq Pipelines /\ \A p \in found : e \in Subscribed[p]
        BY <1>i DEF FindByEvent, TypeInv, TypeOK
    <2> HIDE DEF found
    <2>3. /\ task'[w].pc = "match" /\ task'[w].evt = e /\ task'[w].todo = found
          /\ task'[w].def = None /\ task'[w].ctx = "live" /\ task'[w].src = "event"
        BY <2>1 DEF Idle
    <2>4. \A v \in Workers : Traced(v)'
        <3>1. Traced(w)'
            BY <2>2, <2>3 DEF Traced
        <3>2. ASSUME NEW v \in Workers \ {w} PROVE Traced(v)'
            BY <2>1, <3>2 DEF MatchInv, Traced, Others
        <3> QED BY <3>1, <3>2
    <2>5. owed' \subseteq Pipelines \X BusEvents
        BY <2>1, <2>2 DEF MatchInv
    <2>6. ASSUME NEW x \in consumed', x[2] \in BusEvents, runs'[x] = "none"
          PROVE  \E v \in Workers : Claiming(v, x)'
        <3>1. PICK v \in Workers : Claiming(v, x)
            BY <2>1, <2>6 DEF MatchInv
        <3> QED BY <2>1, <3>1 DEF Claiming, Others, Pair
    <2>7. ASSUME NEW x \in owed', runs'[x] = "none" PROVE \E v \in Workers : Covers(v, x)'
        <3>1. CASE x \in found \X {e}
            BY <2>3, <3>1 DEF Covers
        <3>2. CASE x \in owed
            <4>1. PICK v \in Workers : Covers(v, x)
                BY <2>1, <2>7, <3>2 DEF MatchInv, NoMatchLost, Covers
            <4>2. v # w
                BY <1>i, <2>1, <3>2, <4>1, ConstantsAssumption DEF MatchInv, Traced, Covers, Pairs
            <4> QED BY <2>1, <4>1, <4>2 DEF Covers, Others
        <3> QED BY <2>1, <2>7, <3>1, <3>2
    <2>8. NoMatchLost'
        BY <2>7 DEF NoMatchLost, Covers
    <2> QED BY <2>1, <2>4, <2>5, <2>6, <2>8 DEF MatchInv
<1>4. ASSUME NEW w \in Workers, NEW p \in Pipelines,
             WebhookRequest(w, p) \/ ManualRequest(w, p) \/ CronTick(w, p)
      PROVE  MatchInv'
    <2>1. PICK source \in {"webhook", "manual", "cron"} : Launch(w, p, source)
        BY <1>4 DEF WebhookRequest, ManualRequest, CronTick
    <2>2. PICK e \in LocalIds :
             task' = [task EXCEPT ![w] = [Idle EXCEPT !.pc = "check", !.src = source,
                                                      !.evt = e, !.def = p]]
        BY <2>1 DEF Launch
    <2>3. /\ Others(w) /\ task'[w] = [Idle EXCEPT !.pc = "check", !.src = source,
                                                  !.evt = e, !.def = p]
          /\ task[w].pc = "idle" /\ UNCHANGED <<owed, runs, consumed>>
        BY <1>i, <2>1, <2>2 DEF Launch, Others
    <2>4. Traced(w)'
        BY <2>3 DEF Traced, Idle
    <2>5. (\A x \in Pairs : ~Claiming(w, x)) /\ \A x \in owed : ~Covers(w, x)
        BY <1>i, <2>3, ConstantsAssumption DEF Claiming, Covers, MatchInv, Traced, Pairs
    <2> QED BY <2>3, <2>4, <2>5, MatchKept
<1>5. ASSUME UNCHANGED <<task, owed, runs, consumed>> PROVE MatchInv'
    <2>1. \A w \in Workers : \A x : /\ Traced(w)' <=> Traced(w)
                                    /\ Claiming(w, x)' <=> Claiming(w, x)
        BY <1>5 DEF Traced, Claiming, Pair
    <2>2. NoMatchLost'
        BY <1>5 DEF MatchInv, NoMatchLost
    <2> QED BY <1>5, <2>1, <2>2 DEF MatchInv
<1>6. ASSUME NEW D \in SUBSET Pipelines, Reload(D) PROVE MatchInv'
    BY <1>5, <1>6 DEF Reload
<1>7. ~Crash
    BY <1>i, ConstantsAssumption DEF Calm, Crash, TypeInv, TypeOK
<1>8. CASE UNCHANGED vars
    BY <1>5, <1>8 DEF vars
<1> QED BY <1>1, <1>2, <1>3, <1>4, <1>6, <1>7, <1>8 DEF Next

(* When no call fails and nothing crashes, every pair that a delivered     *)
(* message matched is queued in a handler, being executed, or has a run:   *)
(* deduplication never takes a pair from the handler that owns it and the  *)
(* message is acknowledged only after the last match (handleEvent).        *)
THEOREM MatchesAreKept ==
    ASSUME Calm, OneSubscriberEach, IdsAreFresh
    PROVE  Spec => []NoMatchLost
<1>1. Init => MatchInv
    BY ConstantsAssumption DEF Init, Idle, MatchInv, Traced, NoMatchLost, Pairs, Ids
<1>2. IInv /\ MatchInv /\ [Next]_vars => MatchInv'
    BY MatchStep
<1>3. MatchInv => NoMatchLost
    BY DEF MatchInv
<1> QED BY <1>1, <1>2, <1>3, Invariant, PTL DEF Spec
=============================================================================
