------------------------ MODULE TaskScheduler_proofs ------------------------
(***************************************************************************)
(* Proofs about TaskScheduler, for every value of the constants: a firing  *)
(* that got past its task's mutex is the only one of the task, and a task  *)
(* that runs once is not run more often than somebody has paid for.        *)
(***************************************************************************)
EXTENDS TaskScheduler, TLAPS

\* Who is busy has a task, a change has a task, and nothing runs in a process
\* that is down.
ShapeInv ==
    /\ \A f \in Firings : fire[f].pc # "idle" => fire[f].task \in Tasks
    /\ user.pc # "idle" => user.task \in Tasks
    /\ phase = "down" => \A f \in Firings : fire[f] = NoFire

\* The mutex of a task is taken for as long as a firing of it executes.
LockInv == \A f \in Firings : fire[f].pc \in Executing => fire[f].task \in locked

\* The firings whose run has begun and has not been accounted for in the row.
Busy(t) == {f \in Firings : fire[f].task = t /\ fire[f].pc \in {"run", "tool", "finalize"}}

\* A row that would let another run begin has paid for it.
Paid(t) == runs[t] + 1 <= activations[t] + faults[t] + restarts

PayInv == \A t \in Once : row[t] = "active" /\ Busy(t) = {} => Paid(t)

IInv == TypeOK /\ ShapeInv /\ LockInv /\ OneRunPerTask /\ PayInv /\ OnceRunsArePaidFor

FireType == [pc : FirePCs, task : Tasks \cup {None}, other : Tasks \cup {None}]

Others(f) == \A g \in Firings \ {f} : fire'[g] = fire[g]

(* What a step of a firing leaves behind. *)
Moved(f, pc) ==
    /\ fire' \in [Firings -> FireType] /\ Others(f)
    /\ fire'[f].pc = pc /\ fire'[f].task = fire[f].task

Ended(f) ==
    /\ fire' \in [Firings -> FireType] /\ Others(f)
    /\ fire'[f].pc = "idle" /\ fire'[f].task = None

(* A move of one firing changes its program counter and nothing else.      *)
LEMMA Moving ==
    ASSUME TypeOK, NEW f \in Firings, NEW pc \in FirePCs, To(f, pc)
    PROVE  Moved(f, pc)
<1>1. fire \in [Firings -> FireType]
    BY DEF TypeOK, FireType
<1> QED BY <1>1 DEF To, Moved, Others, FireType

(* The end of a firing puts it to rest and touches no other.               *)
LEMMA Ending ==
    ASSUME TypeOK, NEW f \in Firings, Ends(f)
    PROVE  Ended(f)
<1>1. fire \in [Firings -> FireType]
    BY DEF TypeOK, FireType
<1>2. NoFire \in FireType /\ NoFire.pc = "idle" /\ NoFire.task = None
    BY DEF NoFire, FireType, FirePCs
<1> QED BY <1>1, <1>2 DEF Ends, Ended, Others

(* The steps of a firing, by what they do to it.                            *)
LEMMA Firing ==
    ASSUME TypeOK, NEW f \in Firings
    PROVE  /\ Begin(f) => Moved(f, "lock") \/ Ended(f)
           /\ Lock(f) => \/ Ended(f) /\ locked' = locked
                         \/ /\ fire[f].task \notin locked /\ Moved(f, "load")
                            /\ locked' = locked \cup {fire[f].task}
           /\ Load(f) => \/ /\ row[fire[f].task] = "active" /\ Moved(f, "run")
                            /\ locked' = locked
                         \/ /\ Ended(f) /\ locked' = locked \ {fire[f].task}
                            /\ runs' = runs
           /\ LoadFails(f) => Ended(f) /\ locked' = locked \ {fire[f].task}
           /\ RunEnds(f) => \/ Moved(f, "finalize") /\ locked' = locked
                            \/ /\ fire[f].task \notin Once /\ Ended(f)
                               /\ locked' = locked \ {fire[f].task}
           /\ Finalize(f) => Moved(f, "unregister")
           /\ Unregister(f) => Ended(f) /\ locked' = locked \ {fire[f].task}
<1>1. Begin(f) => Moved(f, "lock") \/ Ended(f)
    BY Moving, Ending DEF Begin, FirePCs
<1>2. Lock(f) => \/ Ended(f) /\ locked' = locked
                 \/ /\ fire[f].task \notin locked /\ Moved(f, "load")
                    /\ locked' = locked \cup {fire[f].task}
    BY Moving, Ending DEF Lock, FirePCs
<1>3. Load(f) => \/ /\ row[fire[f].task] = "active" /\ Moved(f, "run")
                    /\ locked' = locked
                 \/ /\ Ended(f) /\ locked' = locked \ {fire[f].task}
                    /\ runs' = runs
    BY Moving, Ending DEF Load, Frees, FirePCs
<1>4. LoadFails(f) => Ended(f) /\ locked' = locked \ {fire[f].task}
    BY Ending DEF LoadFails, Frees
<1>5. RunEnds(f) => \/ Moved(f, "finalize") /\ locked' = locked
                    \/ /\ fire[f].task \notin Once /\ Ended(f)
                       /\ locked' = locked \ {fire[f].task}
    BY Moving, Ending DEF RunEnds, Frees, FirePCs
<1>6. Finalize(f) => Moved(f, "unregister")
    BY Moving DEF Finalize, FirePCs
<1>7. Unregister(f) => Ended(f) /\ locked' = locked \ {fire[f].task}
    BY Ending DEF Unregister, Frees
<1> QED BY <1>1, <1>2, <1>3, <1>4, <1>5, <1>6, <1>7

(* The agent's tool is a step of its firing, too.                           *)
LEMMA ToolMoves ==
    ASSUME TypeOK, NEW f \in Firings
    PROVE  /\ \A t \in Tasks : AgentCancels(f, t) => Moved(f, "tool")
           /\ ToolReturns(f) => Moved(f, "run")
<1>1. fire \in [Firings -> FireType]
    BY DEF TypeOK, FireType
<1>2. ASSUME NEW t \in Tasks, AgentCancels(f, t)
      PROVE  Moved(f, "tool")
    BY <1>1, <1>2 DEF AgentCancels, Moved, Others, FireType, FirePCs
<1>3. ASSUME ToolReturns(f)
      PROVE  Moved(f, "run")
    BY <1>1, <1>3 DEF ToolReturns, Moved, Others, FireType, FirePCs
<1> QED BY <1>2, <1>3

(* Only an idle goroutine is taken for a task. *)
Spawned(t) ==
    /\ fire' \in [Firings -> FireType]
    /\ \A g \in Firings : \/ fire'[g] = fire[g]
                          \/ /\ fire[g].pc = "idle"
                             /\ fire'[g].pc = "begin" /\ fire'[g].task = t

(* A firing that begins has the type of a firing.                          *)
LEMMA BeginType ==
    ASSUME NEW t \in Tasks
    PROVE  Begins(t) \in FireType /\ Begins(t).pc = "begin" /\ Begins(t).task = t
BY DEF Begins, NoFire, FireType, FirePCs

(* A firing is started on a goroutine that was at rest.                    *)
LEMMA Spawning ==
    ASSUME TypeOK, NEW t \in Tasks, Spawns(t)
    PROVE  Spawned(t)
<1>1. fire \in [Firings -> FireType]
    BY DEF TypeOK, FireType
<1> QED BY <1>1, BeginType DEF Spawns, Spawned

(* An update of a task makes no row active. *)
LEMMA Rearming ==
    ASSUME TypeOK, NEW t \in Tasks, Rearm(t)
    PROVE  /\ Spawned(t) /\ armed' \subseteq Tasks /\ row' \in [Tasks -> States \cup {None}]
           /\ \A s \in Tasks : row'[s] = "active" => row[s] = "active"
<1>1. fire \in [Firings -> FireType]
    BY DEF TypeOK, FireType
<1>2. Spawned(t)
    <2>1. CASE UNCHANGED fire
        BY <1>1, <2>1 DEF Spawned
    <2> QED BY <2>1, Spawning DEF Rearm
<1>3. row' = row \/ row' = [row EXCEPT ![t] = "missed"]
    BY DEF Rearm
<1> QED BY <1>2, <1>3 DEF Rearm, Disarm, TypeOK, States

(* A process that starts has only firings that are about to begin. *)
LEMMA Starting ==
    ASSUME TypeOK, Start
    PROVE  /\ fire' \in [Firings -> FireType] /\ armed' \subseteq Tasks
           /\ row' \in [Tasks -> States \cup {None}]
           /\ \A s \in Tasks : row'[s] = "active" => row[s] = "active"
           /\ \A f \in Firings :
                 \/ fire'[f].pc = "idle"
                 \/ fire'[f].pc = "begin" /\ fire'[f].task \in Tasks
<1>1. NoFire \in FireType /\ NoFire.pc = "idle"
    BY DEF NoFire, FireType, FirePCs
<1>2. PICK grace \in SUBSET Tasks : fire' \in [Firings -> {NoFire} \cup {Begins(t) : t \in grace}]
    BY DEF Start
<1>3. \A f \in Firings : fire'[f] = NoFire \/ \E t \in Tasks : fire'[f] = Begins(t)
    BY <1>2
<1>4. PICK missed \in SUBSET Tasks :
         row' = [t \in Tasks |-> IF t \in missed THEN "missed" ELSE row[t]]
    BY DEF Start
<1>5. fire' \in [Firings -> FireType]
    BY <1>1, <1>2, <1>3, BeginType
<1>6. armed' \subseteq Tasks
    BY DEF Start
<1>7. row' \in [Tasks -> States \cup {None}] /\ \A s \in Tasks : row'[s] = "active" => row[s] = "active"
    BY <1>4 DEF TypeOK, States
<1> QED BY <1>1, <1>3, <1>5, <1>6, <1>7, BeginType

(* Every step keeps the types and the shape of firings and changes.        *)
LEMMA TypeStep ==
    ASSUME SchedulerAssumption, TypeOK, ShapeInv, [Next]_vars
    PROVE  TypeOK' /\ ShapeInv'
<1>1. ASSUME NEW t \in Tasks, Create(t)
      PROVE  TypeOK' /\ ShapeInv'
    BY <1>1, SchedulerAssumption DEF Create, Asks, Sets, Then, Keeps, TypeOK, ShapeInv,
       SchedulerAssumption, Alive, rows, counts, At, To, Ends, Frees, FirePCs, States,
       Phases
<1>2. ASSUME NEW t \in Tasks, Edit(t)
      PROVE  TypeOK' /\ ShapeInv'
    BY <1>2, SchedulerAssumption DEF Edit, Asks, Then, Keeps, TypeOK, ShapeInv,
       SchedulerAssumption, Alive, rows, counts, At, To, Ends, Frees, FirePCs, States,
       Phases
<1>3. ASSUME NEW t \in Tasks, SetState(t)
      PROVE  TypeOK' /\ ShapeInv'
    BY <1>3, SchedulerAssumption DEF SetState, Asks, Sets, Then, Keeps, TypeOK,
       ShapeInv, SchedulerAssumption, Alive, rows, counts, At, To, Ends, Frees, FirePCs,
       States, Phases
<1>4. ASSUME NEW t \in Tasks, Cancel(t)
      PROVE  TypeOK' /\ ShapeInv'
    BY <1>4, SchedulerAssumption DEF Cancel, Asks, Sets, Then, Keeps, TypeOK, ShapeInv,
       SchedulerAssumption, Alive, rows, counts, At, To, Ends, Frees, FirePCs, States,
       Phases
<1>5. ASSUME NEW t \in Tasks, Pass(t)
      PROVE  TypeOK' /\ ShapeInv'
    BY <1>5, SchedulerAssumption DEF Pass, TypeOK, ShapeInv, SchedulerAssumption, Alive,
       rows, counts, At, To, Ends, Frees, FirePCs, States, Phases
<1>6. ASSUME NEW t \in Tasks, Fire(t)
      PROVE  TypeOK' /\ ShapeInv'
    BY <1>6, SchedulerAssumption, Spawning DEF Fire, Disarm, TypeOK, ShapeInv,
       SchedulerAssumption, Alive, rows, counts, At, Frees, FirePCs, States, Phases,
       Spawned, FireType
<1>7. CASE Write
    BY <1>7, SchedulerAssumption DEF Write, Sets, Then, TypeOK, ShapeInv,
       SchedulerAssumption, Alive, rows, counts, At, To, Ends, Frees, FirePCs, States,
       Phases
<1>8. CASE ReadBack
    BY <1>8, SchedulerAssumption DEF ReadBack, Then, Keeps, TypeOK, ShapeInv,
       SchedulerAssumption, Alive, rows, counts, At, To, Ends, Frees, FirePCs, States,
       Phases
<1>9. CASE Sync
    <2>1. user.task \in Tasks /\ UNCHANGED <<due, phase, locked, counts>> /\ user' = NoUser
        BY <1>9 DEF Sync, ShapeInv
    <2>2. /\ fire' \in [Firings -> FireType] /\ armed' \subseteq Tasks
          /\ row' \in [Tasks -> States \cup {None}]
          /\ \A g \in Firings : fire'[g].pc # "idle" => fire'[g].task \in Tasks
        <3>1. CASE Rearm(user.task)
            BY <2>1, <3>1, Rearming DEF Spawned, ShapeInv
        <3>2. CASE Disarm(user.task) /\ UNCHANGED <<row, fire>>
            BY <3>2 DEF Disarm, TypeOK, ShapeInv, FireType
        <3> QED BY <1>9, <3>1, <3>2 DEF Sync
    <2>3. TypeOK'
        BY <2>1, <2>2 DEF TypeOK, FireType, NoUser, counts
    <2>4. phase # "down"
        BY <1>9 DEF Sync, MutexFree, Alive
    <2> QED BY <2>1, <2>2, <2>3, <2>4 DEF ShapeInv, NoUser
<1>10. ASSUME NEW f \in Firings, Begin(f)
      PROVE  TypeOK' /\ ShapeInv'
    BY <1>10, SchedulerAssumption, Firing DEF Begin, TypeOK, ShapeInv,
       SchedulerAssumption, Alive, rows, counts, At, Frees, FirePCs, States, Phases,
       Moved, Ended, Others, FireType
<1>11. ASSUME NEW f \in Firings, Lock(f)
      PROVE  TypeOK' /\ ShapeInv'
    BY <1>11, SchedulerAssumption, Firing DEF Lock, TypeOK, ShapeInv,
       SchedulerAssumption, Alive, rows, counts, At, Frees, FirePCs, States, Phases,
       Moved, Ended, Others, FireType
<1>12. ASSUME NEW f \in Firings, Load(f)
      PROVE  TypeOK' /\ ShapeInv'
    BY <1>12, SchedulerAssumption, Firing DEF Load, TypeOK, ShapeInv,
       SchedulerAssumption, Alive, rows, counts, At, Frees, FirePCs, States, Phases,
       Moved, Ended, Others, FireType
<1>13. ASSUME NEW f \in Firings, LoadFails(f)
      PROVE  TypeOK' /\ ShapeInv'
    BY <1>13, SchedulerAssumption, Firing DEF LoadFails, TypeOK, ShapeInv,
       SchedulerAssumption, Alive, rows, counts, At, Frees, FirePCs, States, Phases,
       Moved, Ended, Others, FireType
<1>14. ASSUME NEW f \in Firings, ToolReturns(f)
      PROVE  TypeOK' /\ ShapeInv'
    BY <1>14, SchedulerAssumption, ToolMoves DEF ToolReturns, Disarm, TypeOK, ShapeInv,
       SchedulerAssumption, Alive, rows, counts, At, To, Ends, Frees, FirePCs, States,
       Phases, Moved, Others, FireType
<1>15. ASSUME NEW f \in Firings, RunEnds(f)
      PROVE  TypeOK' /\ ShapeInv'
    BY <1>15, SchedulerAssumption, Firing DEF RunEnds, TypeOK, ShapeInv,
       SchedulerAssumption, Alive, rows, counts, At, Frees, FirePCs, States, Phases,
       Moved, Ended, Others, FireType
<1>16. ASSUME NEW f \in Firings, Finalize(f)
      PROVE  TypeOK' /\ ShapeInv'
    BY <1>16, SchedulerAssumption, Firing DEF Finalize, TypeOK, ShapeInv,
       SchedulerAssumption, Alive, rows, counts, At, Frees, FirePCs, States, Phases,
       Moved, Ended, Others, FireType
<1>17. ASSUME NEW f \in Firings, Unregister(f)
      PROVE  TypeOK' /\ ShapeInv'
    BY <1>17, SchedulerAssumption, Firing DEF Unregister, Disarm, TypeOK, ShapeInv,
       SchedulerAssumption, Alive, rows, counts, At, Frees, FirePCs, States, Phases,
       Moved, Ended, Others, FireType
<1>18. ASSUME NEW f \in Firings, NEW t \in Tasks, AgentCancels(f, t)
      PROVE  TypeOK' /\ ShapeInv'
    BY <1>18, SchedulerAssumption, ToolMoves DEF AgentCancels, TypeOK, ShapeInv,
       SchedulerAssumption, Alive, rows, counts, At, To, Ends, Frees, FirePCs, States,
       Phases, Moved, Others, FireType
<1>19. CASE Shutdown
    BY <1>19, SchedulerAssumption DEF Shutdown, TypeOK, ShapeInv, SchedulerAssumption,
       Alive, rows, counts, At, To, Ends, Frees, FirePCs, States, Phases
<1>20. CASE StopLocks
    BY <1>20, SchedulerAssumption DEF StopLocks, TypeOK, ShapeInv, SchedulerAssumption,
       Alive, rows, counts, At, To, Ends, Frees, FirePCs, States, Phases
<1>21. CASE StopReturns
    BY <1>21, SchedulerAssumption DEF StopReturns, TypeOK, ShapeInv,
       SchedulerAssumption, Alive, rows, counts, At, To, Ends, Frees, FirePCs, States,
       Phases
<1>22. CASE Exit
    BY <1>22, SchedulerAssumption DEF Exit, NoFire, NoUser, Alive, TypeOK, ShapeInv,
       SchedulerAssumption, Alive, rows, counts, At, To, Ends, Frees, FirePCs, States,
       Phases
<1>23. CASE Start
    BY <1>23, SchedulerAssumption, Starting DEF Start, TypeOK, ShapeInv,
       SchedulerAssumption, Alive, rows, counts, At, Frees, FirePCs, States, Phases,
       FireType
<1>24. CASE UNCHANGED vars
    BY <1>24, SchedulerAssumption DEF TypeOK, ShapeInv, SchedulerAssumption, Alive,
       rows, counts, At, To, Ends, Frees, FirePCs, States, Phases, vars
<1> QED BY <1>1, <1>2, <1>3, <1>4, <1>5, <1>6, <1>7, <1>8, <1>9, <1>10, <1>11, <1>12,
       <1>13, <1>14, <1>15, <1>16, <1>17, <1>18, <1>19, <1>20, <1>21, <1>22, <1>23,
       <1>24 DEF Next, Change, UserStep, FireStep, StopStep

(* What a step of one firing may do to the mutexes.                         *)
LEMMA LockKept ==
    ASSUME TypeOK, LockInv, OneRunPerTask, NEW f \in Firings, Others(f),
           \/ /\ locked' = locked
              /\ fire'[f].pc \in Executing
                 => fire[f].pc \in Executing /\ fire'[f].task = fire[f].task
           \/ /\ fire[f].task \notin locked /\ locked' = locked \cup {fire[f].task}
              /\ fire'[f].task = fire[f].task
           \/ /\ fire[f].pc \in Executing /\ fire'[f].pc = "idle"
              /\ locked' = locked \ {fire[f].task}
    PROVE  LockInv' /\ OneRunPerTask'
<1>1. ASSUME NEW g \in Firings, NEW h \in Firings, fire[g].pc \in Executing,
             fire[h].pc \in Executing, fire[g].task = fire[h].task
      PROVE  g = h
    <2>1. fire[g].task \in Tasks
        BY <1>1 DEF LockInv, TypeOK
    <2>2. g \in Runs(fire[g].task) /\ h \in Runs(fire[g].task)
        BY <1>1 DEF Runs
    <2> QED BY <2>1, <2>2 DEF OneRunPerTask
<1>2. "idle" \notin Executing
    BY DEF Executing
<1>3. LockInv'
    BY <1>1, <1>2 DEF LockInv, Others
<1>4. ASSUME NEW g \in Firings, NEW h \in Firings, fire'[g].pc \in Executing,
             fire'[h].pc \in Executing, fire'[g].task = fire'[h].task, g # h
      PROVE  FALSE
    <2>1. CASE g = f
        BY <1>1, <1>2, <1>4, <2>1 DEF LockInv, Others
    <2>2. CASE h = f
        BY <1>1, <1>2, <1>4, <2>2 DEF LockInv, Others
    <2>3. CASE g # f /\ h # f
        BY <1>1, <1>4, <2>3 DEF Others
    <2> QED BY <2>1, <2>2, <2>3
<1> QED BY <1>3, <1>4 DEF OneRunPerTask, Runs

(* The steps of a firing keep the locks and the runs exclusive.            *)
LEMMA LockSteps ==
    ASSUME TypeOK, ShapeInv, LockInv, OneRunPerTask, NEW f \in Firings,
           FireStep(f) \/ \E t \in Tasks : AgentCancels(f, t)
    PROVE  LockInv' /\ OneRunPerTask'
<1>1. CASE Begin(f)
    BY <1>1, Firing, LockKept DEF Begin, Moved, Ended, Executing
<1>2. CASE Lock(f)
    BY <1>2, Firing, LockKept DEF Moved, Ended, Executing
<1>3. CASE Load(f)
    BY <1>3, Firing, LockKept DEF Load, At, Moved, Ended, Executing
<1>4. CASE LoadFails(f)
    BY <1>4, Firing, LockKept DEF LoadFails, At, Ended, Executing
<1>5. CASE ToolReturns(f)
    BY <1>5, ToolMoves, LockKept DEF ToolReturns, At, Moved, Executing
<1>6. CASE RunEnds(f)
    BY <1>6, Firing, LockKept DEF RunEnds, At, Moved, Ended, Executing
<1>7. CASE Finalize(f)
    BY <1>7, Firing, LockKept DEF Finalize, At, Moved, Executing
<1>8. CASE Unregister(f)
    BY <1>8, Firing, LockKept DEF Unregister, At, Ended, Executing
<1>9. CASE \E t \in Tasks : AgentCancels(f, t)
    BY <1>9, ToolMoves, LockKept DEF AgentCancels, At, Moved, Executing
<1> QED BY <1>1, <1>2, <1>3, <1>4, <1>5, <1>6, <1>7, <1>8, <1>9 DEF FireStep

(* A step that takes goroutines for tasks, or none, leaves the mutexes.     *)
LEMMA LockIdle ==
    ASSUME LockInv, OneRunPerTask, locked' = locked,
           \A g \in Firings : fire'[g].pc \in Executing => fire'[g] = fire[g]
    PROVE  LockInv' /\ OneRunPerTask'
BY DEF LockInv, OneRunPerTask, Runs

(* Every step keeps the mutexes of the firings that execute, one for each.  *)
LEMMA LockStep ==
    ASSUME TypeOK, ShapeInv, LockInv, OneRunPerTask, [Next]_vars
    PROVE  LockInv' /\ OneRunPerTask'
<1>1. CASE UNCHANGED <<fire, locked>>
    BY <1>1, LockIdle
<1>2. CASE Start
    BY <1>2, Starting, LockIdle DEF Start, Executing
<1>3. CASE Exit
    BY <1>3 DEF Exit, NoFire, LockInv, OneRunPerTask, Runs, Executing
<1>4. ASSUME NEW t \in Tasks, Fire(t)
      PROVE  LockInv' /\ OneRunPerTask'
    BY <1>4, Spawning, LockIdle DEF Fire, Spawned, Executing
<1>5. CASE Sync
    <2>1. UNCHANGED fire \/ Spawned(user.task)
        BY <1>5, Rearming DEF Sync, ShapeInv
    <2> QED BY <1>5, <2>1, LockIdle DEF Sync, Spawned, Executing
<1>6. ASSUME NEW f \in Firings, FireStep(f) \/ \E t \in Tasks : AgentCancels(f, t)
      PROVE  LockInv' /\ OneRunPerTask'
    BY <1>6, LockSteps
<1>7. ASSUME NEW t \in Tasks, Change(t) \/ Pass(t)
      PROVE  LockInv' /\ OneRunPerTask'
    BY <1>1, <1>7 DEF Change, Create, Edit, SetState, Cancel, Keeps, Pass
<1>8. CASE Write \/ ReadBack \/ Shutdown \/ StopStep
    BY <1>1, <1>8 DEF Write, ReadBack, Keeps, Shutdown, StopStep, StopLocks, StopReturns
<1> QED BY <1>1, <1>2, <1>3, <1>4, <1>5, <1>6, <1>7, <1>8 DEF Next, UserStep, vars

(* A step that lets no further run begin costs nothing.                     *)
LEMMA NothingToPay ==
    ASSUME PayInv, OnceRunsArePaidFor, UNCHANGED <<runs, activations, faults, restarts>>,
           \A t \in Once : row'[t] = "active" /\ Busy(t)' = {} => row[t] = "active" /\ Busy(t) = {}
    PROVE  PayInv' /\ OnceRunsArePaidFor'
BY DEF PayInv, Paid, OnceRunsArePaidFor

(* A user who makes a task active pays for its next run.                    *)
LEMMA SettingPays ==
    ASSUME SchedulerAssumption, TypeOK, PayInv, OnceRunsArePaidFor,
           NEW t \in Tasks, NEW s \in States, Sets(t, s), UNCHANGED <<fire, runs, faults, restarts>>
    PROVE  PayInv' /\ OnceRunsArePaidFor'
<1> SUFFICES ASSUME NEW u \in Once
             PROVE  /\ row'[u] = "active" /\ Busy(u)' = {} => Paid(u)'
                    /\ runs'[u] <= activations'[u] + faults'[u] + restarts'
    BY DEF PayInv, OnceRunsArePaidFor
<1>1. Busy(u)' = Busy(u)
    BY DEF Busy
<1>2. /\ u \in Tasks /\ runs[u] \in Nat /\ activations[u] \in Nat /\ faults[u] \in Nat
      /\ restarts \in Nat /\ runs[u] <= activations[u] + faults[u] + restarts
      /\ row[u] = "active" /\ Busy(u) = {} => Paid(u)
    BY DEF TypeOK, SchedulerAssumption, PayInv, OnceRunsArePaidFor
<1>3. CASE u = t
    <2>1. row'[u] = s /\ activations'[u] = IF s = "active" THEN activations[u] + 1 ELSE activations[u]
        BY <1>2, <1>3 DEF Sets, TypeOK
    <2> QED BY <1>1, <1>2, <2>1 DEF Paid
<1>4. CASE u # t
    <2>1. row'[u] = row[u] /\ activations'[u] = activations[u]
        BY <1>2, <1>4 DEF Sets, TypeOK
    <2> QED BY <1>1, <1>2, <2>1 DEF Paid
<1> QED BY <1>3, <1>4

(* The runs of a firing.                                                    *)
LEMMA FiringPays ==
    ASSUME SchedulerAssumption, TypeOK, ShapeInv, LockInv, OneRunPerTask, PayInv,
           OnceRunsArePaidFor, NEW f \in Firings,
           FireStep(f) \/ \E t \in Tasks : AgentCancels(f, t)
    PROVE  PayInv' /\ OnceRunsArePaidFor'
<1>1. CASE Begin(f)
    BY <1>1, Firing, NothingToPay DEF Begin, At, Moved, Ended, Others, Busy, counts, rows
<1>2. CASE Lock(f)
    BY <1>2, Firing, NothingToPay DEF Lock, At, Moved, Ended, Others, Busy, counts, rows
<1>3. CASE Load(f) /\ Ended(f) /\ runs' = runs
    BY <1>3, NothingToPay DEF Load, At, Ended, Others, Busy, rows
<1>4. CASE Load(f) /\ row[fire[f].task] = "active" /\ Moved(f, "run")
    <2> DEFINE u == fire[f].task
    <2>1. u \in Tasks /\ fire[f].pc = "load"
        BY <1>4 DEF Load, At, ShapeInv
    <2>2. /\ Busy(u) = {}
          /\ f \in {g \in Firings : fire'[g].task = u /\ fire'[g].pc \in {"run", "tool", "finalize"}}
        <3>1. \A g \in Runs(u) : g = f
            BY <2>1 DEF OneRunPerTask, Runs, Executing
        <3> QED BY <1>4, <2>1, <3>1 DEF Busy, Runs, Executing, Moved
    <2>3. /\ UNCHANGED <<row, activations, faults, restarts>>
          /\ runs' = [runs EXCEPT ![u] = @ + IF u \in Once THEN 1 ELSE 0]
        BY <1>4, <2>1 DEF Load, rows
    <2>4. u \in Once => Paid(u)
        BY <1>4, <2>2 DEF PayInv
    <2>5. ASSUME NEW v \in Once
          PROVE  /\ row'[v] = "active" /\ Busy(v)' = {} => Paid(v)'
                 /\ runs'[v] <= activations'[v] + faults'[v] + restarts'
        <3>1. v \in Tasks /\ runs[v] \in Nat /\ activations[v] \in Nat /\ faults[v] \in Nat /\ restarts \in Nat
            BY DEF TypeOK, SchedulerAssumption
        <3>2. CASE v = u
            <4>1. runs'[v] = runs[v] + 1
                BY <2>3, <3>1, <3>2 DEF TypeOK
            <4>2. Busy(v)' # {}
                BY <2>2, <3>2 DEF Busy
            <4>3. runs[v] + 1 <= activations[v] + faults[v] + restarts
                BY <2>4, <3>2 DEF Paid
            <4> QED BY <2>3, <4>1, <4>2, <4>3
        <3>3. CASE v # u
            <4>1. runs'[v] = runs[v]
                BY <2>3, <3>1, <3>3 DEF TypeOK
            <4>2. Busy(v)' = {} => Busy(v) = {}
                BY <1>4, <3>3 DEF Moved, Others, Busy
            <4> QED BY <2>3, <3>1, <4>1, <4>2 DEF Paid, PayInv, OnceRunsArePaidFor
        <3> QED BY <3>2, <3>3
    <2> QED BY <2>5 DEF PayInv, OnceRunsArePaidFor
<1>5. CASE LoadFails(f)
    BY <1>5, Firing, NothingToPay DEF LoadFails, At, Ended, Others, Busy, counts, rows
<1>6. CASE ToolReturns(f)
    BY <1>6, ToolMoves, NothingToPay DEF ToolReturns, At, Moved, Others, Busy, counts, rows
<1>7. CASE RunEnds(f)
    BY <1>7, Firing, NothingToPay DEF RunEnds, At, Moved, Ended, Others, Busy, counts, rows
<1>8. CASE Finalize(f)
    <2> DEFINE u == fire[f].task
    <2>1. u \in Tasks /\ Moved(f, "unregister")
        BY <1>8, Firing DEF Finalize, At, ShapeInv
    <2>2. ASSUME NEW v \in Once
          PROVE  /\ row'[v] = "active" /\ Busy(v)' = {} => Paid(v)'
                 /\ runs'[v] <= activations'[v] + faults'[v] + restarts'
        <3>1. /\ v \in Tasks /\ runs[v] \in Nat /\ activations[v] \in Nat /\ faults[v] \in Nat
              /\ restarts \in Nat /\ runs[v] <= activations[v] + faults[v] + restarts
              /\ UNCHANGED <<runs, activations, restarts>>
            BY <1>8 DEF Finalize, TypeOK, SchedulerAssumption, OnceRunsArePaidFor
        <3>2. CASE v = u
            <4>1. CASE row'[v] # "active" /\ faults' = faults
                BY <3>1, <4>1
            <4>2. CASE faults'[v] = faults[v] + 1
                BY <3>1, <4>2 DEF Paid
            <4> QED BY <1>8, <2>1, <3>1, <3>2, <4>1, <4>2 DEF Finalize, TypeOK
        <3>3. CASE v # u
            <4>1. row'[v] = row[v] /\ faults'[v] = faults[v]
                BY <1>8, <3>1, <3>3 DEF Finalize, TypeOK
            <4>2. Busy(v)' = {} => Busy(v) = {}
                BY <2>1, <3>3 DEF Moved, Others, Busy
            <4> QED BY <3>1, <4>1, <4>2 DEF Paid, PayInv
        <3> QED BY <3>2, <3>3
    <2> QED BY <2>2 DEF PayInv, OnceRunsArePaidFor
<1>9. CASE Unregister(f)
    BY <1>9, Firing, NothingToPay DEF Unregister, At, Ended, Others, Busy, counts, rows
<1>10. ASSUME NEW t \in Tasks, AgentCancels(f, t)
       PROVE  PayInv' /\ OnceRunsArePaidFor'
    <2>1. \A v \in Once : row'[v] = "active" => row[v] = "active"
        BY <1>10 DEF AgentCancels, TypeOK, SchedulerAssumption
    <2>2. \A v \in Once : Busy(v)' = {} => Busy(v) = {}
        BY <1>10, ToolMoves DEF Moved, Others, Busy
    <2> QED BY <1>10, <2>1, <2>2, NothingToPay DEF AgentCancels, counts
<1> QED BY <1>1, <1>2, <1>3, <1>4, <1>5, <1>6, <1>7, <1>8, <1>9, <1>10, Firing DEF FireStep

(* Every step pays for the runs that it makes possible.                     *)
LEMMA PayStep ==
    ASSUME SchedulerAssumption, TypeOK, ShapeInv, LockInv, OneRunPerTask, PayInv,
           OnceRunsArePaidFor, [Next]_vars
    PROVE  PayInv' /\ OnceRunsArePaidFor'
<1>1. CASE UNCHANGED <<row, fire, runs, activations, faults, restarts>>
    BY <1>1, NothingToPay DEF Busy
<1>2. CASE Start
    <2>1. \A v \in Once : Busy(v) = {}
        BY <1>2 DEF Start, ShapeInv, Busy, NoFire
    <2> QED BY <1>2, <2>1, Starting, NothingToPay DEF Start, counts, SchedulerAssumption
<1>3. CASE Exit
    <2>1. \A v \in Once : v \in Tasks /\ runs[v] \in Nat /\ activations[v] \in Nat /\ faults[v] \in Nat
        BY DEF TypeOK, SchedulerAssumption
    <2>2. restarts \in Nat /\ restarts' = restarts + 1 /\ UNCHANGED <<runs, activations, faults>>
        BY <1>3 DEF Exit, TypeOK
    <2> QED BY <2>1, <2>2 DEF PayInv, Paid, OnceRunsArePaidFor
<1>4. ASSUME NEW t \in Tasks, Fire(t)
      PROVE  PayInv' /\ OnceRunsArePaidFor'
    BY <1>4, Spawning, NothingToPay DEF Fire, Spawned, Busy, rows, counts
<1>5. CASE Sync
    <2>1. UNCHANGED counts /\ \/ UNCHANGED <<row, fire>>
                              \/ /\ Spawned(user.task)
                                 /\ \A v \in Tasks : row'[v] = "active" => row[v] = "active"
        BY <1>5, Rearming DEF Sync, ShapeInv
    <2>2. \A v \in Once : Busy(v)' = {} => Busy(v) = {}
        BY <2>1 DEF Spawned, Busy
    <2> QED BY <2>1, <2>2, NothingToPay DEF counts, SchedulerAssumption
<1>6. ASSUME NEW f \in Firings, FireStep(f) \/ \E t \in Tasks : AgentCancels(f, t)
      PROVE  PayInv' /\ OnceRunsArePaidFor'
    BY <1>6, FiringPays
<1>7. ASSUME NEW t \in Tasks, Change(t) \/ Pass(t)
      PROVE  PayInv' /\ OnceRunsArePaidFor'
    BY <1>1, <1>7, SettingPays DEF Change, Create, Edit, SetState, Cancel, Keeps, Pass, States, counts
<1>8. CASE Write
    <2>1. user.task \in Tasks
        BY <1>8 DEF Write, ShapeInv
    <2> QED BY <1>1, <1>8, <2>1, SettingPays DEF Write, States
<1>9. CASE ReadBack \/ Shutdown \/ StopStep
    BY <1>1, <1>9 DEF ReadBack, Keeps, Shutdown, StopStep, StopLocks, StopReturns, counts, rows
<1> QED BY <1>1, <1>2, <1>3, <1>4, <1>5, <1>6, <1>7, <1>8, <1>9 DEF Next, UserStep, vars, rows, counts

(* The invariant holds throughout.                                         *)
LEMMA Invariant == Spec => []IInv
<1>1. Init => IInv
    <2> SUFFICES ASSUME Init PROVE IInv
        OBVIOUS
    <2>1. TypeOK
        BY DEF Init, TypeOK, NoFire, NoUser, FirePCs, States, Phases
    <2>2. \A f \in Firings : fire[f].pc = "idle"
        BY DEF Init, NoFire
    <2>3. ShapeInv
        BY <2>2 DEF Init, ShapeInv, NoUser
    <2>4. LockInv /\ OneRunPerTask
        BY <2>2 DEF LockInv, OneRunPerTask, Runs, Executing
    <2>5. PayInv /\ OnceRunsArePaidFor
        BY SchedulerAssumption DEF SchedulerAssumption, States, Init, PayInv, OnceRunsArePaidFor
    <2> QED BY <2>1, <2>3, <2>4, <2>5 DEF IInv
<1>2. IInv /\ [Next]_vars => IInv'
    BY SchedulerAssumption, TypeStep, LockStep, PayStep DEF IInv
<1> QED BY <1>1, <1>2, PTL DEF Spec

(* The types of the scheduler's state. *)
THEOREM SchedulerType == Spec => []TypeOK
<1>1. IInv => TypeOK
    BY DEF IInv
<1> QED BY <1>1, Invariant, PTL

(* However many timers, ticks and goroutines fire a task, and however often it *)
(* is updated meanwhile, one firing of it executes at a time.                  *)
THEOREM TasksExclude == Spec => []OneRunPerTask
<1>1. IInv => OneRunPerTask
    BY DEF IInv
<1> QED BY <1>1, Invariant, PTL

(* A task that runs once runs again only for an activation, a final state that *)
(* was not written, or a restart.                                              *)
THEOREM OnceMeansOnce == Spec => []OnceRunsArePaidFor
<1>1. IInv => OnceRunsArePaidFor
    BY DEF IInv
<1> QED BY <1>1, Invariant, PTL
=============================================================================
