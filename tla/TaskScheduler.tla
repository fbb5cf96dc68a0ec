--------------------------- MODULE TaskScheduler ---------------------------
(***************************************************************************)
(* Scheduled tasks of the chat agent (internal/server/chatagent:           *)
(* scheduler.go, scheduled_run.go, scheduled_api.go, schedule_tool.go).    *)
(* A task recurs (cron) or runs once; the scheduler keeps a cron entry or  *)
(* a timer for it, a firing loads the row of the task, runs its prompt     *)
(* and, if it runs once, writes its final state.  Users, and the agent of  *)
(* a run itself, change rows and then the scheduler's hooks.  One user at  *)
(* a time changes a task.                                                  *)
(*                                                                         *)
(* The mutex of the scheduler is free except while Stop holds it and waits *)
(* for the cron jobs; every other step under it is one step here.  A task  *)
(* that runs once is due in the "future", was due less than the "grace"    *)
(* window of five minutes ago, or before that ("late").  The rows of runs  *)
(* and the replies, which nothing here reads, are left out.                *)
(***************************************************************************)
EXTENDS Naturals, FiniteSets

CONSTANTS
    Tasks,
    Once,           \* the tasks that run once; the others recur
    Firings,        \* bound: goroutines that run tasks at a time
    MaxChanges,     \* bound: changes of rows by users
    MaxFaults,      \* bound: failing writes of a final state, for each task
    MaxRestarts,    \* bound: ends of the process
    None

States == {"active", "paused", "cancelled", "completed", "failed", "missed"}

ASSUME SchedulerAssumption ==
    /\ Once \subseteq Tasks /\ None \notin Tasks \cup States
    /\ MaxChanges \in Nat /\ MaxFaults \in Nat /\ MaxRestarts \in Nat

VARIABLES
    row,            \* the state of each task's row, None if there is none
    due,            \* when a task that runs once is due, by its row
    phase,          \* of the scheduler, see Phases
    armed,          \* the tasks with a cron entry or a timer that has not fired
    locked,         \* taskLocks: the tasks whose mutex is taken
    fire,           \* the firings: where each is, and its task
    user,           \* a change: where it is, its task, the state it has read
    runs,           \* how often a task that runs once was run
    activations,    \* how often a user made or set a row active
    faults,         \* final states that could not be written
    restarts,
    changes

rows   == <<row, due>>
counts == <<runs, activations, faults, restarts, changes>>
vars   == <<rows, phase, armed, locked, fire, user, counts>>

\* Stop has set shutdown; it holds the mutex; it has returned; the process is down.
Phases == {"up", "shutdown", "waiting", "stopped", "down"}
FirePCs == {"idle", "begin", "lock", "load", "run", "tool", "finalize", "unregister"}
Executing == {"load", "run", "tool", "finalize", "unregister"}

NoFire == [pc |-> "idle", task |-> None, other |-> None]
NoUser == [pc |-> "idle", task |-> None, state |-> None]

TypeOK ==
    /\ row \in [Tasks -> States \cup {None}] /\ due \in [Tasks -> {"future", "grace", "late"}]
    /\ phase \in Phases /\ armed \subseteq Tasks /\ locked \subseteq Tasks
    /\ fire \in [Firings -> [pc : FirePCs, task : Tasks \cup {None}, other : Tasks \cup {None}]]
    /\ user \in [pc : {"idle", "write", "read", "sync"}, task : Tasks \cup {None},
                 state : States \cup {None}]
    /\ runs \in [Tasks -> Nat] /\ activations \in [Tasks -> Nat] /\ faults \in [Tasks -> Nat]
    /\ restarts \in Nat /\ changes \in Nat

Init ==
    /\ row = [t \in Tasks |-> None] /\ due = [t \in Tasks |-> "future"]
    /\ phase = "up" /\ armed = {} /\ locked = {}
    /\ fire = [f \in Firings |-> NoFire] /\ user = NoUser
    /\ runs = [t \in Tasks |-> 0] /\ activations = [t \in Tasks |-> 0]
    /\ faults = [t \in Tasks |-> 0] /\ restarts = 0 /\ changes = 0

Alive     == phase # "down"
MutexFree == Alive /\ phase # "waiting"

-----------------------------------------------------------------------------
(* The hooks of a task; all of this under the mutex.                       *)

Disarm(t) == armed' = armed \ {t}

\* A goroutine that will run the task.
Begins(t) == [NoFire EXCEPT !.pc = "begin", !.task = t]

Spawns(t) == \E f \in Firings : fire[f].pc = "idle" /\ fire' = [fire EXCEPT ![f] = Begins(t)]

\* UpdateTask for an active row: unregisterLocked, then registerLocked.  The
\* write of "missed" may fail.
Rearm(t) ==
    \/ /\ t \notin Once \/ due[t] = "future"
       /\ armed' = armed \cup {t} /\ UNCHANGED <<row, fire>>
    \/ /\ t \in Once /\ due[t] = "grace" /\ Disarm(t)
       /\ IF phase = "up" THEN Spawns(t) ELSE UNCHANGED fire
       /\ UNCHANGED row
    \/ /\ t \in Once /\ due[t] = "late" /\ Disarm(t)
       /\ row' \in {row, [row EXCEPT ![t] = "missed"]} /\ UNCHANGED fire

-----------------------------------------------------------------------------
(* Changes by users.                                                       *)

Asks(t) == Alive /\ user.pc = "idle" /\ changes < MaxChanges /\ changes' = changes + 1

Sets(t, s) ==
    /\ row' = [row EXCEPT ![t] = s]
    /\ activations' = [activations EXCEPT ![t] = IF s = "active" THEN @ + 1 ELSE @]

Then(pc, t, s) == user' = [pc |-> pc, task |-> t, state |-> s]

Keeps == UNCHANGED <<due, phase, armed, locked, fire, runs, faults, restarts>>

\* persistScheduledTask: a new row, which is active and due later.
Create(t) == Asks(t) /\ row[t] = None /\ Sets(t, "active") /\ Then("sync", t, "active") /\ Keeps

\* The row is found, and may be edited as it is now.
Edit(t) ==
    /\ Asks(t) /\ row[t] \in {"active", "paused"} /\ Then("write", t, None)
    /\ Keeps /\ UNCHANGED <<row, activations>>

\* Of an edited task the state is set, or it becomes due later.
Write ==
    /\ Alive /\ user.pc = "write" /\ Then("read", user.task, None)
    /\ \/ \E s \in {"active", "paused"} : Sets(user.task, s) /\ UNCHANGED due
       \/ /\ user.task \in Once /\ due' = [due EXCEPT ![user.task] = "future"]
          /\ UNCHANGED <<row, activations>>
    /\ UNCHANGED <<phase, armed, locked, fire, runs, faults, restarts, changes>>

\* SetScheduledTaskStateForUID sets any state of any task.
SetState(t) ==
    /\ Asks(t) /\ row[t] # None /\ \E s \in States : Sets(t, s)
    /\ Then("read", t, None) /\ Keeps

\* CancelScheduledTaskForUID does not read the row back.
Cancel(t) ==
    /\ Asks(t) /\ row[t] # None /\ Sets(t, "cancelled")
    /\ Then("sync", t, "cancelled") /\ Keeps

\* applyScheduledTaskUpdate reads the row back ...
ReadBack ==
    /\ Alive /\ user.pc = "read" /\ Then("sync", user.task, row[user.task])
    /\ Keeps /\ UNCHANGED <<row, activations, changes>>

\* Faulty: an update of a task gives it a new mutex.
Sync_NewMutex ==
    /\ MutexFree /\ user.pc = "sync" /\ user' = NoUser /\ locked' = locked \ {user.task}
    /\ IF user.state = "active" THEN Rearm(user.task)
                                ELSE Disarm(user.task) /\ UNCHANGED <<row, fire>>
    /\ UNCHANGED <<due, phase, counts>>

\* ... and syncTaskWithScheduler follows what it has read.
Sync ==
    /\ MutexFree /\ user.pc = "sync" /\ user' = NoUser
    /\ IF user.state = "active" THEN Rearm(user.task)
                                ELSE Disarm(user.task) /\ UNCHANGED <<row, fire>>
    /\ UNCHANGED <<due, phase, locked, counts>>

-----------------------------------------------------------------------------
(* Time, and runTask.                                                      *)

Pass(t) ==
    /\ t \in Once /\ row[t] # None /\ due[t] # "late"
    /\ due' = [due EXCEPT ![t] = IF due[t] = "future" THEN "grace" ELSE "late"]
    /\ UNCHANGED <<row, phase, armed, locked, fire, user, counts>>

\* The cron fires an entry until Stop stops it, a timer fires once.
Fire(t) ==
    /\ t \in armed /\ Spawns(t)
    /\ IF t \in Once THEN Alive /\ due[t] # "future" /\ Disarm(t)
                     ELSE phase \in {"up", "shutdown"} /\ UNCHANGED armed
    /\ UNCHANGED <<rows, phase, locked, user, counts>>

At(f, pc)  == Alive /\ fire[f].pc = pc
To(f, pc)  == fire' = [fire EXCEPT ![f].pc = pc]
Ends(f)    == fire' = [fire EXCEPT ![f] = NoFire]
Frees(f)   == Ends(f) /\ locked' = locked \ {fire[f].task}

Begin(f) ==
    /\ At(f, "begin") /\ IF phase = "up" THEN To(f, "lock") ELSE Ends(f)
    /\ UNCHANGED <<rows, phase, armed, locked, user, counts>>

\* taskLock asks for the mutex, then an overlapping firing is skipped.
Lock(f) ==
    /\ At(f, "lock") /\ MutexFree
    /\ IF fire[f].task \in locked
       THEN Ends(f) /\ UNCHANGED locked
       ELSE To(f, "load") /\ locked' = locked \cup {fire[f].task}
    /\ UNCHANGED <<rows, phase, armed, user, counts>>

\* Faulty: the state of the row is not looked at.
Load_Anyway(f) ==
    /\ At(f, "load") /\ To(f, "run")
    /\ runs' = [runs EXCEPT ![fire[f].task] = @ + IF fire[f].task \in Once THEN 1 ELSE 0]
    /\ UNCHANGED <<rows, phase, armed, locked, user, activations, faults, restarts, changes>>

\* The row is loaded; a run begins if it is active.
Load(f) ==
    /\ At(f, "load")
    /\ IF row[fire[f].task] = "active"
       THEN /\ To(f, "run") /\ UNCHANGED locked
            /\ runs' = [runs EXCEPT ![fire[f].task] = @ + IF fire[f].task \in Once THEN 1 ELSE 0]
       ELSE Frees(f) /\ UNCHANGED runs
    /\ UNCHANGED <<rows, phase, armed, user, activations, faults, restarts, changes>>

\* Loading it, or creating the session or the row of the run, fails.
LoadFails(f) ==
    /\ At(f, "load") /\ Frees(f)
    /\ UNCHANGED <<rows, phase, armed, user, counts>>

\* The agent of the run calls cancel_scheduled_task: the row first ...
AgentCancels(f, t) ==
    /\ At(f, "run") /\ row[t] # None /\ row' = [row EXCEPT ![t] = "cancelled"]
    /\ fire' = [fire EXCEPT ![f].pc = "tool", ![f].other = t]
    /\ UNCHANGED <<due, phase, armed, locked, user, counts>>

\* ... then the hook.
ToolReturns(f) ==
    /\ At(f, "tool") /\ MutexFree /\ Disarm(fire[f].other)
    /\ fire' = [fire EXCEPT ![f].pc = "run", ![f].other = None]
    /\ UNCHANGED <<rows, phase, locked, user, counts>>

\* The prompt is done, or has failed.
RunEnds(f) ==
    /\ At(f, "run")
    /\ IF fire[f].task \in Once THEN To(f, "finalize") /\ UNCHANGED locked ELSE Frees(f)
    /\ UNCHANGED <<rows, phase, armed, user, counts>>

\* finalizeScheduledTask writes the final state over whatever there is ...
Finalize(f) ==
    /\ At(f, "finalize") /\ To(f, "unregister")
    /\ \/ /\ \E s \in {"completed", "failed"} : row' = [row EXCEPT ![fire[f].task] = s]
          /\ UNCHANGED faults
       \/ /\ faults[fire[f].task] < MaxFaults /\ UNCHANGED row
          /\ faults' = [faults EXCEPT ![fire[f].task] = @ + 1]
    /\ UNCHANGED <<due, phase, armed, locked, user, runs, activations, restarts, changes>>

\* ... and takes the hook away.
Unregister(f) ==
    /\ At(f, "unregister") /\ MutexFree /\ Disarm(fire[f].task) /\ Frees(f)
    /\ UNCHANGED <<rows, phase, user, counts>>

-----------------------------------------------------------------------------
(* Stop and Start.                                                         *)

Shutdown ==
    /\ phase = "up" /\ restarts < MaxRestarts /\ phase' = "shutdown"
    /\ UNCHANGED <<rows, armed, locked, fire, user, counts>>

StopLocks ==
    /\ phase = "shutdown" /\ phase' = "waiting"
    /\ UNCHANGED <<rows, armed, locked, fire, user, counts>>

\* Faulty: Stop waits for the tasks that run once too.
CronJobs_All == {f \in Firings : fire[f].pc # "idle"}

CronJobs == {f \in Firings : fire[f].pc # "idle" /\ fire[f].task \notin Once}

\* The context of cron.Stop is done when no job runs any more.
StopReturns ==
    /\ phase = "waiting" /\ CronJobs = {} /\ phase' = "stopped" /\ armed' = armed \ Once
    /\ UNCHANGED <<rows, locked, fire, user, counts>>

\* The process ends, after Stop, when fx has waited for it long enough, or in a crash.
Exit ==
    /\ Alive /\ restarts < MaxRestarts /\ phase' = "down"
    /\ armed' = {} /\ locked' = {} /\ fire' = [f \in Firings |-> NoFire] /\ user' = NoUser
    /\ restarts' = restarts + 1
    /\ UNCHANGED <<rows, runs, activations, faults, changes>>

\* Start registers the active tasks of the table.
Start ==
    /\ phase = "down" /\ phase' = "up"
    /\ LET active == {t \in Tasks : row[t] = "active"}
           grace  == {t \in active \cap Once : due[t] = "grace"}
           late   == {t \in active \cap Once : due[t] = "late"}
       IN  /\ armed' = active \ (grace \cup late)
           /\ \E missed \in SUBSET late :
                 row' = [t \in Tasks |-> IF t \in missed THEN "missed" ELSE row[t]]
           /\ fire' \in [Firings -> {NoFire} \cup {Begins(t) : t \in grace}]
           /\ \A t \in grace : Cardinality({f \in Firings : fire'[f] = Begins(t)}) = 1
    /\ UNCHANGED <<due, locked, user, counts>>

-----------------------------------------------------------------------------
Change(t) == Create(t) \/ Edit(t) \/ SetState(t) \/ Cancel(t)
UserStep == Write \/ ReadBack \/ Sync
FireStep(f) == Begin(f) \/ Lock(f) \/ Load(f) \/ LoadFails(f) \/ ToolReturns(f) \/ RunEnds(f)
               \/ Finalize(f) \/ Unregister(f)
StopStep == StopLocks \/ StopReturns

Next ==
    \/ \E t \in Tasks : Change(t) \/ Pass(t) \/ Fire(t)
    \/ UserStep
    \/ \E f \in Firings : FireStep(f) \/ \E t \in Tasks : AgentCancels(f, t)
    \/ Shutdown \/ StopStep \/ Exit \/ Start

Spec == Init /\ [][Next]_vars

\* Goroutines run, a prompt ends with its deadline at the latest, and Stop goes
\* on.  Users, the cron and the end of the process come as they please.
Fairness == WF_vars(StopStep) /\ \A f \in Firings : WF_vars(FireStep(f))

FairSpec == Spec /\ Fairness

-----------------------------------------------------------------------------
(* Properties.                                                             *)

Runs(t) == {f \in Firings : fire[f].task = t /\ fire[f].pc \in Executing}

\* The timer of a task, the goroutine of a task that is already due, one of an
\* update and the ticks of the cron may all fire a task; only one of them gets
\* past its mutex, which stays the same one when the task is updated.
OneRunPerTask == \A t \in Tasks : \A f, g \in Runs(t) : f = g

\* A task that runs once runs again only because a user made it active again,
\* because its final state could not be written, or because the process ended
\* before it was: not because it was updated while it ran, or fired twice.
OnceRunsArePaidFor ==
    \A t \in Once : runs[t] <= activations[t] + faults[t] + restarts

\* Stop holds the mutex while it waits for the cron jobs.  It returns unless one
\* of them asks for that mutex: to lock its task, or because its agent has
\* cancelled a task.
StopEnds ==
    phase = "waiting" ~> \/ phase # "waiting"
                         \/ \E f \in CronJobs : fire[f].pc \in {"lock", "tool"}
=============================================================================
