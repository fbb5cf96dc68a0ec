--------------------------- MODULE PipelineEngine ---------------------------
(***************************************************************************)
(* The pipeline engine (pkg/pipeline/engine.go) over its store             *)
(* (internal/store/pipeline.go).  Goroutines execute pipelines for bus     *)
(* events, webhooks, manual runs and cron ticks.  Every call to the store  *)
(* is a step of its own, so goroutines interleave between any two of them, *)
(* each may fail, and the process may crash between any two of them.       *)
(*                                                                         *)
(* A run row is identified by its (pipeline, event) pair: event_id is      *)
(* unique in pipeline_runs, so a pair has at most one row.                 *)
(***************************************************************************)
EXTENDS Naturals, FiniteSets

CONSTANTS
    Pipelines,      \* engine definitions, one per enabled trigger
    BusEvents,      \* ids of the events that arrive over the message bus
    LocalIds,       \* ids minted by types.Id() for cron, webhook and manual runs
    Workers,        \* goroutines that execute pipelines
    Subscribed,     \* Subscribed[p]: the bus events that trigger p
    CronDefs,       \* the definitions with a cron trigger
    WebhookDefs,    \* the definitions with a webhook trigger
    Resumable,      \* the definitions that save checkpoints
    NumSteps,       \* number of steps of a definition
    MaxAttempts,    \* attempts of one step (backoff.Config.MaxAttempts)
    MaxDeliveries,  \* bound: how often the bus delivers one message
    MaxCrashes,     \* bound: crashes of the process
    MaxReloads,     \* bound: reloads of the definitions
    StoreFaults,    \* may a store call fail while its context is live?
    Timeouts,       \* may the context of an execution end?
    None            \* no event, no definition

Ids   == BusEvents \cup LocalIds
Pairs == Pipelines \X Ids
Steps == 1..NumSteps

ASSUME ConstantsAssumption ==
    /\ Subscribed \in [Pipelines -> SUBSET BusEvents]
    /\ CronDefs \subseteq Pipelines /\ WebhookDefs \subseteq Pipelines
    /\ Resumable \subseteq Pipelines
    /\ NumSteps \in Nat /\ MaxAttempts \in Nat \ {0}
    /\ MaxDeliveries \in Nat /\ MaxCrashes \in Nat /\ MaxReloads \in Nat
    /\ StoreFaults \in BOOLEAN /\ Timeouts \in BOOLEAN
    /\ None \notin Pipelines /\ None \notin Ids

VARIABLES
    \* the database
    consumed,       \* event_consumptions: the pairs recorded
    runs,           \* pipeline_runs.status of the pair, or "none"
    checkpoint,     \* checkpoint_data.StepIndex + 1 of the pair's run, or 0
    stepRow,        \* status of a step's row in pipeline_step_runs, or "none"
    \* the engine's memory
    defs,           \* Engine.defs
    mutexes,        \* the keys of Engine.mu
    held,           \* the definitions whose mutex in Engine.mu is locked
    task,           \* what each goroutine is doing
    \* the outside world, and the counters the bounds apply to
    minted,         \* ids handed out by types.Id()
    applied,        \* applied[x][i]: acknowledged invocations of step i
    owed,           \* the pairs matched by a delivered message
    deliveries, crashes, reloads

store  == <<consumed, runs, checkpoint, stepRow>>
memory == <<defs, mutexes, held>>
world  == <<minted, applied, owed, deliveries, crashes, reloads>>
vars   == <<store, memory, task, world>>

Terminal  == {"done", "failed", "cancel"}
RunStatus == {"none", "start"} \cup Terminal

\* Where a goroutine stands: the store or capability call it makes next.
RunPCs == {"checkpoint", "begin", "invoke", "report", "finish"}
PCs    == {"idle", "match", "check", "record", "create", "load"} \cup RunPCs

Task == [pc : PCs, src : {"event", "webhook", "manual", "cron", "resume"},
         evt : Ids \cup {None}, todo : SUBSET Pipelines,
         def : Pipelines \cup {None}, step : 1..(NumSteps + 1),
         attempt : 1..MaxAttempts, ctx : {"live", "dead"},
         err : {"none", "failed", "cancel"}]

Idle == [pc |-> "idle", src |-> "event", evt |-> None, todo |-> {},
         def |-> None, step |-> 1, attempt |-> 1, ctx |-> "live", err |-> "none"]

Pair(w) == <<task[w].def, task[w].evt>>

\* The goroutine has won the pair and not yet returned from executing it.
Owns(w) == task[w].pc \in {"create"} \cup RunPCs

TypeOK ==
    /\ consumed \subseteq Pairs
    /\ runs \in [Pairs -> RunStatus]
    /\ checkpoint \in [Pairs -> 0..NumSteps]
    /\ stepRow \in [Pairs -> [Steps -> RunStatus]]
    /\ defs \subseteq mutexes /\ mutexes \subseteq Pipelines /\ held \subseteq mutexes
    /\ task \in [Workers -> Task]
    /\ minted \subseteq LocalIds
    /\ applied \in [Pairs -> [Steps -> Nat]]
    /\ owed \subseteq Pairs
    /\ deliveries \in [BusEvents -> 0..MaxDeliveries]
    /\ crashes \in 0..MaxCrashes /\ reloads \in 0..MaxReloads

Init ==
    /\ consumed = {} /\ runs = [x \in Pairs |-> "none"]
    /\ checkpoint = [x \in Pairs |-> 0]
    /\ stepRow = [x \in Pairs |-> [i \in Steps |-> "none"]]
    /\ defs = Pipelines /\ mutexes = Pipelines /\ held = {}
    /\ task = [w \in Workers |-> Idle]
    /\ minted = {} /\ applied = [x \in Pairs |-> [i \in Steps |-> 0]]
    /\ owed = {} /\ deliveries = [e \in BusEvents |-> 0]
    /\ crashes = 0 /\ reloads = 0

-----------------------------------------------------------------------------
(* Store calls.  A call whose context has ended always fails; a call whose *)
(* context is live may fail too, and then may have taken effect or not.    *)

StoreOk(w)  == task[w].ctx = "live"
StoreErr(w) == task[w].ctx = "dead" \/ StoreFaults

\* pipeline_runs.event_id is unique, whatever the pipeline.
EventIdFree(e) == \A p \in Pipelines : runs[<<p, e>>] = "none"

(* executePipeline returns.  handleEvent logs the error of one pipeline    *)
(* and goes on with the next; a cron job unlocks its mutex on the way out. *)
Return(w) ==
    /\ task' = [task EXCEPT ![w] =
                    IF @.src = "event"
                    THEN [@ EXCEPT !.pc = "match", !.def = None, !.step = 1,
                                   !.attempt = 1, !.err = "none"]
                    ELSE Idle]
    /\ held' = IF task[w].src = "cron" THEN held \ {task[w].def} ELSE held
    /\ UNCHANGED <<defs, mutexes>>

-----------------------------------------------------------------------------
(* Triggers.                                                               *)

FindByEvent(e) == {p \in defs : e \in Subscribed[p]}

(* The router hands a message to the handler.  The bus may deliver it      *)
(* again: outbox redelivery and retries publish the same event id twice.   *)
Deliver(w, e) ==
    /\ task[w].pc = "idle" /\ deliveries[e] < MaxDeliveries
    /\ deliveries' = [deliveries EXCEPT ![e] = @ + 1]
    /\ owed' = owed \cup (FindByEvent(e) \X {e})
    /\ task' = [task EXCEPT ![w] = [Idle EXCEPT !.pc = "match", !.evt = e,
                                                !.todo = FindByEvent(e)]]
    /\ UNCHANGED <<store, memory, minted, applied, crashes, reloads>>

(* The loop of handleEvent over the matched definitions; after the last    *)
(* one it returns nil, so the message is acknowledged.                     *)
NextMatch(w) ==
    /\ task[w].pc = "match"
    /\ \/ /\ task[w].todo = {}
          /\ task' = [task EXCEPT ![w] = Idle]
       \/ \E p \in task[w].todo :
             task' = [task EXCEPT ![w].pc = "check", ![w].def = p,
                                  ![w].todo = @ \ {p}]
    /\ UNCHANGED <<store, memory, world>>

\* A goroutine executes p for an id of its own.
Launch(w, p, source) ==
    /\ task[w].pc = "idle" /\ p \in defs
    /\ \E e \in LocalIds \ minted :
          /\ minted' = minted \cup {e}
          /\ task' = [task EXCEPT ![w] = [Idle EXCEPT !.pc = "check", !.src = source,
                                                      !.evt = e, !.def = p]]
    /\ UNCHANGED <<store, defs, mutexes, applied, owed, deliveries, crashes, reloads>>

WebhookRequest(w, p) ==
    /\ p \in WebhookDefs /\ Launch(w, p, "webhook") /\ UNCHANGED held

ManualRequest(w, p) == Launch(w, p, "manual") /\ UNCHANGED held

(* A tick whose TryLock fails is skipped, which changes nothing.           *)
CronTick(w, p) ==
    /\ p \in CronDefs /\ p \in mutexes \ held
    /\ Launch(w, p, "cron")
    /\ held' = held \cup {p}

-----------------------------------------------------------------------------
(* executePipeline: deduplicate, create the run row, run the steps.        *)

HasConsumed(w) ==
    /\ task[w].pc = "check"
    /\ \/ /\ StoreOk(w) /\ Pair(w) \notin consumed
          /\ task' = [task EXCEPT ![w].pc = "record"]
          /\ UNCHANGED memory
       \/ /\ StoreErr(w) \/ Pair(w) \in consumed
          /\ Return(w)
    /\ UNCHANGED <<store, world>>

\* Faulty: a failed insert is logged and the execution goes on.
RecordConsumption_IgnoreError(w) ==
    /\ task[w].pc = "record"
    /\ consumed' \in {consumed} \cup (IF StoreOk(w) THEN {consumed \cup {Pair(w)}} ELSE {})
    /\ task' = [task EXCEPT ![w].pc = "create"]
    /\ UNCHANGED <<memory, runs, checkpoint, stepRow, world>>

\* Faulty: the meaning of the boolean result is swapped.
RecordConsumption_Swapped(w) ==
    /\ task[w].pc = "record"
    /\ consumed' = consumed \cup {Pair(w)} /\ Return(w)
    /\ UNCHANGED <<runs, checkpoint, stepRow, world>>

(* The unique index on (consumer_name, event_id) lets one insert through.  *)
(* A failed insert is looked up again, which decides only between "already *)
(* consumed" and an error: both return.  When the insert took effect and   *)
(* its answer was lost, the lookup finds the goroutine's own row.          *)
RecordConsumption(w) ==
    /\ task[w].pc = "record"
    /\ \/ /\ StoreOk(w) /\ Pair(w) \notin consumed
          /\ consumed' = consumed \cup {Pair(w)}
          /\ task' = [task EXCEPT ![w].pc = "create"]
          /\ UNCHANGED memory
       \/ /\ Pair(w) \in consumed /\ UNCHANGED consumed /\ Return(w)
       \/ /\ StoreErr(w) /\ consumed' \in {consumed, consumed \cup {Pair(w)}}
          /\ Return(w)
    /\ UNCHANGED <<runs, checkpoint, stepRow, world>>

\* Where the step loop goes with i as its next step.
LoopPC(w, i) == IF i > NumSteps THEN "finish"
                ELSE IF task[w].def \in Resumable THEN "checkpoint" ELSE "begin"

(* A manual run continues in a goroutine with a detached context.          *)
CreateRun(w) ==
    /\ task[w].pc = "create"
    /\ \/ /\ StoreOk(w) /\ EventIdFree(task[w].evt)
          /\ runs' = [runs EXCEPT ![Pair(w)] = "start"]
          /\ task' = [task EXCEPT ![w].pc = LoopPC(w, 1), ![w].step = 1]
          /\ UNCHANGED memory
       \/ /\ ~EventIdFree(task[w].evt) /\ UNCHANGED runs /\ Return(w)
       \/ /\ StoreErr(w)
          /\ \/ UNCHANGED runs
             \/ /\ EventIdFree(task[w].evt)
                /\ runs' = [runs EXCEPT ![Pair(w)] = "start"]
          /\ Return(w)
    /\ UNCHANGED <<consumed, checkpoint, stepRow, world>>

\* Faulty: the index saved is that of the step after the one about to run.
SaveCheckpoint_Ahead(w) ==
    /\ task[w].pc = "checkpoint" /\ StoreOk(w)
    /\ checkpoint' = [checkpoint EXCEPT ![Pair(w)] = task[w].step + 1]
    /\ task' = [task EXCEPT ![w].pc = "begin"]
    /\ UNCHANGED <<consumed, runs, stepRow, memory, world>>

(* saveCheckpointIfResumable: the index saved is that of the step about to *)
(* run; a failed save is only logged.                                      *)
SaveCheckpoint(w) ==
    /\ task[w].pc = "checkpoint"
    /\ \/ /\ StoreOk(w)
          /\ checkpoint' = [checkpoint EXCEPT ![Pair(w)] = task[w].step]
       \/ StoreErr(w) /\ UNCHANGED checkpoint
    /\ task' = [task EXCEPT ![w].pc = "begin"]
    /\ UNCHANGED <<consumed, runs, stepRow, memory, world>>

(* executeStep up to its first invocation: render the parameters, insert   *)
(* the step row.  A failure of either ends the run without invoking.       *)
BeginStep(w) ==
    /\ task[w].pc = "begin"
    /\ \/ /\ StoreOk(w)
          /\ stepRow' = [stepRow EXCEPT ![Pair(w)][task[w].step] = "start"]
          /\ task' = [task EXCEPT ![w].pc = "invoke", ![w].attempt = 1]
       \/ /\ \/ UNCHANGED stepRow
             \/ /\ StoreOk(w) /\ StoreErr(w)
                /\ stepRow' = [stepRow EXCEPT ![Pair(w)][task[w].step] = "start"]
          /\ \E x \in {"failed"} \cup (IF StoreOk(w) THEN {} ELSE {"cancel"}) :
                task' = [task EXCEPT ![w].pc = "finish", ![w].err = x]
    /\ UNCHANGED <<consumed, runs, checkpoint, memory, world>>

(* One attempt of backoff.Do around capability.Invoke.                     *)
InvokeOk(w) ==
    /\ task[w].pc = "invoke"
    /\ applied' = [applied EXCEPT ![Pair(w)][task[w].step] = @ + 1]
    /\ task' = [task EXCEPT ![w].pc = "report"]
    /\ UNCHANGED <<store, memory, minted, owed, deliveries, crashes, reloads>>

InvokeRetry(w) ==
    /\ task[w].pc = "invoke" /\ task[w].ctx = "live"
    /\ task[w].attempt < MaxAttempts
    /\ task' = [task EXCEPT ![w].attempt = @ + 1]
    /\ UNCHANGED <<store, memory, world>>

(* The last attempt, an error that is not retryable, or a context that     *)
(* ended during the pause: the error is classed as failed or cancelled.    *)
InvokeGiveUp(w) ==
    /\ task[w].pc = "invoke"
    /\ \E x \in {"failed", "cancel"} :
          task' = [task EXCEPT ![w].pc = "report", ![w].err = x]
    /\ UNCHANGED <<store, memory, world>>

\* Faulty: an error of one step does not leave the loop.
ReportStep_Continue(w) ==
    /\ task[w].pc = "report"
    /\ task' = [task EXCEPT ![w].pc = LoopPC(w, task[w].step + 1), ![w].step = @ + 1]
    /\ UNCHANGED <<store, memory, world>>

\* Faulty: every reported step is recorded as done.
ReportStep_AllDone(w) ==
    /\ task[w].pc = "report" /\ StoreOk(w)
    /\ stepRow' = [stepRow EXCEPT ![Pair(w)][task[w].step] = "done"]
    /\ task' = IF task[w].err = "none"
               THEN [task EXCEPT ![w].pc = LoopPC(w, task[w].step + 1), ![w].step = @ + 1]
               ELSE [task EXCEPT ![w].pc = "finish"]
    /\ UNCHANGED <<consumed, runs, checkpoint, memory, world>>

(* recordStepSuccess / recordStepFailure, then the loop of                 *)
(* runPipelineSteps: an error leaves it, success goes to the next step.    *)
ReportStep(w) ==
    /\ task[w].pc = "report"
    /\ \/ /\ StoreOk(w)
          /\ stepRow' = [stepRow EXCEPT ![Pair(w)][task[w].step] =
                            IF task[w].err = "none" THEN "done" ELSE task[w].err]
       \/ StoreErr(w) /\ UNCHANGED stepRow
    /\ task' = IF task[w].err = "none"
               THEN [task EXCEPT ![w].pc = LoopPC(w, task[w].step + 1), ![w].step = @ + 1]
               ELSE [task EXCEPT ![w].pc = "finish"]
    /\ UNCHANGED <<consumed, runs, checkpoint, memory, world>>

\* Faulty: only a run without an error is recorded.
FinishRun_SkipErrors(w) ==
    /\ task[w].pc = "finish"
    /\ runs' = IF task[w].err = "none" THEN [runs EXCEPT ![Pair(w)] = "done"] ELSE runs
    /\ Return(w)
    /\ UNCHANGED <<consumed, checkpoint, stepRow, world>>

(* finishRunRecord, on the context the steps ran with; a failed update is  *)
(* only logged.                                                            *)
FinishRun(w) ==
    /\ task[w].pc = "finish"
    /\ \/ /\ StoreOk(w)
          /\ runs' = [runs EXCEPT ![Pair(w)] =
                         IF task[w].err = "none" THEN "done" ELSE task[w].err]
       \/ StoreErr(w) /\ UNCHANGED runs
    /\ Return(w)
    /\ UNCHANGED <<consumed, checkpoint, stepRow, world>>

-----------------------------------------------------------------------------
(* The environment: contexts end, definitions are reloaded, the process    *)
(* crashes and starts again.                                               *)

(* The 10-minute deadline of the handler, the webhook goroutine or the     *)
(* cron job, or shutdown.  A manual run has only its request's context,    *)
(* which is left behind when the steps start.                              *)
ContextEnds(w) ==
    /\ Timeouts /\ task[w].pc # "idle" /\ task[w].ctx = "live"
    /\ task[w].src = "manual" => task[w].pc \notin RunPCs
    /\ task' = [task EXCEPT ![w].ctx = "dead"]
    /\ UNCHANGED <<store, memory, world>>

\* Faulty: the mutexes are made anew, so the locks taken are forgotten.
Reload_FreshMutexes(D) ==
    /\ reloads < MaxReloads /\ reloads' = reloads + 1
    /\ defs' = D /\ mutexes' = D /\ held' = {}
    /\ UNCHANGED <<store, task, minted, applied, owed, deliveries, crashes>>

(* Engine.Reload: running executions keep their copy of the definition,    *)
(* and the mutex of a definition is never replaced.                        *)
Reload(D) ==
    /\ reloads < MaxReloads
    /\ reloads' = reloads + 1
    /\ defs' = D /\ mutexes' = mutexes \cup D
    /\ UNCHANGED <<store, held, task, minted, applied, owed, deliveries, crashes>>

(* Memory is lost, the tables stay.                                        *)
Crash ==
    /\ crashes < MaxCrashes
    /\ crashes' = crashes + 1
    /\ task' = [w \in Workers |-> Idle]
    /\ mutexes' = defs /\ held' = {}
    /\ UNCHANGED <<store, defs, minted, applied, owed, deliveries, reloads>>

Execute(w) ==
    \/ NextMatch(w) \/ HasConsumed(w) \/ RecordConsumption(w) \/ CreateRun(w)
    \/ SaveCheckpoint(w) \/ BeginStep(w) \/ InvokeOk(w) \/ InvokeRetry(w)
    \/ InvokeGiveUp(w) \/ ReportStep(w) \/ FinishRun(w)

Next ==
    \/ \E w \in Workers :
          \/ Execute(w)
          \/ ContextEnds(w)
          \/ \E e \in BusEvents : Deliver(w, e)
          \/ \E p \in Pipelines : WebhookRequest(w, p) \/ ManualRequest(w, p) \/ CronTick(w, p)
    \/ \E D \in SUBSET Pipelines : Reload(D)
    \/ Crash

Spec == Init /\ [][Next]_vars

(* A goroutine that can go on does: every store call and every capability  *)
(* call returns (clients have timeouts), and a step is retried a bounded   *)
(* number of times.  Nothing is assumed of triggers or of the environment. *)
FairSpec == Spec /\ \A w \in Workers : WF_vars(Execute(w))

-----------------------------------------------------------------------------
(* Properties.                                                             *)

(* However often an event is delivered, and whatever calls fail, no two    *)
(* goroutines execute the same pair: the claim of event_consumptions is    *)
(* exclusive although HasConsumed and RecordConsumption are two calls      *)
(* (checkDedupAndRecord).                                                  *)
OneOwner ==
    \A v, w \in Workers : v # w /\ Owns(v) /\ Owns(w) => Pair(v) # Pair(w)

(* While a goroutine runs the steps of a pair, the pair is recorded as     *)
(* consumed and its run row is in the Start state: nobody settles the run  *)
(* under the goroutine's feet.                                             *)
OwnerRuns ==
    \A w \in Workers :
        task[w].pc \in RunPCs => Pair(w) \in consumed /\ runs[Pair(w)] = "start"

(* Redelivery, retries and failing store calls never make a step succeed   *)
(* twice for one event, and never make a step run before its predecessor.  *)
StepsOnceInOrder ==
    \A x \in Pairs, i \in Steps :
        /\ applied[x][i] <= 1
        /\ i > 1 /\ applied[x][i] > 0 => applied[x][i - 1] > 0

(* A saved checkpoint never points past a step that has not been           *)
(* acknowledged: resuming there skips no work.                             *)
CheckpointCovers ==
    \A x \in Pairs : \A i \in 1..(checkpoint[x] - 1) : applied[x][i] > 0

(* The row of a step says "done" only for a step that was acknowledged,    *)
(* and a run that failed has a step that was not.                          *)
RowsTellTheTruth ==
    \A x \in Pairs :
        /\ \A i \in Steps : stepRow[x][i] = "done" => applied[x][i] > 0
        /\ runs[x] \in {"failed", "cancel"} => \E i \in Steps : applied[x][i] = 0

(* Two cron executions of one definition never overlap, not even across    *)
(* reloads of the definitions while one is running.                        *)
CronExclusive ==
    \A v, w \in Workers :
        v # w /\ task[v].src = "cron" /\ task[w].src = "cron" => task[v].def # task[w].def

(* The engine implements at-most-once processing of every pair.            *)
Stage(x) == IF runs[x] = "start" THEN "running"
            ELSE IF runs[x] # "none" THEN runs[x]
            ELSE IF x \in consumed THEN "claimed" ELSE "new"

Claims == INSTANCE EventClaim WITH stage <- [x \in Pairs |-> Stage(x)]
ClaimSpec == Claims!Spec

(* When no call fails, a pair that a delivered message matched is never    *)
(* dropped: it is still queued in a handler, being executed, or has a run. *)
NoMatchLost ==
    \A x \in owed :
        \/ runs[x] # "none"
        \/ \E w \in Workers : task[w].evt = x[2] /\ (task[w].def = x[1] \/ x[1] \in task[w].todo)

OpenRun(e) == \E p \in Pipelines : runs[<<p, e>>] = "start"

(* When no call fails, every run that starts is eventually recorded with   *)
(* an outcome.                                                             *)
EveryRunSettles ==
    \A e \in Ids : OpenRun(e) ~> ~OpenRun(e)
=============================================================================
