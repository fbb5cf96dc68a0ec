# Flowbot: a TLA+ development

TLA+ models of the parts of Flowbot where several goroutines, processes or
machines share state and any call may fail: what they promise, what TLC checks on
small instances, and what TLAPS proves for every instance. File and line
references are relative to the repository.

Contents: 1 the system, 2 the modules, 3 the runs, 4 fairness, 5 the proofs,
6 findings and supplementary configurations, 7 what is not modelled, 8 the plan, 9 how to run it.

## 1. The system

Flowbot is one Go process over PostgreSQL and Redis. Capabilities (wrappers around
external services) produce *data events*; *pipelines* and *workflows* react to them
and call capabilities; a *chat agent* calls both; *gateway workers* on other
machines run command-line tools for it.

| Part | State | Operations | What is hard | What makes it correct |
|---|---|---|---|---|
| Pipeline engine (`pkg/pipeline/engine.go`) | tables `event_consumptions`, `pipeline_runs`, `pipeline_step_runs`; in memory the definitions and one mutex each | handle an event, webhook, manual run, cron tick, reload; per run: check, claim, create, checkpoint, step with retries, record, finish; resume | redelivered events, calls that fail after they took effect, contexts that end, crashes, cron overlapping itself | a pair (pipeline, event) has one owner; steps once and in order; rows and checkpoints tell the truth; matches are not lost; runs settle |
| Event outbox (`internal/server/pipeline.go`, `outbox_redeliver.go`, `internal/store/event.go`, `pkg/event/pubsub.go`) | `data_events`, `event_outbox`, a Redis stream | emit (insert, insert, publish, mark), redeliver in batches, consume | crash between any two calls, emitter beside redelivery, rows of another domain in the same table | what is sent is stored, what is marked was sent, the backlog drains, events arrive |
| CLI gateway (`internal/store/gateway.go`, `internal/server/gateway_http.go`, `pkg/capability/gateway/register.go`, `cmd/gateway`) | `gateway_jobs`; slots, heartbeats and watchers of workers; callers that wait | create, wait, cancel, claim, heartbeat, reclaim, complete | statements without a lock, leases that run out, lost answers, workers that stop | a leased job has one holder, outcomes are final, jobs settle, canceled CLIs stop |
| Workflow runner (`pkg/workflow/scheduler.go`, `workflow.go`) | `workflow_runs` with a checkpoint; ready list, in-degrees, counters, results | start, dispatch, execute, enqueue dependents, fail fast, drain, resume | goroutines on shared counters, first error against timeout, crash and resume | dependencies first, done means all, nothing recorded is repeated, the loop wakes |
| Workflow service (`pkg/workflow/service.go`) | cron and webhook tables | start a run, reload triggers, stop | two reloads, stop while running | the newest definitions are installed |
| Pipeline definitions (`internal/store/pipeline.go`, `pkg/pipeline/service.go`, `loader.go`) | draft and published YAML, versions | save, publish, enable, rename, apply | read-modify-write of the text | no published change is lost |
| Retention (`internal/store/event.go`) | all event tables | purge in batches | purge beside a late redelivery | at-most-once survives the purge |
| Polling sources (`pkg/capability/polling.go`, `pollstate.go`, `eventsource.go`, `pkg/providers/email/imap.go`) | per resource an entry with cursor and known hashes, its copy in the polling state, a dirty mark, the table `polling_state` | poll, diff, emit, mark seen, remember, flush, stop, start | polls that outlast the interval and overlap, emitter errors, flush beside update, crash between emitting, remembering and saving, paging beside new mail | what is known was emitted, repeats have a reason, what is known is saved, every new item is emitted |
| Capability invocation (`pkg/capability/invoke.go`, `pkg/cache/cache.go`) | cached results, an index of keys | read, mutate, invalidate | a slow read beside a mutation, an index map thrown away while a key is registered | a stale answer stays only if its read was overtaken |
| Bulkhead and backoff (`pkg/bulkhead`, `pkg/backoff`) | queue and semaphore; attempts | do, retry | full queue, timeout beside a free slot, providers that never answer | tokens come back on every way out, calls get through or return |
| Progress stream (`internal/server/pipeline.go`) | a queue and a draining flag | callback, drain | goroutine per drain | order is kept, nothing stays queued |
| Chat agent sessions (`internal/server/chatagent`: `service.go`, `run_control.go`, `api_run.go`, `harness_pool.go`, `session.go`) | session row, API run, confirm gate, cancel slot, lock entries, pooled harness | start, register, lock, prompt, wait, drain, clean up, close | tables without a common lock, a turn that ends beside one that starts, close beside both | one turn at a time on an idle harness, turns stay cancellable, every turn ends |
| Confirmations (`confirm.go`) | a gate per HTTP run: id, channel, resolved | ask, answer, time out, cancel | an answer that arrives after its question, a gate that moves on | an answer decides only its question, a question can be answered |
| Scheduled tasks (`scheduler.go`, `scheduled_run.go`, `scheduled_api.go`) | rows, cron entries, timers, a mutex per task | create, change, cancel, fire, finalise, start, stop | firings from four places, an agent that changes tasks, stop while a task ends | one run per task, once means once, stop returns |
| Agent loop (`pkg/agent`) | messages, steering queue | turn, tool calls, steer | queueing while a turn runs | no steering message is lost |
| Notifications (`pkg/notify`) | rules, aggregation windows, escalations | notify, aggregate, acknowledge | windows that close while written | every notification is delivered or aggregated |
| Functions, life game, homelab, hub, plugins, executor, web UI, providers, platforms, configuration | see `PROJECT.json` | | | |

Interaction: emitters write to the outbox and the stream; the stream's handler is
`Engine.handleEvent`; steps of the engine and tasks of a workflow call capabilities,
one of which creates gateway jobs and waits for them. `EventOutbox` ends where
`PipelineEngine` begins: its `Handle(e)` is `PipelineEngine`'s `Deliver(w, e)`. The
emitter of `PollingSource` (`Emit`, `EmitFails`) is an aborting emitter of
`EventOutbox`. A firing of `TaskScheduler` runs a turn in a session of its own, so its
step `RunEnds` stands for a whole turn of `ChatSession`; the tools of a turn are calls
of `CapabilityCalls`, or cancel a task.
`PROJECT.json` lists the components, and under "hazards" the places where each of
these difficulties bites.

## 2. The modules

| Module | Models |
|---|---|
| `EventClaim` | abstract: at-most-once processing. A pair is new, claimed, running, and then has one outcome for good |
| `PipelineEngine` | the engine over its store; implements `EventClaim` |
| `EventOutbox` | emitters, outbox, redelivery, stream |
| `JobLifecycle` | abstract: the life of gateway jobs. Handed out again only for a lost hand-out, one report at most, canceled for good |
| `GatewayJobs` | the job table, its handlers, workers and callers; implements `JobLifecycle` |
| `DagRun` | abstract: as long as a run is whole it executes tasks after their dependencies, and done means all |
| `WorkflowRun` | what the two runners of a workflow share: the row, the results and the bounds |
| `WorkflowDag` | the parallel runner; implements `DagRun`, whole until its context ends or it is resumed from a checkpoint with holes |
| `WorkflowSteps` | the sequential runner and its resume |
| `ChatSession` | the turns of one chat session with lock, harness, cancel slot, confirm gates and close |
| `CapabilityCalls` | cached reads and mutations of one capability through its bulkhead |
| `PollingSource` | one polled mailbox, polls of it that may overlap, its polling state and flushes, across restarts |
| `TaskScheduler` | scheduled tasks, their changes, firings, Stop and Start |
| `MC*` | values of constants that a configuration file cannot write |
| `*_proofs` | theorems |

How they correspond to the code:

* **One step per call.** A goroutine's program counter names the store, bus or
  capability call it makes next. Between two calls everything else may happen:
  other goroutines, the end of its context, a crash. Where a call may fail there
  is one disjunct for success, one for failure, and where the code cannot tell
  (an insert whose answer is lost) one for failure after success.
* **Tables outlive crashes, memory does not.** `Crash` resets exactly the
  variables that stand for memory.
* **Unique indexes are guards** of the insert: `event_consumptions` on the pair,
  `pipeline_runs` on `event_id`, `data_events` on `event_id`.
* **Data are reduced to what the properties see**: an event is a name, a row its
  status and owner, a lease is live or expired, time is an action.
* **`X_Something` operators** written before an operator `X` and marked
  `Faulty:` are variants with a plausible mistake. They show that a property can fail; no
  specification uses them.

`PipelineEngine`. `Deliver`, `WebhookRequest`, `ManualRequest` and `CronTick`
start an execution; `HasConsumed`, `RecordConsumption`, `CreateRun` are
`executePipeline` up to the run row; `SaveCheckpoint`, `BeginStep`, `InvokeOk`,
`InvokeRetry`, `InvokeGiveUp`, `ReportStep` are one turn of `runPipelineSteps`;
`FinishRun` is `finishRunRecord`. A failing step row or checkpoint is logged and
execution goes on, as in the code. A run row is identified with its pair.

`EventOutbox`. `Emit(g)` is `persistAndPublishDataEvent` for each event of a batch;
an emitter in `Aborting` returns at the first error (the event source), another goes
on (capability events). `Redeliver` is one tick of the redelivery loop, with the age
limit (`RowAges`), the batch limit and the cap on scanned rows. The stream has no
consumer group, so `Crash` empties it.

`GatewayJobs`. Each SQL statement is one step: `Cancel` and `Complete` read in one
step and write in another. Slots are the `max_concurrent` of a worker. `Fail` is a
request that fails before or after the server acted. A lease ends when nobody renews
it, or, up to `MaxLate` times, although its worker lives.

`WorkflowDag`. The loop (`Dispatch`, `Dispatched`, `TaskDone`, `ContextDone`,
`Drain`, `Wait`) and one goroutine per task (`BeginTask`, `ExecuteTask`, `Enqueue`
or `FailFast`, `Report`). `Enqueue` is one step because the code holds the lock
there. `firstErr` is read by the loop without synchronisation when the caller's
context ends; the outcomes of that race are those of reading it before or after the
goroutine writes it, and both are behaviours of the model. A
task that returns the empty string leaves no result, so a checkpoint, which is made of
the results, may list a task and not one it depends on. The history variable `holes`
says that a resume began from such a checkpoint; `RecordedOnce` and the
refinement speak of runs without one, and `DagHoles.cfg` (section 6) shows what
happens with one. Resume happens only when no runner is at work on the run: the code does not
check this (see section 7).

`WorkflowSteps`. The same over a list of steps, with the checkpoint saved *before* a
step. A run without a checkpoint decodes to the zero checkpoint, as in the code.

`ChatSession`. `Start` to `Unbind` are one turn, from the request through
`Service.Run` to the deferred calls of its caller; `ClearState`, `CancelGate` and
`DropGate` are the three table operations of `ClearAPIRunState`, which no lock holds
together. `LoopEnds`, `LoopAsks`, `TakesAnswer`, `GivesUp` and `Settles` are the agent
loop of a harness, which may go on after its turn has left it; `Match`, `CheckAnswer`
and `SendAnswer` are one confirm request, the last two before and after
`Resolve` gives the gate's mutex back. A new question replaces the gate's channel, so
an answer carries the question it was meant for and the one it was sent at. The
`Close*` actions are `CloseSession` and the handler around it in the order of the
code; that `CloseSession` fails after the eviction is `CloseFails`. A lock entry is
named by the turn that made it, so two turns may hold two entries of one session,
which is what the check after the lock has to make harmless.

`CapabilityCalls`. A call looks into the cache, enters the queue, takes a slot, leaves
the queue, calls the provider, frees the slot, and then writes the cache (`Set`,
`Register`, `StoreKey`) or invalidates it (`Detach`, `Delete`, `EndSweep`). The
version of the provider's data stands for its contents. `Register` and `StoreKey` are
apart because `registerKey` finds the index map and writes into it in two steps. The
history variable `raced` holds the reads that a mutation overtook.

`PollingSource`. `PollStart` to `MarkDirty` are `pollOnce` for the mailbox, with its
paging (`Below`, `Newest`, `NextCursor`), the emitter, which drops the rest of a batch at
the first error, and the hook that marks messages seen. Polls may overlap: the cron
starts each tick in a goroutine of its own, and the calls of the IMAP client look at
the context of a poll only when they begin (`imap.go:36`, `:240`), so a listing may
outlast the timeout of the poll and the interval. What they share is the entry, whose
mutex (`EntryFree`) a poll holds from the comparison to the last event (`Diff`, `Emit`,
`Emitted`) and again, apart from that, when it reads the cursor, remembers the page and
copies the entry (`PollStart`, `Remember`, `Copy`). The two flushes (`tick` and
`stop`) take the mark, copy, save and clear in separate steps, as `Flush` does under
two different locks. `Exit` keeps only the table and the mailbox. `handed`, `events`
and `overlaps` are history variables: what the emitter got, what it stored, and how
many polls began while another was under way.

`TaskScheduler`. `Rearm` is `UpdateTask` under the scheduler's mutex, with the timer,
the immediate goroutine and the "missed" state of a task that runs once; a change of a
row and the call of the scheduler that follows it are separate steps, and the agent of
a run may cancel tasks in the middle (`AgentCancels`, `ToolReturns`). `Stop` is
`Shutdown`, `StopLocks` and `StopReturns`: while it waits it holds the mutex, and
`Lock`, `ToolReturns` and `Unregister` need `MutexFree`.

## 3. The runs

Bounds limit only the environment: how many calls fail, contexts end, processes
crash, messages are redelivered, runs are resumed. Two goroutines (or workers) are
the smallest number that can race; each property here speaks of one pair, event, job
or run, and its violation by a faulty variant needs at most two actors and the
faults allowed. `CHECK_DEADLOCK FALSE` is set everywhere: every
instance may come to rest when its bounded inputs are used up.

| Run | Bounds | Shows |
|---|---|---|
| `engine_faults` | 2 definitions on one event delivered twice, 2 goroutines, 2 steps of 2 attempts, failing calls, timeouts, 1 crash | `StepsOnceInOrder`, `CheckpointCovers`, `RowsTellTheTruth`, and that `EventClaim` is implemented |
| `engine_triggers` | a bus event, cron, webhook and manual runs with 2 minted ids, 1 reload, no faults | `CronExclusive`, `NoMatchLost`, `EveryRunSettles` |
| `outbox_faults` | 2 emitters that share an event, 1 foreign row, batches of 1, a scan of 2 rows, 1 fault, 1 crash | `MarkedWereSent`, `SentIsDurable`, `CopiesArePaidFor`, `BacklogDrains`, `RowsReachHandler` |
| `gateway_faults` | 2 workers, 1 job, 1 late lease, and 1 of: failing request, stopped worker, user cancel | `LeasesAreHeld`, `JobSettles`, `CancelStopsCli`, and that `JobLifecycle` is implemented (`JobSpec`) |
| `workflow_dag` | diamond of 4 tasks, concurrency 2, 1 failing task, 1 task without a result, 1 unsaved checkpoint or outcome, 1 timeout, 1 crash, 1 resume | `CheckpointIsHonest`, `LoopIsNeverStuck`, `RecordedOnce`, `FailureIsRecorded`, `EveryRunEnds`, and that `DagRun` is implemented |
| `workflow_steps` | 3 steps, 2 errors, 2 faults, 1 crash, 2 resumes | `RepeatsArePaidFor`, `IndexIsHonest`, `RunGetsOutcome` |
| `chat_turns` | 2 HTTP turns and 1 of a platform, 1 confirm request, 2 questions, no close | `QuestionsCanBeAnswered`, `ApiRunsStayCancellable`, `AnswersAreFresh` |
| `chat_closing` | 1 HTTP turn, 1 of a platform, 1 confirm request, 1 question, 1 close | `OneTurnAtATime`, `PromptFindsIdle`, `EveryTurnEnds` |
| `capability_calls` | 2 reads of one key, 2 mutations, 2 slots, a queue of 2 | `StaleIsPaidFor`, `TokensAreHeld`, `CallsGetThrough` |
| `polling` | 1 message, 2 polls at a time, the second of which begins beside another once, 1 change of the flag by the owner, 1 end of the process; messages are marked seen | `KnownWasHandedOver`, `RepeatsArePaidFor`, `KnownIsSaved` |
| `polling_mailbox` | 3 messages, pages of 1, only unseen ones, no overlap, no restart | a violation of `NewMailIsReported` (section 6) |
| `scheduler` | 1 recurring task and 1 that runs once, 2 firings at a time, 3 changes, 1 unwritten final state for each task, 1 end of the process | `OneRunPerTask`, `OnceRunsArePaidFor`, `StopEnds` |

Type invariants are proved (section 5), and checked with TLC while they were written.
Safety and liveness are checked on one state
space, so liveness is claimed in the presence of the faults: where a fault excuses an
outcome the property says so (`RowsReachHandler`: a crash; `FailureIsRecorded` and
`RunGetsOutcome`: a failed call of the store or a crash; `KnownIsSaved`: the end of the
flush loop). `NoMatchLost` and `EveryRunSettles` hold only while calls succeed, because
the engine logs most failures and goes on; hence the run of their own. The scan of
`outbox_faults` covers one row more than there are foreign rows: that is what the code
needs (5000 rows scanned against the foreign backlog).

Why two or three actors are enough for the newer modules: a turn of a session meets
one that ends and one that waits (three), or the closer; a stale answer needs a read
and a mutation, and a second mutation to take the key that the first one missed; a
second mutation is also the third call that a full bulkhead turns away; a once task can be fired
twice and changed in between with three changes (create, edit or set, cancel); a repeat
without a change of the flag needs two polls of one message. The properties of `polling`
speak of one message, and two polls that may be at different pages are too many states
for liveness: `PollingPages.cfg`, which is not among the runs, checks its two invariants
with two messages and pages of one (12 million states, 4 minutes, no error). The
proofs of section 5 lift the bounds for the safety properties.

## 4. Fairness

* Engine: `WF` of each goroutine's next step. Clients of the store and of
  capabilities have timeouts, and the Go scheduler starves nobody.
* Outbox: `WF` of the redelivery loop (a ticker), of handling a message and of time.
  Emitters are fair only in `FairEmitSpec`, where a crash is to be to blame.
* Gateway: `WF` of each slot's claim loop, watcher and report, of the server's
  handlers and of the end of leases. That CLIs exit by themselves (`job_timeout`
  kills them) is a premise of `JobSettles` alone, so `CancelStopsCli` is not owed to
  CLIs that happen to end.
* Workflows: `WF` of the loop and of the parts of a task that only compute or store.
  That executors return, which the ten-minute context of `executeRun` brings about,
  is a premise of `EveryRunEnds` alone, so `FailureIsRecorded` holds with a branch
  that hangs. In `WorkflowSteps` executors return.
* Chat sessions: `WF` of each turn's next step and of its deadline while it waits for
  its loop (every caller of `Run` gives it a context with a timeout). Nothing is assumed
  of the loops, which call a model, of clients, or of whoever closes the session: the
  drain's own timeout is what ends a turn whose loop never stops.
* Capability calls: `WF` of entering and leaving the queue and of the bulkhead's timer.
  No provider needs to answer; a slot need not come free.
* Polling: `WF` of polls, of the periodic flush and of a restart that has begun, and
  `SF` of a listing and of the periodic save, which are tried again and again: a
  provider or database that always fails is not the poller's business. Nothing is
  assumed of a single poll: some poll goes on, and `MaxOverlaps` bounds how often one is
  overtaken. In the code a poll whose listing never returns holds nothing that a later
  one needs: the mutex is free while it lists (`polling.go:55`).
* Scheduled tasks: `WF` of Stop and of each firing (a prompt ends with its deadline).
  The cron, users and the end of the process come as they please.

Nothing is assumed of triggers, users, crashes or faults.

## 5. The proofs

All are machine-checked for any sets and bounds that satisfy the assumption of the
module (`ConstantsAssumption`, `OutboxAssumption`, `GatewayAssumption`,
`BoundsAssumption` and `DagAssumption` or `StepsAssumption`, `ChatAssumption`, `CallsAssumption`,
`PollingAssumption`, `SchedulerAssumption`); TLC evaluates those on every run. A theorem
that needs more says so in its own hypotheses, which are named below.

* **`PipelineEngine_proofs`**: `TypeCorrect`, `ExclusiveExecution` (`[]OneOwner`),
  `RunningIsRecorded` (`[]OwnerRuns`), `ImplementsClaim` (`Spec => ClaimSpec`).
  `OneOwner` is not inductive: two goroutines stay apart because the row that one
  inserted stays. The strengthening `Ownership` ties each program counter to the
  rows. `StepEffect` sorts all steps into seven effects on claims; each preserves
  `Ownership` and is a step or a stutter of `EventClaim`.
  `StepsAreOrdered` (`[]StepsOnceInOrder`), `CheckpointsAreHonest`
  (`[]CheckpointCovers`) and `RowsAreTrue` (`[]RowsTellTheTruth`) follow from one more
  invariant, `Progress`: a goroutine that runs a pair knows exactly which steps of it
  were acknowledged. It rests on `Ownership`, without which another goroutine could
  acknowledge a step in between, and on a pair without a run having no step
  acknowledged. `CronRunsAlone` (`[]CronExclusive`): a cron execution holds its
  definition's mutex from the tick to its return (`CronInv`).
  `MatchesAreKept` (`[]NoMatchLost`) has three hypotheses: `Calm` (no store call fails,
  no context ends, no crash: each drops matches, by the code's early returns),
  `OneSubscriberEach` (the run of a second subscriber is refused, since `event_id` is
  unique: `EngineTwoSubscribers.cfg`) and `IdsAreFresh` (`types.Id()` mints no id that the
  bus already has). `engine_triggers`, which checks the property, satisfies all three.
  Under them a pair that is recorded as consumed has a run or a goroutine about to
  create it (`MatchInv`).
* **`EventOutbox_proofs`**: `OutboxType`, `NoMarkBeforeSend`
  (`[]MarkedWereSent`), `NoSendBeforeStore` (`[]SentIsDurable`), inductive together
  with what each loop knows of the event it works on (`EmitterKnows`, `LoopKnows`).
  `CopiesArePaid` (`[]CopiesArePaidFor`): the bound `2 + faults + crashes` becomes
  inductive when the copy that the emitter, or the loop, may still send on its own
  account is subtracted from it (`Budget`), and no two emitters send one event, since
  `event_id` is unique in `data_events`.
* **`GatewayJobs_proofs`**: `GatewayType`, `OnlyRunningJobsAreLeased`
  (`[]LeasesAreHeld`), `ImplementsJobLifecycle` (`Spec => JobSpec`). The statements have
  no lock, so the invariant speaks of rows: whatever a handler read, a row makes one of
  eight moves (`Moves`), each of which keeps `RowInv` and is a step or a stutter of
  `JobLifecycle` (`MoveIsStep`). `row.claim <= lapses + 1` becomes inductive when it is
  sharpened by one for a job without a live lease. That a report comes from a hand-out
  that was made needs what slots and requests under way remember (`HandInv`): their
  claims are at most the row's, which never falls. `NoUnpaidClaim` and
  `OutcomesNeverChange` state two consequences by themselves: claims are bounded by
  lapses, and neither a cancellation nor a result is ever replaced.
  `OnlyCancelOverwrites`: no move but that of a `Cancel` at work on the job changes
  a finished row, and that one changes its status only.
* **`Workflow_proofs`**, the parallel runner: `DagCheckpointsAreHonest`
  (`[]CheckpointIsHonest`), `RecordedTasksRunOnce` (`RecordedOnce`), `ImplementsDagRun`
  (`Spec => DagRunSpec`), `LoopNeverStuck` (`[]LoopIsNeverStuck`) and `DagType`, for every
  acyclic graph of at least one task, width and bound. The
  invariant `DagInv` has a part that always holds: the loop counts what it handed out
  and has not heard of (`LoopInv`), a task is handed out only when its in-degree is spent
  (`OnceInv`), and what the row, the loop and the goroutines say of each other
  (`RowInv`). Three parts hold until a resume begins from a checkpoint with holes:
  what was kept is closed under dependencies (`KeptInv`), while the context lasts an
  in-degree is the number of dependencies whose dependents have not been told
  (`DegreeInv`), and the loop waits for as many messages as there are tasks that have
  not ended (`CountInv`). The outcome is tied to them while the run is whole
  (`OutcomeInv`). Each part needs the others: an in-degree can only be lowered to
  zero by the last dependency because each dependency tells its dependents once, and
  `remaining` reaches zero only with all tasks ended because none reports twice.
  Two theorems say why the statements that `DagHoles.cfg` and `DagTimeout.cfg` refute
  fail, and that nothing else makes them fail. `DependenciesFirst`
  (`[]DepsAlwaysFirst`) has the hypothesis `Unspoilt`: no run is resumed, as in
  production, or every task leaves a result. `DoneIsDone` (`[]DoneMeansAll`) adds that the
  caller's context does not end. Under the second case of `Unspoilt` what has a result
  is closed under dependencies (`FullInv`).
  `LoopNeverStuck` is the safety behind `EveryRunEnds`: the loop sleeps only while a
  goroutine will send it a message, a token of `sem` is free for every task it hands
  out, and the channel has room for every message. It holds with holes too, where
  `DegreeInv` and `CountInv` do not, so it has an invariant of its own, `WaitInv`, of
  their weaker halves: no task waits for *more* than it depends on (`EagerInv`), and the
  loop does not wait for *more* messages than there are tasks that have not ended
  (`FewInv`). If the loop has tasks left, none of them ready and none at work, each of
  them waits for another of them (`SomeoneIsAtWork`), which an acyclic graph excludes.
* **`Workflow_proofs`**, the sequential runner: `RepeatsOnlyIfLost`
  (`[]RepeatsArePaidFor`), `HonestCheckpoints` (`[]IndexIsHonest`) and `StepsType`, of
  `StepsSpec`, for every number of steps.
  `StepsPaid`: a step after the checkpoint was executed only by runners that lost its
  checkpoint. `StepsHonest`: what a runner has in its results belongs to steps before the one
  it stands at.
* **`ChatSession_proofs`**: `ChatType`, `TurnsExclude` (`[]OneTurnAtATime`),
  `HarnessIsIdle` (`[]PromptFindsIdle`). Mutual exclusion is not inductive because
  the lock has no fixed identity. `LockInv`: while the session is open every fetched
  entry is the current one; turns past the second check, which they pass only in an
  open session, hold one and the same entry, and that stays true when the entry is
  thrown away. `LoopInv`: a loop that goes on serves the turn that waits for it or
  drains it, or its harness is out of the pool and no turn is about to prompt it.
  `AnswersBelong` (`[]AnswersAreFresh`): what lies in the channel of a gate was sent to
  its current question (`FreshInv`), because a question that follows a settled one
  makes a new channel (`beginWait`). `QuestionsReachable` (`[]QuestionsCanBeAnswered`) and `CancelsReachable`
  (`[]ApiRunsStayCancellable`): the slot and the gate belong to the one HTTP run in
  flight until `CloseSession` clears them (`GateInv`): `LoadOrStore` lets one run in,
  and the cleanup of an earlier run compares before it removes either. The cancel slot is
  removed without comparing, which is why `ApiRunsStayCancellable` excuses sessions with
  a platform run.
  `ClosingIsQuiet` says why the statement that `ChatClosed.cfg` refutes fails, and that
  nothing else makes it fail: no turn of a closed session works on, as long as no turn
  registers itself between `cancelRun` and the closing of the row (`BindsTooLate`) and
  none empties the slot of a turn that replaced it (`EmptiesAnother`). Until the close
  the one live turn is the one in the slot; after it none is live but one that the
  check of the row will refuse (`QuietInv`). `HttpClosingIsQuiet`: in a session of HTTP
  runs the first race is the only one (`SlotInv`: who is in the slot is in flight).
* **`CapabilityCalls_proofs`**: `CallsType`, `NoTokenLeaks` (`[]TokensAreHeld`, by
  counting the calls in the queue and in slots), `OnlyOvertakenReadsLeaveStaleAnswers`
  (`[]StaleIsPaidFor`). `EntryInv`: the answer of a read that was not overtaken has its
  key in the current index map or in the hands of a sweep, and no completed mutation is
  newer unless such a sweep is still at it.
* **`PollingSource_proofs`**: `PollingType`, `NothingIsSkipped`
  (`[]KnownWasHandedOver`), `RepeatsHaveReasons` (`[]RepeatsArePaidFor`). `PageInv`: a
  message of the page that is not on the list to emit was handed over with its hash.
  `CountInv` sharpens the bound on events
  by what is still to come. While one poll is under way (`Alone`) that is the distance
  between the hash it will leave behind and the flag of the message, which a change of
  the flag or a restart from an old row pays for. While several are, or none (`Crowd`),
  it is one event for each poll that has yet to compare or to emit the message, and one
  more unless all pages and the entry agree with the flag. A poll that begins alone
  goes from `Crowd` to `Alone`, its end leads back, and one that begins beside another
  (`PollStart` with `Busy` not empty) goes from `Alone` to `Crowd` and pays two: its own
  event, and one for an older hash that one of the two may write over a newer one. Two
  is sharp: with one event for each overlap TLC finds `RepeatsArePaidFor` violated.
* **`TaskScheduler_proofs`**: `SchedulerType`, `TasksExclude` (`[]OneRunPerTask`),
  `OnceMeansOnce` (`[]OnceRunsArePaidFor`). `LockInv`: a firing that executes has its
  task's mutex. `PayInv`: a task that runs once, is active and has no run under way has
  paid for one more run; it is kept because the mutex is held until the final state
  is written, or failing to write it is counted.

So every invariant and every action property that a run checks is a theorem, and the
three refinements are. What stays model-checked only is everything temporal under
fairness, which is out of the prover's reach: `EveryRunSettles`, `BacklogDrains`,
`RowsReachHandler`, `JobSettles`, `CancelStopsCli`, `FailureIsRecorded`, `EveryRunEnds`,
`RunGetsOutcome`, `EveryTurnEnds`, `CallsGetThrough`, `KnownIsSaved` and `StopEnds`.
`EventClaim`, `DagRun` and `JobLifecycle` state safety only, so the refinements leave
nothing to fairness. Statements that hold because a checked and proved property is
stronger have no run of their own: `OneOwner` and `OwnerRuns` follow from `ClaimSpec`,
which `engine_faults` checks, `ClaimsArePaidFor` and `OutcomesStick` from `JobSpec`,
which `gateway_faults` checks.

## 6. Findings and supplementary configurations

`polling_mailbox` finds `NewMailIsReported` violated. The mailbox is paged from the
newest message to older ones, the cursor of a page is its oldest UID, and the next
poll lists what lies below it (`pkg/providers/email/imap.go:83`, `:296`). The last page
has no cursor, and then `pollOnce` keeps the one it has (`pkg/capability/polling.go:100`).
From the first poll on that met more than a page of matching messages (twenty, by
default), every message that arrives has a UID above the cursor and is never listed,
although `pkg/capability/email/register.go:32` promises an event for it. A restart does
not help, since the cursor is saved.

The following configurations are not among the runs of `PROJECT.json`. Each checks one
statement of the repository, and TLC finds it violated; run them as in section 9.

| Configuration | Property | The code | What it contradicts |
|---|---|---|---|
| `EngineTwoSubscribers.cfg` | `NoMatchLost` | `event_id` is unique in `pipeline_runs`, so of the pipelines that match an event only one runs | `docs/user-guide/pipeline.md:184` |
| `OutboxCrash.cfg` | `EventsReachOutbox` | a crash between the two inserts leaves an event without an outbox row | `docs/reference/database-reference.md:63` |
| `GatewayCancelRace.cfg` | `TerminalIsFinal` | `Cancel` overwrites a result written after its read | `internal/store/gateway.go:258` |
| `DagTimeout.cfg` | `DoneMeansAll` | the end of the caller's context lets the loop record Done with tasks that never ran | `pkg/workflow/scheduler.go:73` |
| `DagHoles.cfg` | `DepsAlwaysFirst` | tasks with an empty result are missing from the checkpoint; a resume lowers in-degrees twice and executes a task before its dependency | `pkg/workflow/scheduler.go:486` |
| `StepsSkipped.cfg` | `SkipsOnlyCompleted` | the checkpoint names the step about to run and a resume begins one after it | `pkg/workflow/workflow.go:544` |
| `ChatClosed.cfg` | `ClosedSessionIsQuiet` | a turn that registers its cancel function after `cancelRun` and passes the check before the row is closed is neither cancelled nor refused | `internal/server/chatagent/session.go:88` |

`DependenciesFirst` and `DoneIsDone` (section 5) prove for the two of the parallel runner
and `OnlyCancelOverwrites` for the race of `Cancel` that the cause in the table is the
only one; `ClosingIsQuiet` leaves the close one more, and `HttpClosingIsQuiet` none.

The models also have these behaviours, which nothing above singles out:

* The outcome of a cancelled pipeline run is written with the context that ended, so
  the row stays in the Start state (`FinishRun`; `pkg/pipeline/engine.go:646`).
* Messages published but not handled at a restart are never read, since the
  subscriber has no consumer group: `RowsReachHandler` excuses a crash
  (`pkg/event/pubsub.go:43`).
* As many foreign rows as one listing scans starve data events: `BacklogDrains` fails
  when `ScanLimit` is not above the number of `Lore` rows (`internal/store/event.go:140`).
* A report validated before a lease ran out completes the claim of the next worker
  (`CompleteUpdate`; `internal/store/gateway.go:227`).
* A failing read ends the wait for a gateway job and leaves the job to the workers
  (`Poll`; `pkg/capability/gateway/register.go:142`).
* A turn of a platform that ends empties the cancel slot of the turn that replaced it,
  which then runs to its deadline (`Unbind`; `run_control.go:71`);
  `ApiRunsStayCancellable` excuses sessions with such a turn.
* A confirm request is answered with success although its question timed out before
  the answer was received (`SendAnswer`, `GivesUp`; `confirm.go:173`).
* The flush loop gets the context of the application's start hook and ends with it;
  from then on only Stop saves the polling state (`StartContextEnds`; `pollstate.go:173`).
* Two polls of one resource that overlap report a message twice, although nothing
  changed: both compare it before either remembers it (`List`, `Diff`, `Remember`;
  `polling.go:37`, `:85`, `:103`). The later of them may also write an older hash, cursor
  or copy of the entry over a newer one (`Remember`, `Update`; `polling.go:101`, `:103`,
  `:112`). It takes a listing that outlasts the interval, since nothing ends an IMAP call
  that has begun (`imap.go:50`), or an interval below the least timeout of 30 seconds
  (`polling.go:52`).
* Messages whose events the emitter refused are marked seen and are never emitted again
  (`EmitFails`, `Mark`; `polling.go:87`, `:165`).
* Stop of the scheduler waits for ever for a cron job that needs the scheduler's mutex;
  `StopEnds` excuses it, and the application ends only when its stop timeout does
  (`scheduler.go:114`).
* A once task that was cancelled, paused or moved to a later time while it ran ends as
  completed, and its new timer is taken away (`Finalize`, `Unregister`;
  `scheduled_run.go:117`).
* A once task whose row cannot be loaded, or whose session cannot be made, stays active
  without a timer until the next start (`LoadFails`; `scheduler.go:268`).

## 7. What is not modelled

* `ResumePipeline` and `ResumeWorkflow` have no caller outside tests. The first is
  planned; the second is modelled, but only for runs at rest. Nothing in either
  keeps it from running beside a live runner.
* Templates, resource links, audit, metrics, logging, step rows of workflows: no
  state that is read back.
* Several server processes on one database: the engine's mutexes and the stream
  without a group assume one.
* CRUD, rendering, clients of external services, configuration, the command line:
  input and output without shared state.
* Chat sessions: eviction of lock entries, cancel functions and harnesses by age
  (`run_control.go:42`), manual compaction, permission rules and approval rows. A lock
  evicted while it is held would break `OneTurnAtATime`; it takes a turn that was
  queued so long that it still runs half an hour after it fetched its entry.
* Capability events that the pool refuses under load are dropped
  (`pkg/capability/pool.go:125`); deletion of single keys from the cache.
* The buffer of the cache library: a write to the cache is queued and applied a moment
  later (`pkg/cache/cache.go:78` waits for it), while a delete takes effect at once and
  is queued behind earlier writes. The model's write is visible at once; in the library
  a write overtaken by a delete can show for a moment before the queued delete removes
  it. What `StaleIsPaidFor` says of answers that stay is not affected.
* What stops the command line of a job that was taken away: the watcher looks only for
  "canceled" (`cmd/gateway/worker/worker.go:149`), so an earlier worker's command line
  runs until it exits or its timeout kills it. `CancelStopsCli` speaks of jobs that were
  canceled, also after they were taken away.
* Several polled resources of one manager (they share only two locks), webhooks.
* Two users who change one scheduled task at the same time: the second read-back may
  be older than the first (`schedule_helpers.go:285`).
* The remaining components of `PROJECT.json` are planned as below.

## 8. Plan

In order; each with an MC module, a run, and theorems where marked (T). Parts that
share state are composed and checked in one run rather than one by one.

1. Done: `EventClaim`, `PipelineEngine` (T), `EventOutbox` (T), `GatewayJobs` (T),
   `JobLifecycle`, `DagRun`, `WorkflowDag` (T), `WorkflowSteps` (T), `ChatSession` (T),
   `CapabilityCalls` (T), `PollingSource` (T), `TaskScheduler` (T).
2. `PipelineResume`: `ResumePipeline`, heartbeat and a live run on the same row.
   `ProgressDrain`: order and wakeup. `PipelineDefinitions`: publish beside enable.
   `WorkflowTriggers`, `NotifyAggregate`, `AgentLoop`. In `ChatSession` the eviction by
   age, in `TaskScheduler` two users at a time.
3. Composition: outbox, stream, engine and retention end to end, with an
   abstract `EventDelivery` that both outbox and engine implement.
4. Proofs: the safety of each module of items 2 and 3 as it is written, and what else
   liveness rests on, in the manner of `LoopNeverStuck`.

## 9. How to run it

In this directory: `tlc -workers 2 -config EngineFaults.cfg MCPipelineEngine.tla`
(each run's module and configuration are in `PROJECT.json`), and
`tlapm PipelineEngine_proofs.tla`. No run takes more than a few minutes.
