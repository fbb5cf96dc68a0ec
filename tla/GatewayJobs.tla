---------------------------- MODULE GatewayJobs ----------------------------
(***************************************************************************)
(* Jobs for local CLIs (internal/store/gateway.go,                         *)
(* internal/server/gateway_http.go, pkg/capability/gateway/register.go,    *)
(* cmd/gateway/worker/worker.go): the server keeps a table of jobs, remote *)
(* workers claim them under a lease, renew it while the CLI runs and       *)
(* report the result, and the capability that created a job waits for it   *)
(* and cancels it when it gives up.                                        *)
(*                                                                         *)
(* The table has no lock: every statement is a step of its own, so what a  *)
(* handler has read may be stale when it writes.  A worker has a slot per  *)
(* job it may run at a time (max_concurrent).                              *)
(***************************************************************************)
EXTENDS Naturals, FiniteSets

CONSTANTS
    Jobs, Workers,
    Slots,          \* all slots of all workers
    Home,           \* Home[s]: the worker of slot s
    MaxClaimAttempts,
    MaxLate,        \* bound: leases lost though the worker runs the job
    MaxFaults,      \* bound: requests and statements that fail
    MaxStops,       \* bound: workers that stop and start again
    MaxCancels,     \* bound: cancel operations of users
    MaxTroubles,    \* bound: faults, stops and cancels together
    None            \* no worker, no job

ASSUME GatewayAssumption ==
    /\ Home \in [Slots -> Workers] /\ MaxClaimAttempts \in Nat \ {0}
    /\ MaxLate \in Nat /\ MaxFaults \in Nat /\ MaxStops \in Nat /\ MaxCancels \in Nat
    /\ MaxTroubles \in Nat
    /\ None \notin Jobs \cup Workers /\ IsFiniteSet(Jobs)

VARIABLES
    row,            \* gateway_jobs
    waiter,         \* the capability call that created the job
    cancels,        \* Cancel handlers that have read an unfinished row
    slot,           \* what each slot of a worker does
    beat,           \* the job whose lease a slot's heartbeat is about to renew
    completing,     \* Complete handlers that have validated the row
    lapses,         \* how often the lease of a job has run out
    late, faults, stops, userCancels

counters == <<late, faults, stops, userCancels>>
vars == <<row, waiter, cancels, slot, beat, completing, lapses, counters>>

Finished == {"succeeded", "failed"}
Terminal == Finished \cup {"canceled"}
Statuses == {"absent", "pending", "running"} \cup Terminal
Leases   == {"none", "live", "expired"}

\* claim counts the claims of the job, result is the claim that reported.
RowType == [status : Statuses, worker : Workers \cup {None}, lease : Leases,
            claim : Nat, result : Nat, born : Nat]
SlotPCs == {"free", "query", "claim", "run", "exited", "report", "wait"}
SlotType == [pc : SlotPCs, job : Jobs \cup {None}, claim : Nat, tries : Nat,
             killed : BOOLEAN, outcome : Finished]
Waiters == {"none", "waiting", "cancel", "returned", "gaveup", "error"}
Asking  == {"waiter", "user"}

TypeOK ==
    /\ row \in [Jobs -> RowType]
    /\ waiter \in [Jobs -> Waiters]
    /\ cancels \subseteq Jobs \X Asking
    /\ slot \in [Slots -> SlotType]
    /\ \A s \in Slots : slot[s].pc \notin {"free", "query"} => slot[s].job \in Jobs
    /\ beat \in [Slots -> Jobs \cup {None}]
    /\ completing \subseteq [slot : Slots, job : Jobs, claim : Nat, status : Finished]
    /\ lapses \in [Jobs -> Nat]
    /\ late \in 0..MaxLate /\ faults \in 0..MaxFaults
    /\ stops \in 0..MaxStops /\ userCancels \in 0..MaxCancels

NoRow == [status |-> "absent", worker |-> None, lease |-> "none",
          claim |-> 0, result |-> 0, born |-> 0]
Free  == [pc |-> "free", job |-> None, claim |-> 0, tries |-> 0,
          killed |-> FALSE, outcome |-> "failed"]

Init ==
    /\ row = [j \in Jobs |-> NoRow] /\ waiter = [j \in Jobs |-> "none"] /\ cancels = {}
    /\ slot = [s \in Slots |-> Free] /\ beat = [s \in Slots |-> None] /\ completing = {}
    /\ lapses = [j \in Jobs |-> 0]
    /\ late = 0 /\ faults = 0 /\ stops = 0 /\ userCancels = 0

-----------------------------------------------------------------------------
(* Statements on the table.                                                *)

Troubled == faults + stops + userCancels >= MaxTroubles

Fail == ~Troubled /\ faults < MaxFaults /\ faults' = faults + 1 /\ UNCHANGED <<late, stops, userCancels>>

(* ReclaimExpired, the first statement of most handlers.                   *)
Reclaimed ==
    [j \in Jobs |->
        IF row[j].status = "running" /\ row[j].lease = "expired"
        THEN [row[j] EXCEPT !.status = "pending", !.worker = None, !.lease = "none"]
        ELSE row[j]]
ReclaimExpired == row' = Reclaimed

Pending == {j \in Jobs : row[j].status = "pending"}
Oldest  == {j \in Pending : \A k \in Pending : row[j].born <= row[k].born}

\* Faulty: the claim sets no lease.
Claimed_NoLease(j, w) ==
    row' = [row EXCEPT ![j].status = "running", ![j].worker = w, ![j].claim = @ + 1]

Claimed(j, w) ==
    row' = [row EXCEPT ![j].status = "running", ![j].worker = w, ![j].lease = "live",
                       ![j].claim = @ + 1]
Completed(j, status, claim) ==
    row' = [row EXCEPT ![j].status = status, ![j].lease = "none", ![j].result = claim]

-----------------------------------------------------------------------------
(* The capability: create, wait, give up, cancel.                          *)

Goes(j, w) == waiter' = [waiter EXCEPT ![j] = w]

(* runInvoker: HasFreshWorker, which reclaims, and Create.                 *)
Create(j) ==
    /\ row[j].status = "absent"
    /\ row' = [Reclaimed EXCEPT ![j].status = "pending",
                   ![j].born = 1 + Cardinality({k \in Jobs : row[k].status # "absent"})]
    /\ Goes(j, "waiting")
    /\ UNCHANGED <<cancels, slot, beat, completing, lapses, counters>>

(* One tick of waitForJob.  A failing read ends the wait.                  *)
Poll(j) ==
    /\ waiter[j] = "waiting"
    /\ \/ /\ ReclaimExpired
          /\ Reclaimed[j].status \in Terminal /\ Goes(j, "returned") /\ UNCHANGED counters
       \/ /\ ReclaimExpired
          /\ Reclaimed[j].status \notin Terminal /\ row # Reclaimed
          /\ UNCHANGED <<waiter, counters>>
       \/ (ReclaimExpired \/ UNCHANGED row) /\ Goes(j, "error") /\ Fail
    /\ UNCHANGED <<cancels, slot, beat, completing, lapses>>

(* The run timeout, or the end of the caller's context.                    *)
StopWaiting(j) ==
    /\ waiter[j] = "waiting"
    /\ Goes(j, "cancel")
    /\ UNCHANGED <<row, cancels, slot, beat, completing, lapses, counters>>

(* Cancel reads the row ...                                                *)
CancelRead(j) ==
    /\ row[j].status # "absent"
    /\ \/ /\ waiter[j] = "cancel" /\ <<j, "waiter">> \notin cancels
          /\ \/ row[j].status \in Terminal /\ Goes(j, "gaveup") /\ UNCHANGED <<cancels, counters>>
             \/ /\ row[j].status \notin Terminal
                /\ cancels' = cancels \cup {<<j, "waiter">>} /\ UNCHANGED <<waiter, counters>>
             \/ Goes(j, "error") /\ UNCHANGED cancels /\ Fail
       \/ /\ <<j, "user">> \notin cancels /\ row[j].status \notin Terminal
          /\ ~Troubled /\ userCancels < MaxCancels /\ userCancels' = userCancels + 1
          /\ cancels' = cancels \cup {<<j, "user">>}
          /\ UNCHANGED <<waiter, late, faults, stops>>
    /\ UNCHANGED <<row, slot, beat, completing, lapses>>

Canceled(j) == row' = [row EXCEPT ![j].status = "canceled", ![j].lease = "none"]

(* ... and updates it by its id, whatever it has become.                   *)
CancelUpdate(j, who) ==
    /\ <<j, who>> \in cancels /\ cancels' = cancels \ {<<j, who>>}
    /\ \/ /\ Canceled(j) /\ UNCHANGED counters
          /\ IF who = "waiter" THEN Goes(j, "gaveup") ELSE UNCHANGED waiter
       \/ /\ (Canceled(j) \/ UNCHANGED row) /\ Fail
          /\ IF who = "waiter" THEN Goes(j, "error") ELSE UNCHANGED waiter
    /\ UNCHANGED <<slot, beat, completing, lapses>>

-----------------------------------------------------------------------------
(* A worker claims a job.  Its loop makes one request at a time.           *)

Set(s, r)   == slot' = [slot EXCEPT ![s] = r]
Busy(s)     == slot[s].pc \in {"run", "exited", "report", "wait"}
Claiming(w) == \E s \in Slots : Home[s] = w /\ slot[s].pc \in {"query", "claim"}

ClaimStart(s) ==
    /\ slot[s].pc = "free" /\ ~Claiming(Home[s])
    /\ ReclaimExpired
    /\ Set(s, [Free EXCEPT !.pc = "query"])
    /\ UNCHANGED <<waiter, cancels, beat, completing, lapses, counters>>

(* tryClaimOnce: the oldest pending row ...                                *)
ClaimQuery(s) ==
    /\ slot[s].pc = "query"
    /\ \/ /\ \E j \in Oldest : Set(s, [slot[s] EXCEPT !.pc = "claim", !.job = j])
          /\ UNCHANGED counters
       \/ Pending = {} /\ Set(s, Free) /\ UNCHANGED counters
       \/ Set(s, Free) /\ Fail
    /\ UNCHANGED <<row, waiter, cancels, beat, completing, lapses>>

StillPending(j) == row[j].status = "pending"

(* ... is taken if it is still pending; a lost race is tried again.  The   *)
(* worker may never learn of its claim.                                    *)
ClaimUpdate(s) ==
    LET j == slot[s].job IN
    /\ slot[s].pc = "claim"
    /\ \/ /\ StillPending(j) /\ Claimed(j, Home[s])
          /\ Set(s, [slot[s] EXCEPT !.pc = "run", !.claim = row[j].claim + 1])
          /\ UNCHANGED counters
       \/ /\ ~StillPending(j) /\ UNCHANGED <<row, counters>>
          /\ Set(s, IF slot[s].tries + 1 < MaxClaimAttempts
                    THEN [Free EXCEPT !.pc = "query", !.tries = slot[s].tries + 1]
                    ELSE Free)
       \/ /\ (StillPending(j) /\ Claimed(j, Home[s])) \/ UNCHANGED row
          /\ Set(s, Free) /\ Fail
    /\ UNCHANGED <<waiter, cancels, beat, completing, lapses>>

-----------------------------------------------------------------------------
(* The worker runs the CLI; its watcher keeps the lease and looks for a    *)
(* cancellation.                                                           *)

Watched(s) == Busy(s) /\ ~slot[s].killed

(* TouchWorkerLease first reclaims: a late heartbeat does not save its own *)
(* lease ...                                                               *)
Heartbeat(s) ==
    /\ Watched(s) /\ beat[s] = None
    /\ ReclaimExpired
    /\ beat' = [beat EXCEPT ![s] = slot[s].job]
    /\ UNCHANGED <<waiter, cancels, slot, completing, lapses, counters>>

\* Faulty: the lease is renewed whatever has become of the job.
MayRenew_Always(j, w) == row[j].status # "absent"

MayRenew(j, w) == row[j].status = "running" /\ row[j].worker = w

(* ... and renews by job and worker, even if the slot has moved on.        *)
RenewLease(s) ==
    /\ beat[s] # None
    /\ \/ /\ MayRenew(beat[s], Home[s]) /\ row' = [row EXCEPT ![beat[s]].lease = "live"]
          /\ UNCHANGED counters
       \/ ~MayRenew(beat[s], Home[s]) /\ UNCHANGED <<row, counters>>
       \/ UNCHANGED row /\ Fail
    /\ beat' = [beat EXCEPT ![s] = None]
    /\ UNCHANGED <<waiter, cancels, slot, completing, lapses>>

(* The heartbeat of the worker's loop names no job.                        *)
IdleHeartbeat ==
    /\ row # Reclaimed /\ ReclaimExpired
    /\ UNCHANGED <<waiter, cancels, slot, beat, completing, lapses, counters>>

\* Faulty: a job taken away from the worker is not seen as canceled.
SeesCancel_OwnOnly(s) ==
    row[slot[s].job].status = "canceled" /\ row[slot[s].job].claim = slot[s].claim

SeesCancel(s) == row[slot[s].job].status = "canceled"

(* watchCancel, cancel tick: GetJob also reclaims.                         *)
WatchCancel(s) ==
    /\ slot[s].pc = "run" /\ ~slot[s].killed /\ SeesCancel(s)
    /\ ReclaimExpired
    /\ Set(s, [slot[s] EXCEPT !.killed = TRUE])
    /\ UNCHANGED <<waiter, cancels, beat, completing, lapses, counters>>

Exit(s, outcomes) ==
    /\ slot[s].pc = "run"
    /\ \E o \in outcomes : Set(s, [slot[s] EXCEPT !.pc = "exited", !.outcome = o])
    /\ UNCHANGED <<row, waiter, cancels, beat, completing, lapses, counters>>

CliExits(s)  == ~slot[s].killed /\ Exit(s, Finished)
CliKilled(s) == slot[s].killed /\ Exit(s, Finished)

-----------------------------------------------------------------------------
(* The worker reports.                                                     *)

(* reportResult after the watcher has stopped the CLI: nothing to report   *)
(* if the job is canceled, else a failure.                                 *)
CheckCanceled(s) ==
    /\ slot[s].pc = "exited" /\ slot[s].killed
    /\ \/ /\ ReclaimExpired /\ UNCHANGED counters
          /\ Set(s, IF SeesCancel(s) THEN Free
                    ELSE [slot[s] EXCEPT !.pc = "report", !.outcome = "failed"])
       \/ /\ UNCHANGED row /\ Fail
          /\ Set(s, [slot[s] EXCEPT !.pc = "report", !.outcome = "failed"])
    /\ UNCHANGED <<waiter, cancels, beat, completing, lapses>>

Reporting(s) == slot[s].pc = "report" \/ (slot[s].pc = "exited" /\ ~slot[s].killed)
Report(s) == [slot |-> s, job |-> slot[s].job, claim |-> slot[s].claim, status |-> slot[s].outcome]

(* Complete reads the row and validates it; a canceled job is accepted and *)
(* changed no more, any other refusal is logged by the worker ...          *)
CompleteRead(s) ==
    LET r == row[slot[s].job] IN
    /\ Reporting(s)
    /\ \/ /\ r.status = "running" /\ r.worker = Home[s]
          /\ completing' = completing \cup {Report(s)}
          /\ Set(s, [slot[s] EXCEPT !.pc = "wait"]) /\ UNCHANGED counters
       \/ /\ ~(r.status = "running" /\ r.worker = Home[s])
          /\ Set(s, Free) /\ UNCHANGED <<completing, counters>>
       \/ Set(s, Free) /\ UNCHANGED completing /\ Fail
    /\ UNCHANGED <<row, waiter, cancels, beat, lapses>>

\* Faulty: the status read by the validation is trusted.
StillRunning_Unchecked(j) == row[j].status # "absent"

StillRunning(j) == row[j].status = "running"

Answer(c) ==
    slot' = [s \in Slots |->
                IF s = c.slot /\ slot[s].pc = "wait"
                   /\ slot[s].job = c.job /\ slot[s].claim = c.claim
                THEN Free ELSE slot[s]]

(* ... and updates it if it still runs, for whichever worker.              *)
CompleteUpdate(c) ==
    /\ c \in completing /\ completing' = completing \ {c}
    /\ \/ StillRunning(c.job) /\ Completed(c.job, c.status, c.claim) /\ UNCHANGED counters
       \/ ~StillRunning(c.job) /\ UNCHANGED <<row, counters>>
       \/ UNCHANGED row /\ Fail
    /\ Answer(c)
    /\ UNCHANGED <<waiter, cancels, beat, lapses>>

(* The client gives up on the answer; the handler goes on.                 *)
ClientTimeout(s) ==
    /\ slot[s].pc = "wait" /\ Set(s, Free) /\ Fail
    /\ UNCHANGED <<row, waiter, cancels, beat, completing, lapses>>

-----------------------------------------------------------------------------
(* Time, and workers that stop.                                            *)

\* Some watcher keeps the lease of j.
Attended(j) == \E s \in Slots : Watched(s) /\ slot[s].job = j /\ Home[s] = row[j].worker

LeaseExpires(j) ==
    /\ row[j].status = "running" /\ row[j].lease = "live"
    /\ row' = [row EXCEPT ![j].lease = "expired"]
    /\ lapses' = [lapses EXCEPT ![j] = @ + 1]
    /\ \/ ~Attended(j) /\ UNCHANGED late
       \/ Attended(j) /\ late < MaxLate /\ late' = late + 1
    /\ UNCHANGED <<waiter, cancels, slot, beat, completing, faults, stops, userCancels>>

(* A worker stops: the contexts of its requests and CLIs end, nothing is   *)
(* reported.  Handlers on the server go on.  It may claim again.           *)
WorkerStops(w) ==
    /\ ~Troubled /\ stops < MaxStops /\ stops' = stops + 1
    /\ slot' = [s \in Slots |-> IF Home[s] = w THEN Free ELSE slot[s]]
    /\ UNCHANGED <<row, waiter, cancels, beat, completing, lapses, late, faults, userCancels>>

Claim(s) == ClaimStart(s) \/ ClaimQuery(s) \/ ClaimUpdate(s)
Watch(s) == Heartbeat(s) \/ RenewLease(s) \/ WatchCancel(s)
Finish(s) == CliKilled(s) \/ CheckCanceled(s) \/ CompleteRead(s)
Wait(j) == Create(j) \/ Poll(j) \/ StopWaiting(j) \/ CancelRead(j)

Next ==
    \/ \E j \in Jobs : Wait(j) \/ LeaseExpires(j) \/ \E who \in Asking : CancelUpdate(j, who)
    \/ \E s \in Slots : Claim(s) \/ Watch(s) \/ CliExits(s) \/ Finish(s) \/ ClientTimeout(s)
    \/ \E c \in completing : CompleteUpdate(c)
    \/ \E w \in Workers : WorkerStops(w)
    \/ IdleHeartbeat

Spec == Init /\ [][Next]_vars

(* The loops and watchers of the workers turn, a killed CLI ends, the      *)
(* server answers, and leases end.  A CLI left alone may run forever, and  *)
(* nothing is assumed of those who wait.                                   *)
FairSpec ==
    /\ Spec
    /\ \A s \in Slots :
          WF_vars(Claim(s)) /\ WF_vars(RenewLease(s)) /\ WF_vars(WatchCancel(s)) /\ WF_vars(Finish(s))
    /\ \A j \in Jobs : WF_vars(LeaseExpires(j))
    /\ WF_vars(\E c \in completing : CompleteUpdate(c)) /\ WF_vars(IdleHeartbeat)

-----------------------------------------------------------------------------
(* Properties.                                                             *)

(* A running job has a worker and a lease, so it can always be reclaimed;  *)
(* no other job has a lease, so a late heartbeat, a late result and a      *)
(* cancellation leave nothing behind that a reclaim would bring back.      *)
LeasesAreHeld ==
    \A j \in Jobs :
        /\ row[j].status = "running" <=> row[j].lease # "none"
        /\ row[j].status = "running" => row[j].worker \in Workers
        /\ row[j].status = "pending" => row[j].worker = None

(* A job is claimed once, and once more for every lease that ran out:      *)
(* concurrent claims, lost answers and stale updates never start a second  *)
(* CLI for a job whose lease is held.  JobSpec implies it.                 *)
ClaimsArePaidFor == \A j \in Jobs : row[j].claim <= 1 + lapses[j]

(* The gateway implements the life of a job, whose statements are atomic:  *)
(* what the handlers, the workers and the callers have read and no longer  *)
(* holds starts no CLI too many, reports nothing twice and brings no       *)
(* canceled job back.                                                      *)
Phase(j) == IF row[j].status = "running" THEN row[j].lease ELSE row[j].status
Lifecycle == INSTANCE JobLifecycle WITH
    phase    <- [j \in Jobs |-> Phase(j)],
    handed   <- [j \in Jobs |-> row[j].claim],
    lost     <- lapses,
    reporter <- [j \in Jobs |-> row[j].result]
JobSpec == Lifecycle!Spec

(* A canceled job stays canceled, and a reported result is never replaced: *)
(* of several claims of a job at most one reports.  JobSpec implies it.    *)
OutcomesStick ==
    [][\A j \in Jobs :
        /\ row[j].status = "canceled" => row'[j].status = "canceled"
        /\ row[j].result # 0 => row'[j].result = row[j].result]_vars

(* A job is eventually finished or canceled although its worker stops,     *)
(* answers are lost and leases run out, when CLIs exit (job_timeout).      *)
JobSettles ==
    (\A s \in Slots : WF_vars(CliExits(s))) =>
        \A j \in Jobs : row[j].status = "pending" ~> row[j].status \in Terminal

RunsCli(j) == \E s \in Slots : slot[s].pc = "run" /\ slot[s].job = j

(* The CLIs of a canceled job are stopped, even if the job was taken away  *)
(* from a worker before it was canceled.                                   *)
CancelStopsCli ==
    \A j \in Jobs : row[j].status = "canceled" /\ RunsCli(j) ~> ~RunsCli(j)

(* A terminal job never changes.                                           *)
TerminalIsFinal ==
    [][\A j \in Jobs : row[j].status \in Terminal => row'[j] = row[j]]_vars
=============================================================================
