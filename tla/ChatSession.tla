---------------------------- MODULE ChatSession ----------------------------
(***************************************************************************)
(* One session of the chat agent (internal/server/chatagent): the turns    *)
(* that HTTP clients and chat platforms start in it, the session lock and  *)
(* the pooled harness they share, the agent loop and the confirmation      *)
(* gates it asks at, the answers of clients, and the closing of the        *)
(* session.                                                                *)
(*                                                                         *)
(* Runs stands for the turns.  Each registers its cancel function in one   *)
(* slot per session, and an API run also itself and its gate, before it    *)
(* waits for the lock; the tables are concurrent maps and the lock is not  *)
(* held around them.  A harness and a lock entry are named by the run that *)
(* made them.                                                              *)
(***************************************************************************)
EXTENDS Naturals

CONSTANTS
    Runs,
    Kind,           \* Kind[r]: an HTTP run or a run of a chat platform
    Answers,        \* the confirm requests of clients
    MaxAsks,        \* bound: confirmations the loops ask for
    Closes,         \* whether somebody closes the session
    None            \* no run

ASSUME ChatAssumption ==
    /\ Kind \in [Runs -> {"api", "platform"}]
    /\ MaxAsks \in Nat /\ Closes \in BOOLEAN /\ None \notin Runs

VARIABLES
    session,        \* the state of the session row
    apiRun,         \* activeAPIRuns: the HTTP run in flight
    confirmGate,    \* sessionConfirmGates: the run whose gate clients answer
    registered,     \* runCancels: the run whose context a cancel would end
    entry,          \* sessionLocks: the current lock entry
    pool,           \* harnessPool: the cached harness
    pc,             \* where each run is
    ctx,            \* whether the context of a run is live
    lock,           \* the lock entry a run has fetched
    uses,           \* the harness a run works with
    loop,           \* the agent loop of each harness and the run it serves
    gate,           \* the gate of each HTTP run
    answer,         \* what each confirm request has found out
    taken,          \* the answer a loop has just received
    closer,         \* where CloseSession is
    ousted,         \* the HTTP run whose state the closing handler removed
    asks            \* confirmations asked for so far

tables == <<session, apiRun, confirmGate, registered, entry, pool>>
runs   == <<pc, ctx, lock, uses>>
talk   == <<gate, answer, taken, asks>>
closing == <<closer, ousted>>
vars   == <<tables, runs, loop, talk, closing>>

PCs == {"new", "gate", "bind", "validate", "lock", "acquire", "check", "harness",
        "prompt", "loop", "drain", "unbind", "clear", "cancel", "drop", "done"}

\* A run holds its lock entry, and it works on the session's harness.
Locked   == {"check", "harness", "prompt", "loop", "drain"}
Critical == Locked \ {"check"}

GateType == [id : Nat, resolved : BOOLEAN,
             ch : {None} \cup [for : Nat, at : Nat]]

TypeOK ==
    /\ session \in {"open", "closed"}
    /\ apiRun \in Runs \cup {None} /\ confirmGate \in Runs \cup {None}
    /\ registered \in Runs \cup {None}
    /\ entry \in Runs \cup {None} /\ pool \in Runs \cup {None}
    /\ pc \in [Runs -> PCs] /\ ctx \in [Runs -> {"live", "ended"}]
    /\ lock \in [Runs -> Runs \cup {None}] /\ uses \in [Runs -> Runs \cup {None}]
    /\ loop \in [Runs -> [st : {"idle", "busy", "ask", "settle"}, run : Runs \cup {None}]]
    /\ gate \in [Runs -> GateType]
    /\ answer \in [Answers -> [st : {"new", "matched", "checked", "done"},
                               gate : Runs \cup {None}, for : Nat]]
    /\ taken \in {None} \cup [asked : Nat, for : Nat, at : Nat]
    /\ closer \in {"idle", "evict", "close", "release", "clear", "gate",
                   "drop", "done", "failed"}
    /\ ousted \in Runs \cup {None}
    /\ asks \in 0..MaxAsks

\* NewConfirmGate: nobody knows the id of a gate that was never waited at.
NewGate == [id |-> 0, resolved |-> TRUE, ch |-> None]

Idle    == [st |-> "idle", run |-> None]
Unsent  == [st |-> "new", gate |-> None, for |-> 0]
Over    == [st |-> "done", gate |-> None, for |-> 0]

Init ==
    /\ session = "open" /\ apiRun = None /\ confirmGate = None /\ registered = None
    /\ entry = None /\ pool = None
    /\ pc = [r \in Runs |-> "new"] /\ ctx = [r \in Runs |-> "live"]
    /\ lock = [r \in Runs |-> None] /\ uses = [r \in Runs |-> None]
    /\ loop = [h \in Runs |-> Idle]
    /\ gate = [r \in Runs |-> NewGate]
    /\ answer = [x \in Answers |-> Unsent]
    /\ taken = None /\ closer = "idle" /\ ousted = None /\ asks = 0

Goto(r, l) == pc' = [pc EXCEPT ![r] = l]
At(r, l)   == pc[r] = l

----------------------------------------------------------------------------
(* A turn, from the request to its cleanup.                                *)

\* Faulty: the run in flight is replaced.
Start_Replaces(r) ==
    /\ At(r, "new")
    /\ IF Kind[r] = "platform" THEN Goto(r, "bind") /\ UNCHANGED apiRun
       ELSE apiRun' = r /\ Goto(r, "gate")
    /\ UNCHANGED <<session, confirmGate, registered, entry, pool, ctx, lock, uses,
                   loop, talk, closing>>

\* StreamAPIRun, TrySetAPIRunState: a second HTTP run is refused.  A platform
\* run has no state to set.
Start(r) ==
    /\ At(r, "new")
    /\ IF Kind[r] = "platform" THEN Goto(r, "bind") /\ UNCHANGED apiRun
       ELSE IF apiRun = None THEN apiRun' = r /\ Goto(r, "gate")
       ELSE Goto(r, "done") /\ UNCHANGED apiRun
    /\ UNCHANGED <<session, confirmGate, registered, entry, pool, ctx, lock, uses,
                   loop, talk, closing>>

StoreGate(r) ==
    /\ At(r, "gate") /\ confirmGate' = r /\ Goto(r, "bind")
    /\ UNCHANGED <<session, apiRun, registered, entry, pool, ctx, lock, uses,
                   loop, talk, closing>>

\* registerRunCancel: whoever is in the slot is cancelled and replaced.
Bind(r) ==
    /\ At(r, "bind") /\ registered' = r /\ Goto(r, "validate")
    /\ ctx' = IF registered = None THEN ctx ELSE [ctx EXCEPT ![registered] = "ended"]
    /\ UNCHANGED <<session, apiRun, confirmGate, entry, pool, lock, uses,
                   loop, talk, closing>>

\* prepareRun: the request and the session are validated before the lock.
Validate(r) ==
    /\ At(r, "validate")
    /\ Goto(r, IF session = "open" THEN "lock" ELSE "unbind")
    /\ UNCHANGED <<tables, ctx, lock, uses, loop, talk, closing>>

\* sessionLock: the entry of the session, or a new one.
FetchLock(r) ==
    /\ At(r, "lock") /\ Goto(r, "acquire")
    /\ entry' = IF entry = None THEN r ELSE entry
    /\ lock' = [lock EXCEPT ![r] = entry']
    /\ UNCHANGED <<session, apiRun, confirmGate, registered, pool, ctx, uses,
                   loop, talk, closing>>

Free(e) == \A s \in Runs : ~(lock[s] = e /\ pc[s] \in Locked)

\* lock.Lock() does not look at the context.
Acquire(r) ==
    /\ At(r, "acquire") /\ Free(lock[r]) /\ Goto(r, "check")
    /\ UNCHANGED <<tables, ctx, lock, uses, loop, talk, closing>>

\* Faulty: the validation before the lock is trusted.
Recheck_Skipped(r) == TRUE

\* Run: the session may have been closed while the run waited for the lock.
Recheck(r) == session = "open"

Check(r) ==
    /\ At(r, "check")
    /\ Goto(r, IF Recheck(r) THEN "harness" ELSE "unbind")
    /\ UNCHANGED <<tables, ctx, lock, uses, loop, talk, closing>>

\* getOrCreateHarness: the cached harness, or a new one when there is none, it
\* is stale or its configuration has changed.
TakeHarness(r) ==
    /\ At(r, "harness") /\ Goto(r, "prompt")
    /\ \E h \in {r} \cup ({pool} \ {None}) :
          pool' = h /\ uses' = [uses EXCEPT ![r] = h]
    /\ UNCHANGED <<session, apiRun, confirmGate, registered, entry, ctx, lock,
                   loop, talk, closing>>

\* Harness.Prompt: refused by a busy harness.
Prompt(r) ==
    /\ At(r, "prompt")
    /\ IF loop[uses[r]].st = "idle"
       THEN loop' = [loop EXCEPT ![uses[r]] = [st |-> "busy", run |-> r]] /\ Goto(r, "loop")
       ELSE Goto(r, "unbind") /\ UNCHANGED loop
    /\ UNCHANGED <<tables, ctx, lock, uses, talk, closing>>

\* Building the harness, the trace entry or the preparation of Prompt fails;
\* a harness that was to be replaced is gone from the pool.
Fails(r) ==
    /\ pc[r] \in {"harness", "prompt"} /\ Goto(r, "unbind")
    /\ pool' \in {pool} \cup (IF At(r, "harness") THEN {None} ELSE {})
    /\ UNCHANGED <<session, apiRun, confirmGate, registered, entry, ctx, lock, uses,
                   loop, talk, closing>>

\* WaitIdle returns because the harness is idle: the reply is delivered.
Finish(r) ==
    /\ At(r, "loop") /\ loop[uses[r]].st = "idle" /\ Goto(r, "unbind")
    /\ UNCHANGED <<tables, ctx, lock, uses, loop, talk, closing>>

\* WaitIdle returns because the context has ended; releaseHarnessAfterRunAbort
\* aborts the loop and waits for it.
Interrupted(r) ==
    /\ At(r, "loop") /\ ctx[r] = "ended" /\ Goto(r, "drain")
    /\ UNCHANGED <<tables, ctx, lock, uses, loop, talk, closing>>

Drained(r) ==
    /\ At(r, "drain") /\ loop[uses[r]].st = "idle" /\ Goto(r, "unbind")
    /\ UNCHANGED <<tables, ctx, lock, uses, loop, talk, closing>>

\* Faulty: the busy harness stays in the pool.
DrainTimeout_KeepsHarness(r) ==
    /\ At(r, "drain") /\ Goto(r, "unbind")
    /\ UNCHANGED <<tables, ctx, lock, uses, loop, talk, closing>>

\* Faulty: the loop is waited for without a limit.
DrainTimeout_Never(r) == FALSE /\ UNCHANGED vars

\* harnessDrainTimeout: the harness is left to its loop.
DrainTimeout(r) ==
    /\ At(r, "drain") /\ pool' = None /\ Goto(r, "unbind")
    /\ UNCHANGED <<session, apiRun, confirmGate, registered, entry, ctx, lock, uses,
                   loop, talk, closing>>

\* The lock was released when Run returned; the caller cancels the context
\* and empties the slot, whoever is in it (unregisterRunCancel).
Unbind(r) ==
    /\ At(r, "unbind") /\ registered' = None
    /\ ctx' = [ctx EXCEPT ![r] = "ended"]
    /\ lock' = [lock EXCEPT ![r] = None] /\ uses' = [uses EXCEPT ![r] = None]
    /\ Goto(r, IF Kind[r] = "api" THEN "clear" ELSE "done")
    /\ UNCHANGED <<session, apiRun, confirmGate, entry, pool, loop, talk, closing>>

\* ClearAPIRunState(expected): only the state of this run, then its gate.
ClearState(r) ==
    /\ At(r, "clear")
    /\ IF apiRun = r THEN apiRun' = None /\ Goto(r, "cancel")
                     ELSE Goto(r, "done") /\ UNCHANGED apiRun
    /\ UNCHANGED <<session, confirmGate, registered, entry, pool, ctx, lock, uses,
                   loop, talk, closing>>

\* ConfirmGate.Cancel
Cancelled(g) == [g EXCEPT !.resolved = TRUE]

CancelGate(r) ==
    /\ At(r, "cancel") /\ Goto(r, "drop")
    /\ gate' = [gate EXCEPT ![r] = Cancelled(@)]
    /\ UNCHANGED <<tables, ctx, lock, uses, loop, answer, taken, asks, closing>>

\* Faulty: the gate is deleted whoever it belongs to.
Without_Any(r) == None

Without(r) == IF confirmGate = r THEN None ELSE confirmGate

DropGate(r) ==
    /\ At(r, "drop") /\ Goto(r, "done") /\ confirmGate' = Without(r)
    /\ UNCHANGED <<session, apiRun, registered, entry, pool, ctx, lock, uses,
                   loop, talk, closing>>

\* The timeout of the run, or CancelSessionRun.  A context that ends before the
\* run looks at it in WaitIdle is covered by one that ends then, or by Fails.
Deadline(r) ==
    /\ At(r, "loop") /\ ctx[r] = "live"
    /\ ctx' = [ctx EXCEPT ![r] = "ended"]
    /\ UNCHANGED <<tables, pc, lock, uses, loop, talk, closing>>

----------------------------------------------------------------------------
(* The agent loop of a harness and its questions.                          *)

Sets(h, st) == loop' = [loop EXCEPT ![h].st = st]

\* The reply is complete, the model failed, or the loop was aborted.
LoopEnds(h) ==
    /\ loop[h].st = "busy" /\ loop' = [loop EXCEPT ![h] = Idle]
    /\ UNCHANGED <<tables, runs, talk, closing>>

\* resolveRunConfirm: the gate of the run, or the one the harness was built
\* with; without a gate the call is blocked at once.
GateOf(h) ==
    IF Kind[loop[h].run] = "api" THEN loop[h].run
    ELSE IF Kind[h] = "api" THEN h ELSE None

\* Faulty: a new question listens to the old channel.
BeginWait_OldChannel(g) == IF g.resolved THEN [id |-> g.id + 1, resolved |-> FALSE, ch |-> g.ch]
                                         ELSE g

\* ConfirmGate.beginWait
BeginWait(g) == IF g.resolved THEN [id |-> g.id + 1, resolved |-> FALSE, ch |-> None]
                              ELSE g

LoopAsks(h) ==
    /\ loop[h].st = "busy" /\ GateOf(h) # None /\ asks < MaxAsks
    /\ asks' = asks + 1 /\ Sets(h, "ask")
    /\ gate' = [gate EXCEPT ![GateOf(h)] = BeginWait(@)]
    /\ UNCHANGED <<tables, runs, answer, taken, closing>>

\* ConfirmGate.Wait receives an answer ...
TakesAnswer(h) ==
    LET g == GateOf(h) IN
    /\ loop[h].st = "ask" /\ gate[g].ch # None /\ Sets(h, "settle")
    /\ taken' = [asked |-> gate[g].id, for |-> gate[g].ch.for, at |-> gate[g].ch.at]
    /\ gate' = [gate EXCEPT ![g].ch = None]
    /\ UNCHANGED <<tables, runs, answer, asks, closing>>

\* ... or its timer, its context or the closed gate ends the wait.
GivesUp(h) ==
    /\ loop[h].st = "ask" /\ Sets(h, "settle")
    /\ UNCHANGED <<tables, runs, talk, closing>>

\* publishResolved
Settles(h) ==
    /\ loop[h].st = "settle" /\ Sets(h, "busy")
    /\ gate' = [gate EXCEPT ![GateOf(h)].resolved = TRUE]
    /\ taken' = None
    /\ UNCHANGED <<tables, runs, answer, asks, closing>>

\* ResolveConfirm finds the gate by the id of its question.
Match(x) ==
    /\ answer[x].st = "new" /\ confirmGate # None /\ gate[confirmGate].id > 0
    /\ answer' = [answer EXCEPT ![x] = [st |-> "matched", gate |-> confirmGate,
                                        for |-> gate[confirmGate].id]]
    /\ UNCHANGED <<tables, runs, loop, gate, taken, asks, closing>>

\* ConfirmGate.Resolve: the gate is checked under its mutex ...
CheckAnswer(x) ==
    /\ answer[x].st = "matched"
    /\ answer' = [answer EXCEPT ![x] = IF gate[answer[x].gate].resolved THEN Over
                                       ELSE [@ EXCEPT !.st = "checked"]]
    /\ UNCHANGED <<tables, runs, loop, gate, taken, asks, closing>>

\* ... and the answer is sent to the gate's channel of the moment without it.
SendAnswer(x) ==
    LET g == answer[x].gate IN
    /\ answer[x].st = "checked" /\ answer' = [answer EXCEPT ![x] = Over]
    /\ gate' = IF gate[g].ch # None THEN gate
               ELSE [gate EXCEPT ![g].ch = [for |-> answer[x].for, at |-> gate[g].id]]
    /\ UNCHANGED <<tables, runs, loop, taken, asks, closing>>

----------------------------------------------------------------------------
(* CloseSession and the HTTP handler around it.                            *)

CloseGoto(from, to) == closer = from /\ closer' = to /\ UNCHANGED ousted

\* The run in the slot is cancelled.
CloseCancels ==
    /\ Closes /\ CloseGoto("idle", "evict")
    /\ ctx' = IF registered = None THEN ctx ELSE [ctx EXCEPT ![registered] = "ended"]
    /\ UNCHANGED <<tables, pc, lock, uses, loop, talk>>

CloseEvicts ==
    /\ CloseGoto("evict", "close") /\ pool' = None
    /\ UNCHANGED <<session, apiRun, confirmGate, registered, entry, runs, loop, talk>>

\* CloseChatSession
CloseRow ==
    /\ CloseGoto("close", "release") /\ session' = "closed"
    /\ UNCHANGED <<apiRun, confirmGate, registered, entry, pool, runs, loop, talk>>

CloseFails ==
    /\ CloseGoto("close", "failed")
    /\ UNCHANGED <<tables, runs, loop, talk>>

\* releaseSessionLock
CloseReleases ==
    /\ CloseGoto("release", "clear") /\ entry' = None
    /\ UNCHANGED <<session, apiRun, confirmGate, registered, pool, runs, loop, talk>>

\* ClearAPIRunState(nil): whatever HTTP run is there, then its gate.
CloseClears ==
    /\ closer = "clear" /\ apiRun' = None /\ ousted' = apiRun
    /\ closer' = IF apiRun = None THEN "done" ELSE "gate"
    /\ UNCHANGED <<session, confirmGate, registered, entry, pool, runs, loop, talk>>

CloseCancelsGate ==
    /\ CloseGoto("gate", "drop")
    /\ gate' = [gate EXCEPT ![ousted] = Cancelled(@)]
    /\ UNCHANGED <<tables, runs, loop, answer, taken, asks>>

CloseDropsGate ==
    /\ CloseGoto("drop", "done") /\ confirmGate' = Without(ousted)
    /\ UNCHANGED <<session, apiRun, registered, entry, pool, runs, loop, talk>>

----------------------------------------------------------------------------
Turn(r) ==
    \/ Start(r) \/ StoreGate(r) \/ Bind(r) \/ Validate(r) \/ FetchLock(r) \/ Acquire(r)
    \/ Check(r) \/ TakeHarness(r) \/ Prompt(r) \/ Finish(r) \/ Interrupted(r)
    \/ Drained(r) \/ DrainTimeout(r) \/ Unbind(r) \/ ClearState(r) \/ CancelGate(r)
    \/ DropGate(r)

Loop(h) == LoopEnds(h) \/ LoopAsks(h) \/ TakesAnswer(h) \/ GivesUp(h) \/ Settles(h)

Client(x) == Match(x) \/ CheckAnswer(x) \/ SendAnswer(x)

Close ==
    \/ CloseCancels \/ CloseEvicts \/ CloseRow \/ CloseFails \/ CloseReleases
    \/ CloseClears \/ CloseCancelsGate \/ CloseDropsGate

Next ==
    \/ \E r \in Runs : Turn(r) \/ Fails(r) \/ Deadline(r) \/ Loop(r)
    \/ \E x \in Answers : Client(x)
    \/ Close

Spec == Init /\ [][Next]_vars

\* Goroutines are scheduled and timers fire.  Nothing is assumed of the model
\* that answers a loop, of clients and of whoever closes the session.
FairSpec ==
    /\ Spec
    /\ \A r \in Runs :
          WF_vars((pc[r] # "new" /\ Turn(r)) \/ (At(r, "loop") /\ Deadline(r)))

----------------------------------------------------------------------------
(* Properties.                                                             *)

Started(r) == pc[r] \notin {"new", "done"}

\* One turn at a time works on a session's harness and transcript, although
\* CloseSession throws the lock entry away that a turn may be holding
\* (run_control.go:37) while a later one has been validated already.
OneTurnAtATime ==
    \A r, s \in Runs : pc[r] \in Critical /\ pc[s] \in Critical => r = s

\* A turn that has got a harness finds it idle: an interrupted turn gives the
\* lock back only when its loop has ended or its harness has left the pool
\* (service.go:380, harness.go:166).
PromptFindsIdle ==
    \A r \in Runs : At(r, "prompt") => loop[uses[r]].st = "idle"

\* An answer that a question receives was sent while that question, not an
\* earlier one of the same gate, was the current one: what is left in the
\* channel of a question that has timed out decides nothing (confirm.go:158).
AnswersAreFresh == taken # None => taken.at = taken.asked

\* The question of an HTTP run can be answered through the session, whatever
\* the cleanup of an earlier run still does, unless the session is being
\* closed (api_run.go:49).
QuestionsCanBeAnswered ==
    \A h \in Runs :
       LET r == loop[h].run IN
       loop[h].st = "ask" /\ Kind[r] = "api" /\ pc[r] = "loop"
       => confirmGate = r \/ closer \in {"gate", "drop", "done"}

\* A turn of an open session whose context lives can be reached by a cancel
\* unless a platform run took part in the session: two HTTP runs never take the
\* slot from each other (run_control.go:69).
ApiRunsStayCancellable ==
    \A r \in Runs :
       pc[r] \in Locked \cup {"validate", "lock", "acquire"} /\ ctx[r] = "live"
       /\ registered # r /\ session = "open"
       => \E p \in Runs : Kind[p] = "platform" /\ pc[p] # "new"

\* Every turn ends and cleans up, whatever the model does, even behind a turn
\* whose loop never stops: nothing waits for the lock for ever.
EveryTurnEnds == \A r \in Runs : Started(r) ~> At(r, "done")

\* "CloseSession marks a chat session as closed, cancels in-flight runs ...
\* ensures no new run can start on a closing session" (session.go:86): once it
\* has returned, no turn whose context lives works on.
ClosedSessionIsQuiet ==
    closer = "done" => \A r \in Runs : pc[r] \in Critical => ctx[r] = "ended"
=============================================================================
