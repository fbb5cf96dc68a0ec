---------------------------- MODULE EventOutbox ----------------------------
(***************************************************************************)
(* How a data event gets from its source to the pipeline handler           *)
(* (internal/server/pipeline.go, internal/server/outbox_redeliver.go,      *)
(* internal/store/event.go): an emitter writes the event and its outbox    *)
(* row, publishes the event and marks the row; a redelivery loop publishes *)
(* the rows left unmarked; the handler consumes the bus.  Every call to    *)
(* the store and to the bus is a step of its own and may fail.             *)
(*                                                                         *)
(* event_id is unique in data_events, so an event has at most one outbox   *)
(* row.  The table also holds rows of another domain (life lore), which    *)
(* the redelivery loop must pass over.                                     *)
(***************************************************************************)
EXTENDS Naturals, FiniteSets, Sequences

CONSTANTS
    Events,         \* data events
    Lore,           \* outbox rows that are no data events
    Emitters,       \* goroutines that emit a batch of events each
    Batch,          \* Batch[g]: the events g emits, in order
    Aborting,       \* emitters that give up the batch at the first error
    Limit,          \* outboxRedeliveryBatch
    MaxBatches,     \* outboxRedeliveryMaxBatchesPerTick
    ScanLimit,      \* rows one listing looks at (batchSize * maxBatches)
    MaxFaults,      \* bound: calls that fail
    MaxCrashes,     \* bound: crashes of the process
    None            \* no event

ASSUME OutboxAssumption ==
    /\ Events \cap Lore = {} /\ IsFiniteSet(Events \cup Lore)
    /\ Batch \in [Emitters -> Seq(Events)] /\ Aborting \subseteq Emitters
    /\ Limit \in Nat \ {0} /\ MaxBatches \in Nat \ {0} /\ ScanLimit \in Nat \ {0}
    /\ MaxFaults \in Nat /\ MaxCrashes \in Nat /\ None \notin Events

Rows == Events \cup Lore

VARIABLES
    dataRows,       \* data_events
    born,           \* created_at of an outbox row, as its rank; 0: no row
    published,      \* outbox rows with published = true
    aged,           \* rows born up to here are older than the minimum age
    bus,            \* copies of an event in the stream, not yet handled
    sent,           \* copies of an event ever put in the stream
    handled,        \* events the pipeline handler has received
    emit,           \* what each emitter does next, and for which event
    red,            \* the redelivery loop
    faults, crashes

tables == <<dataRows, born, published>>
stream == <<bus, sent>>
vars   == <<tables, aged, stream, handled, emit, red, faults, crashes>>

EmitPCs == {"data", "outbox", "publish", "mark", "done"}
RedPCs  == {"idle", "list", "publish", "mark"}
RedStates == [pc : RedPCs, cutoff : Nat, todo : SUBSET Events, cur : Events \cup {None},
              count : Nat, batches : Nat]
Asleep  == [pc |-> "idle", cutoff |-> 0, todo |-> {}, cur |-> None, count |-> 0, batches |-> 0]

Stored == {r \in Rows : born[r] > 0}

TypeOK ==
    /\ dataRows \subseteq Events
    /\ born \in [Rows -> Nat] /\ published \subseteq Stored
    /\ aged \in Nat
    /\ bus \in [Events -> Nat] /\ sent \in [Events -> Nat]
    /\ handled \subseteq Events
    /\ emit \in [Emitters -> [pc : EmitPCs, next : Nat \ {0}]]
    /\ red \in RedStates
    /\ faults \in 0..MaxFaults /\ crashes \in 0..MaxCrashes

Init ==
    /\ dataRows = {} /\ born = [r \in Rows |-> 0] /\ published = {} /\ aged = 0
    /\ bus = [e \in Events |-> 0] /\ sent = [e \in Events |-> 0] /\ handled = {}
    /\ emit = [g \in Emitters |-> [pc |-> "data", next |-> 1]]
    /\ red = Asleep /\ faults = 0 /\ crashes = 0

-----------------------------------------------------------------------------
(* Calls.  A failing call is counted; it may have taken effect.            *)

Ok   == UNCHANGED faults
Fail == faults < MaxFaults /\ faults' = faults + 1

Newest == Cardinality(Stored) + 1

AddRow(r) == born' = [born EXCEPT ![r] = Newest]

PutOnBus(e) ==
    /\ bus' = [bus EXCEPT ![e] = @ + 1]
    /\ sent' = [sent EXCEPT ![e] = @ + 1]

SetPublished(e) == published' = published \cup (IF e \in Stored THEN {e} ELSE {})

-----------------------------------------------------------------------------
(* persistAndPublishDataEvent, for the events of a batch.                  *)

Active(g, pc) == emit[g].pc = pc /\ emit[g].next <= Len(Batch[g])
Event(g)      == Batch[g][emit[g].next]

Goto(g, pc) == emit' = [emit EXCEPT ![g].pc = pc]
NextEvent(g) == emit' = [emit EXCEPT ![g] = [pc |-> "data", next |-> @.next + 1]]

\* The event source gives up its batch; the capability emitter only logs.
Abort(g) == IF g \in Aborting THEN Goto(g, "done") ELSE NextEvent(g)

AppendDataEvent(g) ==
    /\ Active(g, "data")
    /\ \/ /\ Event(g) \notin dataRows
          /\ dataRows' = dataRows \cup {Event(g)} /\ Goto(g, "outbox") /\ Ok
       \/ /\ Event(g) \in dataRows
          /\ UNCHANGED dataRows /\ Abort(g) /\ Ok
       \/ /\ Fail /\ dataRows' \in {dataRows, dataRows \cup {Event(g)}} /\ Abort(g)
    /\ UNCHANGED <<born, published, aged, stream, handled, red, crashes>>

\* Faulty: a failed insert is logged and the event published all the same.
AppendEventOutbox_IgnoreError(g) ==
    /\ Active(g, "outbox")
    /\ \/ AddRow(Event(g)) /\ Ok
       \/ UNCHANGED born /\ Fail
    /\ Goto(g, "publish")
    /\ UNCHANGED <<dataRows, published, aged, stream, handled, red, crashes>>

AppendEventOutbox(g) ==
    /\ Active(g, "outbox")
    /\ \/ AddRow(Event(g)) /\ Goto(g, "publish") /\ Ok
       \/ (AddRow(Event(g)) \/ UNCHANGED born) /\ Abort(g) /\ Fail
    /\ UNCHANGED <<dataRows, published, aged, stream, handled, red, crashes>>

\* Faulty: a failed publish does not keep the row from being marked.
Publish_IgnoreError(g) ==
    /\ Active(g, "publish")
    /\ \/ PutOnBus(Event(g)) /\ Ok
       \/ UNCHANGED stream /\ Fail
    /\ Goto(g, "mark")
    /\ UNCHANGED <<tables, aged, handled, red, crashes>>

Publish(g) ==
    /\ Active(g, "publish")
    /\ \/ PutOnBus(Event(g)) /\ Goto(g, "mark") /\ Ok
       \/ (PutOnBus(Event(g)) \/ UNCHANGED stream) /\ Abort(g) /\ Fail
    /\ UNCHANGED <<tables, aged, handled, red, crashes>>

(* A failed mark is only logged.                                           *)
MarkOutboxPublished(g) ==
    /\ Active(g, "mark")
    /\ \/ SetPublished(Event(g)) /\ Ok
       \/ (SetPublished(Event(g)) \/ UNCHANGED published) /\ Fail
    /\ NextEvent(g)
    /\ UNCHANGED <<dataRows, born, aged, stream, handled, red, crashes>>

-----------------------------------------------------------------------------
(* The redelivery loop.                                                    *)

\* The k oldest rows of S.
Oldest(S, k) == {r \in S : Cardinality({s \in S : born[s] < born[r]}) < k}

Pending(cutoff) == {r \in Stored : r \notin published /\ born[r] <= cutoff}

\* Faulty: the rows of the other domain count against the limit.
Listed_CountLore(cutoff) == Oldest(Pending(cutoff), Limit) \cap Events

\* Faulty: rows already marked are listed too.
Listed_Marked(cutoff) ==
    Oldest({r \in Stored \cap Events : born[r] <= cutoff}, Limit)

(* ListPendingDataEventOutbox: up to Limit data events among the ScanLimit *)
(* oldest unpublished rows.                                                *)
Listed(cutoff) == Oldest(Oldest(Pending(cutoff), ScanLimit) \cap Events, Limit)

\* The age limit is computed once per tick, for all its batches.
Tick ==
    /\ red.pc = "idle"
    /\ red' = [Asleep EXCEPT !.pc = "list", !.cutoff = aged]
    /\ UNCHANGED <<tables, aged, stream, handled, emit, faults, crashes>>

List ==
    /\ red.pc = "list"
    /\ \/ /\ red' = [red EXCEPT !.pc = "publish", !.todo = Listed(red.cutoff),
                                !.count = 0, !.batches = @ + 1]
          /\ Ok
       \/ red' = Asleep /\ Fail
    /\ UNCHANGED <<tables, aged, stream, handled, emit, crashes>>

(* The loop takes the rows of the batch from the oldest to the newest; a   *)
(* row whose publish or mark fails is passed over.                         *)
Republish ==
    /\ red.pc = "publish"
    /\ \E e \in Oldest(red.todo, 1) :
          \/ /\ PutOnBus(e) /\ Ok
             /\ red' = [red EXCEPT !.pc = "mark", !.cur = e, !.todo = @ \ {e}]
          \/ /\ PutOnBus(e) \/ UNCHANGED stream
             /\ red' = [red EXCEPT !.todo = @ \ {e}] /\ Fail
    /\ UNCHANGED <<tables, aged, handled, emit, crashes>>

Remark ==
    /\ red.pc = "mark"
    /\ \/ /\ SetPublished(red.cur) /\ Ok
          /\ red' = [red EXCEPT !.pc = "publish", !.cur = None, !.count = @ + 1]
       \/ /\ SetPublished(red.cur) \/ UNCHANGED published
          /\ red' = [red EXCEPT !.pc = "publish", !.cur = None] /\ Fail
    /\ UNCHANGED <<dataRows, born, aged, stream, handled, emit, crashes>>

(* redeliverOutboxCatchUp: another batch follows a full one.               *)
EndBatch ==
    /\ red.pc = "publish" /\ red.todo = {}
    /\ red' = IF red.count < Limit \/ red.batches = MaxBatches
              THEN Asleep ELSE [red EXCEPT !.pc = "list"]
    /\ UNCHANGED <<tables, aged, stream, handled, emit, faults, crashes>>

-----------------------------------------------------------------------------
(* The bus, the other domain, time, and crashes.                           *)

(* The handler acknowledges every message: handleEvent returns nil.        *)
Handle(e) ==
    /\ bus[e] > 0
    /\ bus' = [bus EXCEPT ![e] = @ - 1]
    /\ handled' = handled \cup {e}
    /\ UNCHANGED <<tables, aged, sent, emit, red, faults, crashes>>

LoreAppended(r) ==
    /\ r \in Lore \ Stored
    /\ AddRow(r)
    /\ UNCHANGED <<dataRows, published, aged, stream, handled, emit, red, faults, crashes>>

LoreDone(r) ==
    /\ r \in (Lore \cap Stored) \ published
    /\ published' = published \cup {r}
    /\ UNCHANGED <<dataRows, born, aged, stream, handled, emit, red, faults, crashes>>

RowAges ==
    /\ aged < Cardinality(Stored)
    /\ aged' = aged + 1
    /\ UNCHANGED <<tables, stream, handled, emit, red, faults, crashes>>

(* The subscriber has no consumer group: after a restart it reads from the *)
(* end of the stream, and the messages not yet handled are gone.           *)
Crash ==
    /\ crashes < MaxCrashes /\ crashes' = crashes + 1
    /\ emit' = [g \in Emitters |-> [emit[g] EXCEPT !.pc = "done"]]
    /\ red' = Asleep
    /\ bus' = [e \in Events |-> 0]
    /\ UNCHANGED <<tables, aged, sent, handled, faults>>

Emit(g) == AppendDataEvent(g) \/ AppendEventOutbox(g) \/ Publish(g) \/ MarkOutboxPublished(g)
Redeliver == Tick \/ List \/ Republish \/ Remark \/ EndBatch

Next ==
    \/ \E g \in Emitters : Emit(g)
    \/ Redeliver
    \/ \E e \in Events : Handle(e)
    \/ \E r \in Lore : LoreAppended(r) \/ LoreDone(r)
    \/ RowAges
    \/ Crash

Spec == Init /\ [][Next]_vars

(* The redelivery loop ticks and its calls return, the handler receives    *)
(* what is on the bus, and time passes.  Nothing is assumed of emitters    *)
(* (they may die) or of the other domain.                                  *)
FairSpec ==
    /\ Spec
    /\ WF_vars(Redeliver) /\ WF_vars(RowAges)
    /\ \A e \in Events : WF_vars(Handle(e))

(* Emitters go on too, unless the process crashes.                         *)
FairEmitSpec == FairSpec /\ \A g \in Emitters : WF_vars(Emit(g))

-----------------------------------------------------------------------------
(* Properties.                                                             *)

(* A row is marked published only after its event went on the bus: the     *)
(* order publish-then-mark, in both loops, never hides an unsent event     *)
(* from redelivery.                                                        *)
MarkedWereSent == \A e \in published \cap Events : sent[e] > 0

(* Nothing is on the bus without its data_events row and its outbox row:   *)
(* an event that a pipeline acts on can always be looked up and replayed.  *)
SentIsDurable == \A e \in Events : sent[e] > 0 => e \in dataRows /\ e \in Stored

(* Without faults an event is sent at most twice (the emitter and the      *)
(* redelivery loop may overlap); each further copy is paid for by a failed *)
(* call or a crash.  The redelivery loop never repeats itself.             *)
CopiesArePaidFor == \A e \in Events : sent[e] <= 2 + faults + crashes

(* Every outbox row of a data event is eventually marked, as long as the   *)
(* calls do not fail forever: no order of rows, batch limits or rows of    *)
(* the other domain starves it.                                            *)
BacklogDrains == \A e \in Events : born[e] > 0 ~> e \in published

(* Every event with an outbox row eventually reaches the handler, whatever *)
(* calls fail, unless a crash emptied the stream.                          *)
RowsReachHandler == \A e \in Events : born[e] > 0 ~> e \in handled \/ crashes > 0

(* Every event in data_events is eventually published.                     *)
EventsReachOutbox == \A e \in Events : e \in dataRows ~> e \in published
=============================================================================
