------------------------- MODULE EventOutbox_proofs -------------------------
(***************************************************************************)
(* Proofs about EventOutbox, for any events, emitters, batches and bounds: *)
(* type correctness, and the two invariants that make the outbox an        *)
(* outbox.  They are inductive together with what each loop knows about    *)
(* the event it works on.  The number of copies is bounded by a budget     *)
(* that each loop uses up once per event, and that faults and crashes      *)
(* raise.                                                                  *)
(***************************************************************************)
EXTENDS EventOutbox, FiniteSetTheorems, TLAPS

\* The events the tables hold a row and an outbox row for.
Durable == dataRows \cap Stored

(* What an emitter has achieved for its event at each point.               *)
EmitterKnows(g) ==
    /\ emit[g].pc \in {"outbox", "publish", "mark"} => emit[g].next <= Len(Batch[g])
    /\ emit[g].pc = "outbox" => Event(g) \in dataRows
    /\ emit[g].pc \in {"publish", "mark"} => Event(g) \in Durable
    /\ emit[g].pc = "mark" => sent[Event(g)] > 0

(* What the redelivery loop knows of the rows of its batch.                *)
LoopKnows ==
    /\ red.todo \subseteq Durable
    /\ red.pc = "mark" => red.cur \in Durable /\ sent[red.cur] > 0

Knows ==
    /\ \A g \in Emitters : EmitterKnows(g)
    /\ LoopKnows
    /\ Stored \cap Events \subseteq dataRows
    /\ SentIsDurable
    /\ MarkedWereSent

IInv == TypeOK /\ Knows

-----------------------------------------------------------------------------
(* The building blocks of the actions.                                     *)

(* An insert into the outbox makes its row a stored row, and no other.     *)
LEMMA AddRowAdds ==
    ASSUME TypeOK, NEW r \in Rows, AddRow(r)
    PROVE  born' \in [Rows -> Nat] /\ Stored' = Stored \cup {r}
<1>1. Stored \subseteq Rows /\ IsFiniteSet(Rows)
    BY OutboxAssumption DEF Stored, Rows
<1>2. IsFiniteSet(Stored)
    BY <1>1, FS_Subset
<1>3. Newest \in Nat /\ Newest > 0
    BY <1>2, FS_CardinalityType DEF Newest
<1>4. born' = [born EXCEPT ![r] = Newest]
    BY DEF AddRow
<1>5. \A x \in Rows : born'[x] = IF x = r THEN Newest ELSE born[x]
    BY <1>4 DEF TypeOK
<1> QED BY <1>3, <1>4, <1>5 DEF TypeOK, Stored

(* A publish counts as sent for its own event only.                        *)
LEMMA PutOnBusSends ==
    ASSUME TypeOK, NEW e \in Events, PutOnBus(e)
    PROVE  /\ bus' \in [Events -> Nat] /\ sent' \in [Events -> Nat]
           /\ sent'[e] > 0 /\ \A x \in Events : sent[x] > 0 => sent'[x] > 0
           /\ \A x \in Events \ {e} : sent'[x] = sent[x]
BY DEF TypeOK, PutOnBus

(* A move of one emitter keeps the types and the other emitters.           *)
LEMMA EmitterMoves ==
    ASSUME TypeOK, NEW g \in Emitters, NEW pc \in EmitPCs,
           Goto(g, pc) \/ NextEvent(g) \/ Abort(g)
    PROVE  /\ emit' \in [Emitters -> [pc : EmitPCs, next : Nat \ {0}]]
           /\ \A h \in Emitters \ {g} : emit'[h] = emit[h]
           /\ Goto(g, pc) => emit'[g].pc = pc /\ emit'[g].next = emit[g].next
           /\ ~Goto(g, pc) => emit'[g].pc \in {"data", "done"}
BY DEF TypeOK, Goto, NextEvent, Abort, EmitPCs

(* The next event of a batch is an event of the model.                     *)
LEMMA EventType ==
    ASSUME TypeOK, NEW g \in Emitters, emit[g].next <= Len(Batch[g])
    PROVE  Event(g) \in Events
<1>1. Batch[g] \in Seq(Events) /\ emit[g].next \in 1..Len(Batch[g])
    BY OutboxAssumption DEF TypeOK
<1> QED BY <1>1 DEF Event

-----------------------------------------------------------------------------
(* What is known stays known: tables and the count of copies only grow.    *)

Grows ==
    /\ dataRows \subseteq dataRows' /\ Stored \subseteq Stored'
    /\ \A e \in Events : sent[e] > 0 => sent'[e] > 0

(* What a resting emitter knows stays true while the tables grow.          *)
LEMMA EmitterKept ==
    ASSUME IInv, Grows, NEW g \in Emitters, emit'[g] = emit[g]
    PROVE  EmitterKnows(g)'
<1>1. EmitterKnows(g)
    BY DEF IInv, Knows
<1>2. emit[g].pc \in {"outbox", "publish", "mark"} => Event(g) \in Events
    BY <1>1, EventType DEF IInv, EmitterKnows
<1>3. Event(g)' = Event(g)
    BY DEF Event
<1> QED BY <1>1, <1>2, <1>3 DEF EmitterKnows, Grows, Durable

(* What the resting redelivery loop knows stays true while the tables grow. *)
LEMMA LoopKept ==
    ASSUME IInv, Grows, red' = red
    PROVE  LoopKnows'
BY DEF IInv, Knows, LoopKnows, Grows, Durable, TypeOK

(* A finished or fresh emitter need know nothing.                          *)
LEMMA EmitterRests ==
    ASSUME NEW g \in Emitters, emit'[g].pc \in {"data", "done"}
    PROVE  EmitterKnows(g)'
BY DEF EmitterKnows

-----------------------------------------------------------------------------
(* Each action preserves the invariant.                                    *)

(* The loop at rest has its type and nothing to do.                        *)
LEMMA AsleepType == Asleep \in RedStates /\ Asleep.todo = {} /\ Asleep.pc = "idle"
BY DEF Asleep, RedStates, RedPCs

(* The invariant holds initially.                                          *)
LEMMA InitInv == Init => IInv
<1> SUFFICES ASSUME Init PROVE IInv
    OBVIOUS
<1>1. Stored = {}
    BY DEF Init, Stored
<1>2. TypeOK
    BY <1>1, OutboxAssumption, AsleepType DEF Init, TypeOK, EmitPCs
<1>3. Knows
    BY <1>1 DEF Init, Knows, EmitterKnows, LoopKnows, SentIsDurable, MarkedWereSent, Asleep
<1> QED BY <1>2, <1>3 DEF IInv

(* The fault budget stays within its bound.                                *)
LEMMA FaultsType ==
    ASSUME TypeOK, Ok \/ Fail
    PROVE  faults' \in 0..MaxFaults
BY OutboxAssumption DEF TypeOK, Ok, Fail

(* An emitter's step that leaves the redelivery loop alone.                *)
LEMMA EmitPreserves ==
    ASSUME IInv, NEW g \in Emitters, Grows, EmitterKnows(g)',
           \A h \in Emitters \ {g} : emit'[h] = emit[h], red' = red,
           TypeOK', SentIsDurable', MarkedWereSent', (Stored \cap Events \subseteq dataRows)'
    PROVE  IInv'
<1>1. \A h \in Emitters : EmitterKnows(h)'
    BY EmitterKept
<1>2. LoopKnows'
    BY LoopKept
<1> QED BY <1>1, <1>2 DEF IInv, Knows

(* Every step of an emitter preserves the invariant.                       *)
LEMMA EmitStep ==
    ASSUME IInv, NEW g \in Emitters, Emit(g)
    PROVE  IInv'
<1> USE DEF tables, stream
<1>i. /\ TypeOK /\ EmitterKnows(g) /\ SentIsDurable /\ MarkedWereSent
      /\ Stored \cap Events \subseteq dataRows
    BY DEF IInv, Knows
<1>1. CASE AppendDataEvent(g)
    <2>1. Event(g) \in Events
        BY <1>1, <1>i, EventType DEF AppendDataEvent, Active
    <2>2. /\ emit' \in [Emitters -> [pc : EmitPCs, next : Nat \ {0}]]
          /\ \A h \in Emitters \ {g} : emit'[h] = emit[h]
          /\ \/ emit'[g].pc = "outbox" /\ emit'[g].next = emit[g].next
                /\ Event(g) \in dataRows'
             \/ emit'[g].pc \in {"data", "done"}
        BY <1>1, <1>i, EmitterMoves DEF AppendDataEvent, EmitPCs, Goto
    <2>3. dataRows \subseteq dataRows' /\ dataRows' \subseteq Events
        BY <1>1, <1>i, <2>1 DEF AppendDataEvent, TypeOK
    <2>4. Stored' = Stored
        BY <1>1 DEF AppendDataEvent, Stored
    <2>5. TypeOK'
        BY <1>1, <1>i, <2>2, <2>3, <2>4, FaultsType DEF AppendDataEvent, TypeOK
    <2>6. EmitterKnows(g)'
        <3>1. Event(g)' = Event(g) \/ emit'[g].pc \in {"data", "done"}
            BY <2>2 DEF Event
        <3> QED BY <1>1, <2>2, <3>1 DEF EmitterKnows, AppendDataEvent, Active
    <2>7. Grows
        BY <1>1, <2>3, <2>4 DEF Grows, AppendDataEvent
    <2> QED BY <1>1, <1>i, <2>2, <2>3, <2>4, <2>5, <2>6, <2>7, EmitPreserves
            DEF AppendDataEvent, SentIsDurable, MarkedWereSent
<1>2. CASE AppendEventOutbox(g)
    <2>1. Event(g) \in Events /\ Event(g) \in Rows /\ Event(g) \in dataRows
        BY <1>2, <1>i, EventType DEF AppendEventOutbox, Active, EmitterKnows, Rows
    <2>2. /\ emit' \in [Emitters -> [pc : EmitPCs, next : Nat \ {0}]]
          /\ \A h \in Emitters \ {g} : emit'[h] = emit[h]
          /\ \/ /\ emit'[g].pc = "publish" /\ emit'[g].next = emit[g].next
                /\ AddRow(Event(g))
             \/ emit'[g].pc \in {"data", "done"}
        BY <1>2, <1>i, EmitterMoves DEF AppendEventOutbox, EmitPCs, Goto
    <2>3. CASE AddRow(Event(g))
        <3>1. born' \in [Rows -> Nat] /\ Stored' = Stored \cup {Event(g)}
            BY <1>i, <2>1, <2>3, AddRowAdds
        <3>2. TypeOK'
            BY <1>2, <1>i, <2>2, <3>1, FaultsType DEF AppendEventOutbox, TypeOK
        <3>3. EmitterKnows(g)'
            <4>1. Event(g)' = Event(g) \/ emit'[g].pc \in {"data", "done"}
                BY <2>2 DEF Event
            <4> QED BY <1>2, <2>1, <2>2, <3>1, <4>1
                    DEF EmitterKnows, AppendEventOutbox, Active, Durable
        <3>4. Grows /\ (Stored \cap Events \subseteq dataRows)'
            BY <1>2, <1>i, <2>1, <3>1 DEF Grows, AppendEventOutbox
        <3> QED BY <1>2, <1>i, <2>2, <3>1, <3>2, <3>3, <3>4, EmitPreserves
                DEF AppendEventOutbox, SentIsDurable, MarkedWereSent
    <2>4. CASE UNCHANGED born /\ emit'[g].pc \in {"data", "done"}
        <3>1. Stored' = Stored
            BY <2>4 DEF Stored
        <3>2. TypeOK'
            BY <1>2, <1>i, <2>2, <2>4, <3>1, FaultsType DEF AppendEventOutbox, TypeOK
        <3>3. Grows /\ (Stored \cap Events \subseteq dataRows)'
            BY <1>2, <1>i, <3>1 DEF Grows, AppendEventOutbox
        <3> QED BY <1>2, <1>i, <2>2, <2>4, <3>1, <3>2, <3>3, EmitterRests, EmitPreserves
                DEF AppendEventOutbox, SentIsDurable, MarkedWereSent
    <2> QED BY <1>2, <2>2, <2>3, <2>4 DEF AppendEventOutbox
<1>3. CASE Publish(g)
    <2>1. Event(g) \in Events /\ Event(g) \in Durable
        BY <1>3, <1>i, EventType DEF Publish, Active, EmitterKnows
    <2>2. /\ emit' \in [Emitters -> [pc : EmitPCs, next : Nat \ {0}]]
          /\ \A h \in Emitters \ {g} : emit'[h] = emit[h]
          /\ \/ /\ emit'[g].pc = "mark" /\ emit'[g].next = emit[g].next
                /\ PutOnBus(Event(g))
             \/ emit'[g].pc \in {"data", "done"}
        BY <1>3, <1>i, EmitterMoves DEF Publish, EmitPCs, Goto
    <2>3. Stored' = Stored
        BY <1>3 DEF Publish, Stored
    <2>4. CASE PutOnBus(Event(g))
        <3>1. /\ bus' \in [Events -> Nat] /\ sent' \in [Events -> Nat]
              /\ sent'[Event(g)] > 0 /\ \A x \in Events : sent[x] > 0 => sent'[x] > 0
              /\ \A x \in Events \ {Event(g)} : sent'[x] = sent[x]
            BY <1>i, <2>1, <2>4, PutOnBusSends
        <3>2. TypeOK'
            BY <1>3, <1>i, <2>2, <2>3, <3>1, FaultsType DEF Publish, TypeOK
        <3>3. EmitterKnows(g)'
            <4>1. Event(g)' = Event(g) \/ emit'[g].pc \in {"data", "done"}
                BY <2>2 DEF Event
            <4> QED BY <1>3, <2>1, <2>2, <2>3, <3>1, <4>1
                    DEF EmitterKnows, Publish, Active, Durable
        <3>4. Grows
            BY <1>3, <2>3, <3>1 DEF Grows, Publish
        <3>5. SentIsDurable' /\ MarkedWereSent'
            BY <1>3, <1>i, <2>1, <2>3, <3>1
               DEF Publish, SentIsDurable, MarkedWereSent, Durable
        <3>6. (Stored \cap Events \subseteq dataRows)'
            BY <1>3, <1>i, <2>3 DEF Publish
        <3> QED BY <1>3, <2>2, <3>2, <3>3, <3>4, <3>5, <3>6, EmitPreserves DEF Publish
    <2>5. CASE UNCHANGED stream /\ emit'[g].pc \in {"data", "done"}
        <3>1. TypeOK'
            BY <1>3, <1>i, <2>2, <2>3, <2>5, FaultsType DEF Publish, TypeOK
        <3>2. Grows /\ (Stored \cap Events \subseteq dataRows)'
            BY <1>3, <1>i, <2>3, <2>5 DEF Grows, Publish
        <3> QED BY <1>3, <1>i, <2>2, <2>3, <2>5, <3>1, <3>2, EmitterRests, EmitPreserves
                DEF Publish, SentIsDurable, MarkedWereSent
    <2> QED BY <1>3, <2>2, <2>4, <2>5 DEF Publish
<1>4. CASE MarkOutboxPublished(g)
    <2>1. Event(g) \in Durable /\ sent[Event(g)] > 0
        BY <1>4, <1>i DEF MarkOutboxPublished, Active, EmitterKnows
    <2>2. /\ emit' \in [Emitters -> [pc : EmitPCs, next : Nat \ {0}]]
          /\ \A h \in Emitters \ {g} : emit'[h] = emit[h]
          /\ emit'[g].pc = "data"
        BY <1>4, <1>i DEF MarkOutboxPublished, NextEvent, TypeOK, EmitPCs
    <2>3. Stored' = Stored
        BY <1>4 DEF MarkOutboxPublished, Stored
    <2>4. published' \subseteq published \cup {Event(g)}
        BY <1>4 DEF MarkOutboxPublished, SetPublished
    <2>5. TypeOK'
        BY <1>4, <1>i, <2>1, <2>2, <2>3, <2>4, FaultsType
           DEF MarkOutboxPublished, TypeOK, Durable
    <2>6. Grows /\ (Stored \cap Events \subseteq dataRows)'
        BY <1>4, <1>i, <2>3 DEF Grows, MarkOutboxPublished
    <2>7. MarkedWereSent' /\ SentIsDurable'
        BY <1>4, <1>i, <2>1, <2>3, <2>4
           DEF MarkOutboxPublished, MarkedWereSent, SentIsDurable
    <2> QED BY <1>4, <2>2, <2>5, <2>6, <2>7, EmitterRests, EmitPreserves
            DEF MarkOutboxPublished
<1> QED BY <1>1, <1>2, <1>3, <1>4 DEF Emit

(* What one listing returns.                                               *)
LEMMA ListedRows == \A c : Listed(c) \subseteq Stored \cap Events
BY DEF Listed, Pending, Oldest

(* A step that leaves the emitters alone.                                  *)
LEMMA RestPreserves ==
    ASSUME IInv, Grows, emit' = emit, LoopKnows',
           TypeOK', SentIsDurable', MarkedWereSent', (Stored \cap Events \subseteq dataRows)'
    PROVE  IInv'
<1>1. \A h \in Emitters : EmitterKnows(h)'
    BY EmitterKept
<1> QED BY <1>1 DEF IInv, Knows

(* Every step of the redelivery loop preserves the invariant.              *)
LEMMA RedeliverStep ==
    ASSUME IInv, Redeliver
    PROVE  IInv'
<1> USE DEF tables, stream
<1>i. /\ TypeOK /\ LoopKnows /\ SentIsDurable /\ MarkedWereSent
      /\ Stored \cap Events \subseteq dataRows
    BY DEF IInv, Knows
<1>s. Stored' = Stored /\ dataRows' = dataRows /\ emit' = emit
    BY DEF Redeliver, Tick, List, Republish, Remark, EndBatch, Stored
<1>1. CASE Tick
    <2>0. red' \in RedStates /\ red'.pc = "list" /\ red'.todo = {}
        BY <1>1, <1>i DEF Tick, TypeOK, Asleep, RedStates, RedPCs
    <2>1. TypeOK'
        BY <1>1, <1>i, <1>s, <2>0 DEF Tick, TypeOK
    <2>2. LoopKnows'
        BY <2>0 DEF LoopKnows
    <2> QED BY <1>1, <1>i, <1>s, <2>1, <2>2, RestPreserves
            DEF Tick, Grows, SentIsDurable, MarkedWereSent
<1>2. CASE List
    <2>1. Listed(red.cutoff) \subseteq Durable
        BY <1>i, ListedRows DEF Durable
    <2>0. red' \in RedStates /\ red'.pc # "mark" /\ red'.todo \subseteq Durable
        <3>1. CASE red' = Asleep
            BY <3>1, AsleepType
        <3>2. CASE red' = [red EXCEPT !.pc = "publish", !.todo = Listed(red.cutoff),
                                      !.count = 0, !.batches = @ + 1]
            <4>1. Listed(red.cutoff) \in SUBSET Events
                BY ListedRows
            <4>2. red \in RedStates
                BY <1>i DEF TypeOK
            <4>3. red.batches + 1 \in Nat
                BY <4>2 DEF RedStates
            <4>4. red' = [red EXCEPT !.pc = "publish", !.todo = Listed(red.cutoff),
                                     !.count = 0, !.batches = red.batches + 1]
                BY <3>2
            <4>5. red' \in RedStates /\ red'.pc = "publish" /\ red'.todo = Listed(red.cutoff)
                BY <4>1, <4>2, <4>3, <4>4 DEF RedStates, RedPCs
            <4> QED BY <2>1, <4>5
        <3> QED BY <1>2, <3>1, <3>2 DEF List
    <2>2. TypeOK'
        BY <1>2, <1>i, <1>s, <2>0, FaultsType DEF List, TypeOK
    <2>3. LoopKnows'
        BY <1>s, <2>0 DEF LoopKnows, Durable
    <2> QED BY <1>2, <1>i, <1>s, <2>2, <2>3, RestPreserves
            DEF List, Grows, SentIsDurable, MarkedWereSent
<1>3. CASE Republish
    <2>1. PICK e \in Oldest(red.todo, 1) :
              \/ /\ PutOnBus(e) /\ Ok
                 /\ red' = [red EXCEPT !.pc = "mark", !.cur = e, !.todo = @ \ {e}]
              \/ /\ PutOnBus(e) \/ UNCHANGED stream
                 /\ red' = [red EXCEPT !.todo = @ \ {e}] /\ Fail
        BY <1>3 DEF Republish
    <2>2. e \in Events /\ e \in Durable
        BY <1>i DEF Oldest, LoopKnows, TypeOK, RedStates
    <2>3. red.pc = "publish" /\ red' \in RedStates
        <3>1. red.pc = "publish" /\ red \in RedStates
            BY <1>3, <1>i DEF Republish, TypeOK
        <3>2. CASE red' = [red EXCEPT !.pc = "mark", !.cur = e, !.todo = @ \ {e}]
            BY <2>2, <3>1, <3>2 DEF RedStates, RedPCs
        <3>3. CASE red' = [red EXCEPT !.todo = @ \ {e}]
            BY <3>1, <3>3 DEF RedStates
        <3> QED BY <2>1, <3>1, <3>2, <3>3
    <2>4. CASE PutOnBus(e)
        <3>1. /\ bus' \in [Events -> Nat] /\ sent' \in [Events -> Nat]
              /\ sent'[e] > 0 /\ \A x \in Events : sent[x] > 0 => sent'[x] > 0
              /\ \A x \in Events \ {e} : sent'[x] = sent[x]
            BY <1>i, <2>2, <2>4, PutOnBusSends
        <3>2. TypeOK'
            BY <1>3, <1>i, <1>s, <2>1, <2>3, <3>1, FaultsType DEF Republish, TypeOK
        <3>3. LoopKnows'
            BY <1>i, <1>s, <2>1, <2>2, <2>3, <3>1 DEF LoopKnows, Durable, TypeOK, RedStates
        <3>4. SentIsDurable' /\ MarkedWereSent'
            BY <1>3, <1>i, <1>s, <2>2, <3>1
               DEF Republish, SentIsDurable, MarkedWereSent, Durable
        <3> QED BY <1>3, <1>i, <1>s, <3>1, <3>2, <3>3, <3>4, RestPreserves
                DEF Republish, Grows
    <2>5. CASE UNCHANGED stream /\ red' = [red EXCEPT !.todo = @ \ {e}]
        <3>1. TypeOK'
            BY <1>3, <1>i, <1>s, <2>1, <2>3, <2>5, FaultsType DEF Republish, TypeOK
        <3>2. LoopKnows'
            BY <1>i, <1>s, <2>3, <2>5 DEF LoopKnows, Durable, TypeOK, RedStates
        <3> QED BY <1>3, <1>i, <1>s, <2>5, <3>1, <3>2, RestPreserves
                DEF Republish, Grows, SentIsDurable, MarkedWereSent
    <2> QED BY <2>1, <2>4, <2>5
<1>4. CASE Remark
    <2>1. red.cur \in Durable /\ sent[red.cur] > 0
        BY <1>4, <1>i DEF Remark, LoopKnows
    <2>2. published' \subseteq published \cup {red.cur}
        BY <1>4 DEF Remark, SetPublished
    <2>3. /\ red' \in RedStates
          /\ red'.pc = "publish" /\ red'.todo = red.todo
        <3>1. red \in RedStates
            BY <1>i DEF TypeOK
        <3>2. CASE red' = [red EXCEPT !.pc = "publish", !.cur = None, !.count = @ + 1]
            <4>1. red.count + 1 \in Nat
                BY <3>1 DEF RedStates
            <4>2. red' = [red EXCEPT !.pc = "publish", !.cur = None, !.count = red.count + 1]
                BY <3>2
            <4> QED BY <3>1, <4>1, <4>2 DEF RedStates, RedPCs
        <3>3. CASE red' = [red EXCEPT !.pc = "publish", !.cur = None]
            BY <3>1, <3>3 DEF RedStates, RedPCs
        <3> QED BY <1>4, <3>2, <3>3 DEF Remark
    <2>4. TypeOK'
        BY <1>4, <1>i, <1>s, <2>1, <2>2, <2>3, FaultsType DEF Remark, TypeOK, Durable
    <2>5. LoopKnows'
        BY <1>i, <1>s, <2>3 DEF LoopKnows, Durable
    <2>6. MarkedWereSent' /\ SentIsDurable'
        BY <1>4, <1>i, <1>s, <2>1, <2>2 DEF Remark, MarkedWereSent, SentIsDurable
    <2> QED BY <1>4, <1>i, <1>s, <2>4, <2>5, <2>6, RestPreserves DEF Remark, Grows
<1>5. CASE EndBatch
    <2>0. red' \in RedStates /\ red'.pc # "mark" /\ red'.todo = {}
        <3>1. CASE red' = Asleep
            BY <3>1, AsleepType
        <3>2. CASE red' = [red EXCEPT !.pc = "list"]
            BY <1>5, <1>i, <3>2 DEF EndBatch, TypeOK, RedStates, RedPCs
        <3> QED BY <1>5, <3>1, <3>2 DEF EndBatch
    <2>1. TypeOK'
        BY <1>5, <1>i, <1>s, <2>0 DEF EndBatch, TypeOK
    <2>2. LoopKnows'
        BY <2>0 DEF LoopKnows
    <2> QED BY <1>5, <1>i, <1>s, <2>1, <2>2, RestPreserves
            DEF EndBatch, Grows, SentIsDurable, MarkedWereSent
<1> QED BY <1>1, <1>2, <1>3, <1>4, <1>5 DEF Redeliver

(* Deliveries, crashes and stutters preserve the invariant.                *)
LEMMA OtherStep ==
    ASSUME IInv, [Next]_vars, ~(\E g \in Emitters : Emit(g)), ~Redeliver
    PROVE  IInv'
<1> USE DEF tables, stream
<1>i. /\ TypeOK /\ LoopKnows /\ SentIsDurable /\ MarkedWereSent
      /\ Stored \cap Events \subseteq dataRows
    BY DEF IInv, Knows
<1>1. ASSUME NEW e \in Events, Handle(e) PROVE IInv'
    <2>1. Stored' = Stored
        BY <1>1 DEF Handle, Stored
    <2>2. TypeOK'
        BY <1>1, <1>i, <2>1 DEF Handle, TypeOK
    <2>3. Grows /\ LoopKnows'
        BY <1>1, <2>1, LoopKept DEF Handle, Grows
    <2> QED BY <1>1, <1>i, <2>1, <2>2, <2>3, RestPreserves
            DEF Handle, SentIsDurable, MarkedWereSent
<1>2. ASSUME NEW r \in Lore, LoreAppended(r) PROVE IInv'
    <2>1. born' \in [Rows -> Nat] /\ Stored' = Stored \cup {r}
        BY <1>2, <1>i, AddRowAdds DEF LoreAppended, Rows
    <2>2. r \notin Events
        BY OutboxAssumption
    <2>3. TypeOK'
        BY <1>2, <1>i, <2>1 DEF LoreAppended, TypeOK
    <2>4. Grows /\ LoopKnows'
        BY <1>2, <2>1, LoopKept DEF LoreAppended, Grows
    <2> QED BY <1>2, <1>i, <2>1, <2>2, <2>3, <2>4, RestPreserves
            DEF LoreAppended, SentIsDurable, MarkedWereSent
<1>3. ASSUME NEW r \in Lore, LoreDone(r) PROVE IInv'
    <2>1. Stored' = Stored /\ r \notin Events /\ r \in Stored
        BY <1>3, OutboxAssumption DEF LoreDone, Stored
    <2>2. TypeOK'
        BY <1>3, <1>i, <2>1 DEF LoreDone, TypeOK
    <2>3. Grows /\ LoopKnows'
        BY <1>3, <2>1, LoopKept DEF LoreDone, Grows
    <2> QED BY <1>3, <1>i, <2>1, <2>2, <2>3, RestPreserves
            DEF LoreDone, SentIsDurable, MarkedWereSent
<1>4. CASE RowAges
    <2>1. Stored' = Stored
        BY <1>4 DEF RowAges, Stored
    <2>2. TypeOK'
        BY <1>4, <1>i, <2>1 DEF RowAges, TypeOK
    <2>3. Grows /\ LoopKnows'
        BY <1>4, <2>1, LoopKept DEF RowAges, Grows
    <2> QED BY <1>4, <1>i, <2>1, <2>2, <2>3, RestPreserves
            DEF RowAges, SentIsDurable, MarkedWereSent
<1>5. CASE Crash
    <2>1. Stored' = Stored /\ \A g \in Emitters : emit'[g].pc = "done"
        BY <1>5, <1>i DEF Crash, Stored, TypeOK
    <2>2. TypeOK'
        <3>1. /\ emit' \in [Emitters -> [pc : EmitPCs, next : Nat \ {0}]]
              /\ bus' \in [Events -> Nat]
            BY <1>5, <1>i DEF Crash, TypeOK, EmitPCs
        <3>2. crashes' \in 0..MaxCrashes
            BY <1>5, <1>i, OutboxAssumption DEF Crash, TypeOK
        <3> QED BY <1>5, <1>i, <2>1, <3>1, <3>2, AsleepType DEF Crash, TypeOK
    <2>3. LoopKnows'
        BY <1>5, AsleepType DEF Crash, LoopKnows
    <2>4. \A g \in Emitters : EmitterKnows(g)'
        BY <2>1, EmitterRests
    <2> QED BY <1>5, <1>i, <2>1, <2>2, <2>3, <2>4
            DEF Crash, IInv, Knows, SentIsDurable, MarkedWereSent
<1>6. CASE UNCHANGED vars
    <2>1. Stored' = Stored /\ TypeOK'
        BY <1>6, <1>i DEF vars, Stored, TypeOK
    <2>2. Grows /\ LoopKnows'
        BY <1>6, <2>1, LoopKept DEF vars, Grows
    <2> QED BY <1>6, <1>i, <2>1, <2>2, RestPreserves
            DEF vars, SentIsDurable, MarkedWereSent
<1> QED BY <1>1, <1>2, <1>3, <1>4, <1>5, <1>6 DEF Next

(* The invariant holds throughout.                                         *)
LEMMA Invariant == Spec => []IInv
<1>1. IInv /\ [Next]_vars => IInv'
    BY EmitStep, RedeliverStep, OtherStep
<1> QED BY <1>1, InitInv, PTL DEF Spec

(* Tables, stream and loops keep their types.                              *)
THEOREM OutboxType == Spec => []TypeOK
<1>1. IInv => TypeOK
    BY DEF IInv
<1> QED BY <1>1, Invariant, PTL

(* A row is marked published only after its event went on the bus,         *)
(* whatever fails and whenever the process crashes.                        *)
THEOREM NoMarkBeforeSend == Spec => []MarkedWereSent
<1>1. IInv => MarkedWereSent
    BY DEF IInv, Knows
<1> QED BY <1>1, Invariant, PTL

(* Every copy on the bus is backed by a data_events row and an outbox row. *)
THEOREM NoSendBeforeStore == Spec => []SentIsDurable
<1>1. IInv => SentIsDurable
    BY DEF IInv, Knows
<1> QED BY <1>1, Invariant, PTL

-----------------------------------------------------------------------------
(* Who pays for the copies.                                                *)

Sending(g) == emit[g].pc \in {"outbox", "publish"}

\* An emitter may still send the event without a fault.
EmitterMay(e) == e \notin dataRows \/ \E g \in Emitters : Sending(g) /\ Event(g) = e

\* So may the redelivery loop: the event is in its batch, or may be listed.
LoopMay(e) ==
    e \in red.todo \/ (e \notin published /\ ~(red.pc = "mark" /\ red.cur = e))

Budget(e) == (IF EmitterMay(e) THEN 0 ELSE 1) + (IF LoopMay(e) THEN 0 ELSE 1)
             + faults + crashes

(* Each loop sends an event once on its own account, and loses what it     *)
(* knows of that only by a fault or a crash.  The unique event_id of       *)
(* data_events keeps two emitters from sending one event.                  *)
CopyInv ==
    /\ \A g, h \in Emitters : g # h /\ Sending(g) /\ Sending(h) => Event(g) # Event(h)
    /\ \A e \in Events : sent[e] <= Budget(e)

(* The ways in which the budget of an event may change.                    *)
LEMMA Paid ==
    ASSUME TypeOK, TypeOK', NEW e \in Events, sent[e] <= Budget(e),
           EmitterMay(e)' => EmitterMay(e), faults' >= faults, crashes' >= crashes,
           \/ sent'[e] = sent[e] /\ (LoopMay(e)' => LoopMay(e))
           \/ /\ sent'[e] = sent[e] + 1 /\ EmitterMay(e) /\ ~EmitterMay(e)'
              /\ LoopMay(e)' => LoopMay(e)
           \/ sent'[e] = sent[e] + 1 /\ LoopMay(e) /\ ~LoopMay(e)'
           \/ /\ sent'[e] = sent[e] + 1 /\ faults' = faults + 1
              /\ LoopMay(e)' => LoopMay(e)
           \/ sent'[e] = sent[e] /\ (faults' = faults + 1 \/ crashes' = crashes + 1)
    PROVE  sent'[e] <= Budget(e)'
<1>1. /\ sent[e] \in Nat /\ sent'[e] \in Nat /\ faults \in Nat /\ crashes \in Nat
      /\ faults' \in Nat /\ crashes' \in Nat
    BY OutboxAssumption DEF TypeOK
<1> DEFINE c  == IF EmitterMay(e) THEN 0 ELSE 1
           c1 == IF EmitterMay(e)' THEN 0 ELSE 1
           d  == IF LoopMay(e) THEN 0 ELSE 1
           d1 == IF LoopMay(e)' THEN 0 ELSE 1
<1>2. Budget(e) = c + d + faults + crashes
    BY DEF Budget
<1>3. Budget(e)' = c1 + d1 + faults' + crashes'
    BY DEF Budget
<1>4. /\ c \in {0, 1} /\ c1 \in {0, 1} /\ c1 >= c
      /\ EmitterMay(e) /\ ~EmitterMay(e)' => c = 0 /\ c1 = 1
    OBVIOUS
<1>5. /\ d \in {0, 1} /\ d1 \in {0, 1}
      /\ (LoopMay(e)' => LoopMay(e)) => d1 >= d
      /\ LoopMay(e) /\ ~LoopMay(e)' => d = 0 /\ d1 = 1
    OBVIOUS
<1> HIDE DEF c, c1, d, d1
<1>6. \/ sent'[e] = sent[e] /\ d1 >= d
      \/ sent'[e] = sent[e] + 1 /\ c = 0 /\ c1 = 1 /\ d1 >= d
      \/ sent'[e] = sent[e] + 1 /\ d = 0 /\ d1 = 1
      \/ sent'[e] = sent[e] + 1 /\ faults' = faults + 1 /\ d1 >= d
      \/ sent'[e] = sent[e] /\ (faults' = faults + 1 \/ crashes' = crashes + 1)
    BY <1>4, <1>5
<1>7. sent[e] <= c + d + faults + crashes
    BY <1>2
<1>8. sent'[e] <= c1 + d1 + faults' + crashes'
    <2>1. c \in Nat /\ c1 \in Nat /\ d \in Nat /\ d1 \in Nat /\ c1 >= c
          /\ d <= 1 /\ faults' >= faults /\ crashes' >= crashes
        BY <1>4, <1>5
    <2>2. CASE sent'[e] = sent[e] /\ d1 >= d
        BY <1>1, <1>7, <2>1, <2>2
    <2>3. CASE sent'[e] = sent[e] + 1 /\ c = 0 /\ c1 = 1 /\ d1 >= d
        BY <1>1, <1>7, <2>1, <2>3
    <2>4. CASE sent'[e] = sent[e] + 1 /\ d = 0 /\ d1 = 1
        BY <1>1, <1>7, <2>1, <2>4
    <2>5. CASE sent'[e] = sent[e] + 1 /\ faults' = faults + 1 /\ d1 >= d
        BY <1>1, <1>7, <2>1, <2>5
    <2>6. CASE sent'[e] = sent[e] /\ faults' = faults + 1
        BY <1>1, <1>7, <2>1, <2>6
    <2>7. CASE sent'[e] = sent[e] /\ crashes' = crashes + 1
        BY <1>1, <1>7, <2>1, <2>7
    <2> QED BY <1>6, <2>2, <2>3, <2>4, <2>5, <2>6, <2>7
<1> QED BY <1>3, <1>8

(* A publish sends one copy of its event.                                  *)
LEMMA OneCopy ==
    ASSUME TypeOK, NEW e \in Events, PutOnBus(e)
    PROVE  /\ sent'[e] = sent[e] + 1
           /\ \A x \in Events \ {e} : sent'[x] = sent[x]
BY DEF TypeOK, PutOnBus

(* A call is counted when it fails.                                        *)
LEMMA FaultsGrow ==
    ASSUME TypeOK, Ok \/ Fail
    PROVE  faults' >= faults
BY OutboxAssumption DEF TypeOK, Ok, Fail

(* Every step of an emitter is paid for.                                   *)
LEMMA EmitPays ==
    ASSUME IInv, TypeOK', CopyInv, NEW g \in Emitters, Emit(g)
    PROVE  CopyInv'
<1> USE DEF tables, stream
<1>i. TypeOK /\ EmitterKnows(g) /\ \A h \in Emitters : Sending(h) => Event(h) \in dataRows
    BY DEF IInv, Knows, EmitterKnows, Durable, Sending
<1>c. red' = red /\ crashes' = crashes /\ crashes \in Nat
    BY <1>i, OutboxAssumption DEF Emit, AppendDataEvent, AppendEventOutbox, Publish,
       MarkOutboxPublished, TypeOK
<1>f. faults' >= faults
    BY <1>i, FaultsGrow DEF Emit, AppendDataEvent, AppendEventOutbox, Publish, MarkOutboxPublished
<1>p. published \subseteq published'
    BY DEF Emit, AppendDataEvent, AppendEventOutbox, Publish, MarkOutboxPublished, SetPublished
<1>d. dataRows \subseteq dataRows'
    BY DEF Emit, AppendDataEvent, AppendEventOutbox, Publish, MarkOutboxPublished
<1>l. \A e \in Events : LoopMay(e)' => LoopMay(e)
    BY <1>c, <1>p DEF LoopMay
<1>o. \A h \in Emitters \ {g} : emit'[h] = emit[h] /\ Event(h)' = Event(h)
    BY <1>i, EmitterMoves DEF Emit, AppendDataEvent, AppendEventOutbox, Publish,
       MarkOutboxPublished, EmitPCs, Event
<1>1. CASE AppendDataEvent(g)
    <2>1. \/ emit'[g].pc \in {"data", "done"}
          \/ /\ emit'[g].pc = "outbox" /\ emit'[g].next = emit[g].next
             /\ Event(g) \notin dataRows
        BY <1>1, <1>i, EmitterMoves DEF AppendDataEvent, EmitPCs
    <2>2. Sending(g)' => Event(g)' = Event(g) /\ Event(g) \notin dataRows
        BY <2>1 DEF Sending, Event
    <2>3. \A h \in Emitters \ {g} : Sending(h)' => Sending(h) /\ Event(h) \in dataRows
        BY <1>o, <1>i DEF Sending
    <2>4. \A e \in Events : EmitterMay(e)' => EmitterMay(e)
        BY <1>d, <1>o, <2>2, <2>3 DEF EmitterMay
    <2>5. sent' = sent
        BY <1>1 DEF AppendDataEvent
    <2>6. \A e \in Events : sent'[e] <= Budget(e)'
        BY <1>i, <1>c, <1>f, <1>l, <2>4, <2>5, Paid DEF CopyInv
    <2> QED BY <1>o, <2>2, <2>3, <2>6 DEF CopyInv
<1>2. ASSUME Sending(g)' => Sending(g) /\ Event(g)' = Event(g)
      PROVE  /\ \A e \in Events : EmitterMay(e)' => EmitterMay(e)
             /\ \A h, k \in Emitters :
                   h # k /\ Sending(h)' /\ Sending(k)' => Event(h)' # Event(k)'
    <2>1. \A h \in Emitters : Sending(h)' => Sending(h) /\ Event(h)' = Event(h)
        BY <1>2, <1>o DEF Sending
    <2> QED BY <1>d, <2>1 DEF EmitterMay, CopyInv
<1>3. CASE AppendEventOutbox(g)
    <2>1. Sending(g)' => Sending(g) /\ Event(g)' = Event(g)
        BY <1>3, <1>i, EmitterMoves DEF AppendEventOutbox, Active, Sending, Event, EmitPCs
    <2>2. sent' = sent
        BY <1>3 DEF AppendEventOutbox
    <2> QED BY <1>i, <1>c, <1>f, <1>l, <1>2, <2>1, <2>2, Paid DEF CopyInv
<1>4. CASE MarkOutboxPublished(g)
    <2>1. ~Sending(g)'
        BY <1>4, <1>i DEF MarkOutboxPublished, NextEvent, Sending, TypeOK
    <2>2. sent' = sent
        BY <1>4 DEF MarkOutboxPublished
    <2> QED BY <1>i, <1>c, <1>f, <1>l, <1>2, <2>1, <2>2, Paid DEF CopyInv
<1>5. CASE Publish(g)
    <2>1. Event(g) \in Events /\ Sending(g)
        BY <1>5, <1>i, EventType DEF Publish, Active, Sending
    <2>2. ~Sending(g)'
        BY <1>5, <1>i, EmitterMoves DEF Publish, Sending, EmitPCs
    <2>3. /\ \A e \in Events : EmitterMay(e)' => EmitterMay(e)
          /\ \A h, k \in Emitters :
                h # k /\ Sending(h)' /\ Sending(k)' => Event(h)' # Event(k)'
        BY <1>2, <2>2
    <2>e. PICK x \in Events : x = Event(g)
        BY <2>1
    <2>4. EmitterMay(x) /\ ~EmitterMay(x)'
        <3>1. EmitterMay(x) /\ x \in dataRows
            BY <1>i, <2>1, <2>e DEF EmitterMay
        <3>2. \A h \in Emitters \ {g} : Sending(h)' => Event(h)' # x
            BY <1>o, <2>1, <2>e DEF CopyInv, Sending
        <3> QED BY <1>d, <2>2, <3>1, <3>2 DEF EmitterMay
    <2>5. ASSUME NEW e \in Events PROVE sent'[e] <= Budget(e)'
        <3>1. sent[e] <= Budget(e)
            BY DEF CopyInv
        <3>2. CASE sent'[e] = sent[e]
            BY <1>i, <1>c, <1>f, <1>l, <2>3, <3>1, <3>2, Paid
        <3>3. CASE PutOnBus(x) /\ e = x
            <4>1. sent'[e] = sent[e] + 1
                BY <1>i, <3>3, OneCopy
            <4> QED BY <1>i, <1>c, <1>f, <1>l, <2>3, <2>4, <3>1, <3>3, <4>1, Paid
        <3>4. CASE PutOnBus(x) /\ e # x
            BY <1>i, <3>2, <3>4, OneCopy
        <3> QED BY <1>5, <2>e, <3>2, <3>3, <3>4 DEF Publish
    <2> QED BY <2>3, <2>5 DEF CopyInv
<1> QED BY <1>1, <1>3, <1>4, <1>5 DEF Emit

(* A step that leaves the emitters and their table alone.                  *)
LEMMA EmittersRest ==
    ASSUME CopyInv, UNCHANGED <<emit, dataRows>>, \A e \in Events : sent'[e] <= Budget(e)'
    PROVE  CopyInv'
BY DEF CopyInv, Sending, Event

(* Such a step does not give an event back to the emitters.                *)
LEMMA EmittersSame ==
    ASSUME UNCHANGED <<emit, dataRows>>, NEW e \in Events
    PROVE  EmitterMay(e)' <=> EmitterMay(e)
BY DEF EmitterMay, Sending, Event

(* Every step of the redelivery loop is paid for.                          *)
LEMMA RedeliverPays ==
    ASSUME IInv, TypeOK', CopyInv, Redeliver
    PROVE  CopyInv'
<1> USE DEF tables, stream
<1>i. TypeOK /\ red \in RedStates /\ crashes \in Nat /\ faults \in Nat
    BY OutboxAssumption DEF IInv, TypeOK
<1>c. UNCHANGED <<emit, dataRows, crashes>>
    BY DEF Redeliver, Tick, List, Republish, Remark, EndBatch
<1>f. faults' >= faults
    BY <1>i, FaultsGrow DEF Redeliver, Tick, List, Republish, Remark, EndBatch, Ok
<1>q. ASSUME sent' = sent, \A e \in Events : LoopMay(e)' => LoopMay(e) PROVE CopyInv'
    BY <1>i, <1>c, <1>f, <1>q, Paid, EmittersRest, EmittersSame DEF CopyInv
<1>1. CASE Tick
    BY <1>q, <1>1 DEF Tick, Asleep, LoopMay
<1>2. CASE List
    <2>1. \A e \in Events : e \in Listed(red.cutoff) => e \notin published
        BY DEF Listed, Oldest, Pending
    <2>2. /\ sent' = sent /\ published' = published /\ red.pc = "list"
          /\ red'.todo \subseteq Listed(red.cutoff)
        <3>1. CASE red' = Asleep
            BY <1>2, <3>1, AsleepType DEF List
        <3>2. CASE red' = [red EXCEPT !.pc = "publish", !.todo = Listed(red.cutoff),
                                      !.count = 0, !.batches = @ + 1]
            BY <1>2, <1>i, <3>2 DEF List, RedStates
        <3> QED BY <1>2, <3>1, <3>2 DEF List
    <2>3. \A e \in Events : LoopMay(e)' => LoopMay(e)
        BY <2>1, <2>2 DEF LoopMay
    <2> QED BY <1>q, <2>2, <2>3
<1>3. CASE Republish
    <2>1. PICK e \in Oldest(red.todo, 1) :
             \/ /\ PutOnBus(e) /\ Ok
                /\ red' = [red EXCEPT !.pc = "mark", !.cur = e, !.todo = @ \ {e}]
             \/ /\ PutOnBus(e) \/ UNCHANGED stream
                /\ red' = [red EXCEPT !.todo = @ \ {e}] /\ Fail
        BY <1>3 DEF Republish
    <2>2. e \in red.todo /\ e \in Events
        BY <1>i DEF Oldest, RedStates
    <2>3. red.pc = "publish" /\ published' = published /\ red'.todo = red.todo \ {e}
        BY <1>3, <1>i, <2>1 DEF Republish, RedStates
    <2>4. LoopMay(e) /\ \A x \in Events : LoopMay(x)' => LoopMay(x)
        BY <2>2, <2>3 DEF LoopMay
    <2>5. ASSUME NEW x \in Events PROVE sent'[x] <= Budget(x)'
        <3>1. sent[x] <= Budget(x) /\ (EmitterMay(x)' => EmitterMay(x))
            BY <1>c, EmittersSame DEF CopyInv
        <3>2. CASE sent'[x] = sent[x]
            BY <1>i, <1>c, <1>f, <2>4, <3>1, <3>2, Paid
        <3>3. CASE PutOnBus(e) /\ x # e
            BY <1>i, <2>2, <3>2, <3>3, OneCopy
        <3>4. CASE PutOnBus(e) /\ x = e /\ Fail
            <4>1. sent'[x] = sent[x] + 1 /\ faults' = faults + 1
                BY <1>i, <3>4, OneCopy DEF Fail
            <4> QED BY <1>i, <1>c, <1>f, <2>4, <3>1, <4>1, Paid
        <3>5. CASE /\ PutOnBus(e) /\ x = e
                   /\ red' = [red EXCEPT !.pc = "mark", !.cur = e, !.todo = @ \ {e}]
            <4>1. sent'[x] = sent[x] + 1
                BY <1>i, <3>5, OneCopy
            <4>2. red'.pc = "mark" /\ red'.cur = e
                BY <1>i, <3>5 DEF RedStates
            <4>3. ~LoopMay(x)'
                BY <2>3, <3>5, <4>2 DEF LoopMay
            <4> QED BY <1>i, <1>c, <1>f, <2>4, <3>1, <3>5, <4>1, <4>3, Paid
        <3> QED BY <2>1, <3>2, <3>3, <3>4, <3>5
    <2> QED BY <1>c, <2>5, EmittersRest
<1>4. CASE Remark
    <2>1. /\ sent' = sent /\ published \subseteq published' /\ red.pc = "mark"
          /\ red'.todo = red.todo /\ red.cur \in Stored
        BY <1>4, <1>i DEF Remark, SetPublished, RedStates, IInv, Knows, LoopKnows, Durable
    <2>2. \A x \in Events \ {red.cur} : LoopMay(x)' => LoopMay(x)
        BY <2>1 DEF LoopMay
    <2>3. CASE Ok /\ SetPublished(red.cur)
        <3>1. ASSUME NEW x \in Events, x = red.cur PROVE LoopMay(x)' => LoopMay(x)
            BY <2>1, <2>3, <3>1 DEF SetPublished, LoopMay
        <3> QED BY <1>q, <2>1, <2>2, <3>1
    <2>4. CASE Fail
        <3>1. faults' = faults + 1
            BY <2>4 DEF Fail
        <3> QED BY <1>i, <1>c, <1>f, <2>1, <3>1, Paid, EmittersRest, EmittersSame DEF CopyInv
    <2> QED BY <1>4, <2>3, <2>4 DEF Remark
<1>5. CASE EndBatch
    <2>1. /\ sent' = sent /\ published' = published /\ red.pc = "publish"
          /\ red'.todo = {} /\ red'.pc # "mark"
        BY <1>5, <1>i DEF EndBatch, Asleep, RedStates
    <2>2. \A x \in Events : LoopMay(x)' => LoopMay(x)
        BY <2>1 DEF LoopMay
    <2> QED BY <1>q, <2>1, <2>2
<1> QED BY <1>1, <1>2, <1>3, <1>4, <1>5 DEF Redeliver

(* The other steps send nothing, and a crash pays for what is forgotten.   *)
LEMMA OthersPay ==
    ASSUME IInv, TypeOK', CopyInv, [Next]_vars, ~Redeliver, \A g \in Emitters : ~Emit(g)
    PROVE  CopyInv'
<1> USE DEF tables, stream
<1>i. TypeOK /\ crashes \in Nat /\ faults \in Nat
    BY OutboxAssumption DEF IInv, TypeOK
<1>1. CASE Crash
    <2>1. /\ sent' = sent /\ dataRows' = dataRows /\ faults' = faults
          /\ crashes' = crashes + 1 /\ \A g \in Emitters : emit'[g].pc = "done"
        BY <1>1, <1>i DEF Crash, TypeOK
    <2>2. \A g \in Emitters : ~Sending(g)'
        BY <2>1 DEF Sending
    <2>3. \A e \in Events : EmitterMay(e)' => EmitterMay(e)
        BY <2>1, <2>2 DEF EmitterMay
    <2>4. \A e \in Events : sent'[e] <= Budget(e)'
        BY <1>i, <2>1, <2>3, Paid DEF CopyInv
    <2> QED BY <2>2, <2>4 DEF CopyInv
<1>2. CASE ~Crash
    <2>1. /\ UNCHANGED <<sent, dataRows, faults, crashes, emit, red>>
          /\ published \subseteq published'
        BY <1>2 DEF Next, Handle, LoreAppended, LoreDone, RowAges, vars
    <2>2. \A e \in Events : LoopMay(e)' => LoopMay(e)
        BY <2>1 DEF LoopMay
    <2> QED BY <1>i, <2>1, <2>2, Paid, EmittersRest, EmittersSame DEF CopyInv
<1> QED BY <1>1, <1>2

(* An event is sent at most twice, and once more for every failed call and *)
(* every crash: neither loop repeats a copy that it knows to be sent.      *)
THEOREM CopiesArePaid == Spec => []CopiesArePaidFor
<1>1. Init => CopyInv
    <2> SUFFICES ASSUME Init PROVE CopyInv
        OBVIOUS
    <2>1. \A e \in Events : EmitterMay(e) /\ LoopMay(e) /\ sent[e] = 0
        BY DEF Init, EmitterMay, LoopMay, Asleep
    <2>2. \A e \in Events : sent[e] <= Budget(e)
        BY <2>1 DEF Init, Budget
    <2> QED BY <2>2 DEF Init, CopyInv, Sending
<1>2. IInv /\ IInv' /\ CopyInv /\ [Next]_vars => CopyInv'
    BY EmitPays, RedeliverPays, OthersPay DEF IInv
<1>3. IInv /\ CopyInv => CopiesArePaidFor
    <2> SUFFICES ASSUME IInv, CopyInv, NEW e \in Events
                 PROVE  sent[e] <= 2 + faults + crashes
        BY DEF CopiesArePaidFor
    <2>1. sent[e] \in Nat /\ faults \in Nat /\ crashes \in Nat /\ sent[e] <= Budget(e)
        BY OutboxAssumption DEF IInv, TypeOK, CopyInv
    <2> QED BY <2>1 DEF Budget
<1> QED BY <1>1, <1>2, <1>3, Invariant, PTL DEF Spec
=============================================================================
