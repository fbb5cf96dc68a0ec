----------------------- MODULE PollingSource_proofs -----------------------
(***************************************************************************)
(* Proofs about PollingSource, for any number of messages, of polls at one *)
(* time, size of page and configuration of the mailbox.  The argument: a   *)
(* message of a page that has left the list of events to emit was handed   *)
(* over, or had its hash in the entry before.  While one poll is under     *)
(* way, what separates the hash that the entry knows from the flag of the  *)
(* message is paid for by changes of the flag and by ends of the process;  *)
(* while several are, each may still report the message, and what one of   *)
(* them leaves behind is reported once more.                               *)
(***************************************************************************)
EXTENDS PollingSource, FiniteSetTheorems, TLAPS

Paging == {"emit", "mark", "remember"}

(* Where a poll keeps what. *)
Fits(r) ==
    /\ r.todo \subseteq DOMAIN r.page
    /\ r.pc # "emit" => r.todo = {}
    /\ r.pc \notin Paging \cup {"diff"} => DOMAIN r.page = {}

PollInv ==
    /\ \A p \in Polls : Fits(poll[p]) /\ (up = "down" => poll[p] = NoPoll)
    /\ up = "down" => entry = Blank /\ dirty = FALSE

(* A message of a page that was compared is yet to be handed over, or was. *)
PageInv ==
    \A p \in Polls : poll[p].pc \in Paging =>
        \A m \in (DOMAIN poll[p].page) \ poll[p].todo : <<m, poll[p].page[m]>> \in handed

Seen(m) == m \in seen
Differ(h, m) == IF h = Seen(m) THEN 0 ELSE 1

(* The hash that a poll will leave in the entry; how far from it the flag  *)
(* is, by way of the event that the poll is about to emit.                 *)
Hash(p, m) == IF m \in DOMAIN poll[p].page THEN poll[p].page[m] ELSE entry.known[m]
Pending(p, m) == m \in poll[p].todo \/ (poll[p].pc = "diff" /\ m \in News(poll[p].page))
Distance(p, m) == (IF Pending(p, m) THEN 1 ELSE 0) + Differ(Hash(p, m), m)

(* The polls that may still report a message, whatever they find; whether  *)
(* they, the entry and the mailbox agree about it.                         *)
Owes(p, m) == poll[p].pc \in {"list", "diff"} \/ m \in poll[p].todo
Owing(m) == {p \in Polls : Owes(p, m)}
Owed(p, m) == IF Owes(p, m) THEN 1 ELSE 0
Agrees(m) ==
    /\ entry.known[m] = Seen(m)
    /\ \A p \in Polls : m \in DOMAIN poll[p].page => poll[p].page[m] = Seen(m)
Unsettled(m) == IF Agrees(m) THEN 0 ELSE 1

(* The account of the events of a message, in a crowd and of a poll alone. *)
Paid(m) == 1 + flips[m] + restarts + 2 * overlaps
Crowd(m) == events[m] + Cardinality(Owing(m)) + Unsettled(m) <= Paid(m)
Alone(p, m) == Busy = {p} /\ events[m] + Distance(p, m) <= Paid(m)
Balance(m) == Crowd(m) \/ \E p \in Polls : Alone(p, m)

CountInv == \A m \in Mail : Balance(m)

IInv == TypeOK /\ PollInv /\ KnownWasHandedOver /\ PageInv /\ CountInv

-----------------------------------------------------------------------------
(* A page is a function from some of the mail to hash matches.             *)
LEMMA PageType ==
    ASSUME NEW page
    PROVE  page \in Pages <=> page \in [DOMAIN page -> BOOLEAN] /\ DOMAIN page \in SUBSET Mail
BY DEF Pages

(* The records of a poll and of a flush that do nothing have their types.  *)
LEMMA Blanks ==
    NoPage \in Pages /\ Blank \in Memory /\ NoPoll \in PollType
    /\ NoFlush \in [Flushes -> FlushType]
<1>1. NoPage \in [{} -> BOOLEAN] /\ {} \in SUBSET Mail
    BY DEF NoPage
<1>2. NoPage \in Pages
    BY <1>1 DEF Pages
<1>3. Blank \in Memory
    BY PollingAssumption DEF Blank, Memory
<1>4. NoPoll \in PollType
    BY <1>2, <1>3, PollingAssumption DEF NoPoll, PollType, PollPCs, Mail
<1>5. NoFlush \in [Flushes -> FlushType]
    BY <1>3 DEF NoFlush, FlushType, FlushPCs
<1> QED BY <1>2, <1>3, <1>4, <1>5

(* What is in NoPoll.                                                      *)
LEMMA Idle ==
    /\ NoPoll.pc = "idle" /\ NoPoll.cursor = 0 /\ DOMAIN NoPoll.page = {} /\ NoPoll.next = 0
    /\ NoPoll.todo = {} /\ NoPoll.marks = {} /\ NoPoll.copy = Blank
BY DEF NoPoll, NoPage

(* A step of a poll leaves the other polls as they are.                    *)
LEMMA Goes ==
    ASSUME TypeOK, NEW p \in Polls, NEW from, NEW r, PollGoes(p, from, r)
    PROVE  /\ up # "down" /\ poll[p].pc = from /\ poll[p] \in PollType
           /\ poll' = [poll EXCEPT ![p] = r] /\ poll'[p] = r
           /\ \A q \in Polls \ {p} : poll'[q] = poll[q]
           /\ r \in PollType => poll' \in [Polls -> PollType]
BY DEF TypeOK, PollGoes

(* What a listing returns.                                                 *)
LEMMA Listing ==
    ASSUME TypeOK, NEW p \in Polls, List(p)
    PROVE  \E page \in Pages, c \in 0..MaxMail :
              /\ \A m \in DOMAIN page : page[m] = Seen(m)
              /\ PollGoes(p, "list", [NoPoll EXCEPT !.pc = "diff", !.next = c, !.page = page])
<1> DEFINE S    == Below(poll[p].cursor)
           page == [m \in Newest(S) |-> m \in seen]
<1>1. Newest(S) \subseteq Mail
    BY PollingAssumption DEF Newest, Below, Mail, TypeOK
<1>2. NextCursor(S) \subseteq 0..MaxMail
    BY <1>1, PollingAssumption DEF NextCursor, First, Mail
<1>3. PICK c \in NextCursor(S) :
         PollGoes(p, "list", [NoPoll EXCEPT !.pc = "diff", !.next = c, !.page = page])
    BY DEF List
<1>4. DOMAIN page = Newest(S) /\ page \in [Newest(S) -> BOOLEAN]
    OBVIOUS
<1>5. page \in Pages
    BY <1>1, <1>4, PageType
<1>6. \A m \in DOMAIN page : page[m] = Seen(m)
    BY DEF Seen
<1>7. c \in 0..MaxMail
    BY <1>2, <1>3
<1> HIDE DEF page
<1> QED BY <1>3, <1>5, <1>6, <1>7

-----------------------------------------------------------------------------
(* Every step of a poll preserves the type invariant.                      *)
LEMMA PollTypes ==
    ASSUME TypeOK, PollInv, NEW p \in Polls, PollStep(p)
    PROVE  TypeOK'
<1> USE DEF mailbox, memory, outcome, life, polling
<1>a. poll[p] \in PollType /\ poll[p].todo \subseteq Mail /\ poll[p].copy \in Memory
    BY DEF TypeOK, PollType
<1>b. \A m \in poll[p].todo : m \in Mail /\ poll[p].page[m] \in BOOLEAN
    BY <1>a, PageType DEF PollInv, Fits, PollType
<1>1. CASE PollStart(p)
    <2> DEFINE r == [NoPoll EXCEPT !.pc = "list", !.cursor = entry.cursor]
    <2>1. PollGoes(p, "idle", r)
        BY <1>1 DEF PollStart
    <2>2. r \in PollType
        BY Blanks DEF PollType, PollPCs, TypeOK, Memory
    <2>3. overlaps' \in Nat
        BY <1>1 DEF PollStart, TypeOK
    <2> HIDE DEF r
    <2>4. poll' \in [Polls -> PollType]
        BY <2>1, <2>2, Goes
    <2> QED BY <1>1, <2>3, <2>4 DEF PollStart, TypeOK
<1>2. CASE ListFails(p)
    <2>1. poll' \in [Polls -> PollType]
        BY <1>2, Goes, Blanks DEF ListFails
    <2> QED BY <1>2, <2>1 DEF ListFails, TypeOK
<1>3. CASE List(p)
    <2>1. PICK page \in Pages, c \in 0..MaxMail :
             PollGoes(p, "list", [NoPoll EXCEPT !.pc = "diff", !.next = c, !.page = page])
        BY <1>3, Listing
    <2>2. [NoPoll EXCEPT !.pc = "diff", !.next = c, !.page = page] \in PollType
        BY Blanks DEF PollType, PollPCs
    <2>3. poll' \in [Polls -> PollType]
        BY <2>1, <2>2, Goes
    <2> QED BY <1>3, <2>3 DEF List, TypeOK
<1>4. CASE Diff(p)
    <2>1. News(poll[p].page) \subseteq Mail
        BY <1>a, PageType DEF News, PollType
    <2>2. Diffed(p) \in PollType
        BY <1>a, <2>1 DEF Diffed, PollType, PollPCs
    <2>3. poll' \in [Polls -> PollType]
        BY <1>4, <2>2, Goes DEF Diff
    <2> QED BY <1>4, <2>3 DEF Diff, TypeOK
<1>5. CASE Emit(p)
    <2>1. PICK m \in Last(poll[p].todo) :
             /\ PollGoes(p, "emit", [poll[p] EXCEPT !.todo = @ \ {m}])
             /\ Hand(p, {m}) /\ Stored(m)
        BY <1>5 DEF Emit
    <2>2. [poll[p] EXCEPT !.todo = @ \ {m}] \in PollType
        BY <1>a DEF PollType
    <2>3. poll' \in [Polls -> PollType]
        BY <2>1, <2>2, Goes
    <2>4. handed' \subseteq Mail \X BOOLEAN
        BY <1>b, <2>1 DEF Hand, Last, TypeOK
    <2>5. events' \in [Mail -> Nat]
        BY <1>b, <2>1 DEF Stored, Last, TypeOK
    <2> QED BY <1>5, <2>3, <2>4, <2>5 DEF Emit, TypeOK
<1>6. CASE EmitFails(p)
    <2>1. [poll[p] EXCEPT !.todo = {}] \in PollType
        BY <1>a DEF PollType
    <2>2. poll' \in [Polls -> PollType]
        BY <1>6, <2>1, Goes DEF EmitFails
    <2>3. handed' \subseteq Mail \X BOOLEAN
        BY <1>b, <1>6 DEF EmitFails, Hand, TypeOK
    <2>4. events' \in [Mail -> Nat]
        BY <1>b, <1>6 DEF EmitFails, Stored, Last, TypeOK
    <2> QED BY <1>6, <2>2, <2>3, <2>4 DEF EmitFails, TypeOK
<1>7. CASE Emitted(p)
    <2> DEFINE r == [poll[p] EXCEPT !.pc = IF poll[p].marks = {} THEN "remember" ELSE "mark"]
    <2>1. PollGoes(p, "emit", r)
        BY <1>7 DEF Emitted
    <2>2. r \in PollType
        BY <1>a DEF PollType, PollPCs
    <2> HIDE DEF r
    <2>3. poll' \in [Polls -> PollType]
        BY <2>1, <2>2, Goes
    <2> QED BY <1>7, <2>3 DEF Emitted, TypeOK
<1>8. CASE Mark(p)
    <2>1. PICK m \in Last(poll[p].marks) :
             PollGoes(p, "mark", [poll[p] EXCEPT !.marks = @ \ {m}]) /\ Flip({m} \ seen)
        BY <1>8 DEF Mark
    <2>2. [poll[p] EXCEPT !.marks = @ \ {m}] \in PollType /\ m \in Mail
        BY <1>a, <2>1 DEF PollType, Last
    <2>3. poll' \in [Polls -> PollType]
        BY <2>1, <2>2, Goes
    <2>4. seen' \subseteq Mail /\ flips' \in [Mail -> Nat]
        BY <2>1, <2>2 DEF Flip, TypeOK
    <2> QED BY <1>8, <2>3, <2>4 DEF Mark, TypeOK
<1>9. CASE Marked(p)
    <2>1. [poll[p] EXCEPT !.pc = "remember", !.marks = {}] \in PollType
        BY <1>a DEF PollType, PollPCs
    <2>2. poll' \in [Polls -> PollType]
        BY <1>9, <2>1, Goes DEF Marked
    <2> QED BY <1>9, <2>2 DEF Marked, TypeOK
<1>10. CASE Remember(p)
    <2>1. [NoPoll EXCEPT !.pc = "copy"] \in PollType
        BY Blanks DEF PollType, PollPCs
    <2>2. poll' \in [Polls -> PollType]
        BY <1>10, <2>1, Goes DEF Remember
    <2>3. Learn(entry.known, poll[p].page) \in [Mail -> {None} \cup BOOLEAN]
        BY <1>a, PageType DEF Learn, Memory, PollType, TypeOK
    <2>4. entry' \in Memory
        BY <1>a, <1>10, <2>3 DEF Remember, Memory, PollType, TypeOK
    <2> QED BY <1>10, <2>2, <2>4 DEF Remember, TypeOK
<1>11. CASE Copy(p)
    <2>1. [NoPoll EXCEPT !.pc = "update", !.copy = entry] \in PollType
        BY Blanks DEF PollType, PollPCs, TypeOK
    <2>2. poll' \in [Polls -> PollType]
        BY <1>11, <2>1, Goes DEF Copy
    <2> QED BY <1>11, <2>2 DEF Copy, TypeOK
<1>12. CASE Update(p)
    <2>1. [NoPoll EXCEPT !.pc = "dirty"] \in PollType
        BY Blanks DEF PollType, PollPCs
    <2>2. poll' \in [Polls -> PollType]
        BY <1>12, <2>1, Goes DEF Update
    <2> QED BY <1>a, <1>12, <2>2 DEF Update, TypeOK
<1>13. CASE MarkDirty(p)
    <2>1. poll' \in [Polls -> PollType]
        BY <1>13, Goes, Blanks DEF MarkDirty
    <2> QED BY <1>13, <2>1 DEF MarkDirty, TypeOK
<1> QED
    BY <1>1, <1>2, <1>3, <1>4, <1>5, <1>6, <1>7, <1>8, <1>9, <1>10, <1>11, <1>12, <1>13
       DEF PollStep

(* And so does every other step.                                           *)
LEMMA TypeStep ==
    ASSUME TypeOK, PollInv, [Next]_vars
    PROVE  TypeOK'
<1> USE PollingAssumption DEF vars, mailbox, memory, outcome, life, polling, TypeOK, Flushes
<1>1. CASE Arrive
    BY <1>1 DEF Arrive
<1>2. ASSUME NEW m \in Mail, Read(m) PROVE TypeOK'
    BY <1>2 DEF Read, Flip, Mail
<1>3. ASSUME NEW p \in Polls, PollStep(p) PROVE TypeOK'
    BY <1>3, PollTypes
<1>4. ASSUME NEW f \in Flushes, FlushBegin(f) PROVE TypeOK'
    BY <1>4, Blanks DEF FlushType, FlushPCs, Flushing, Over, FlushBegin
<1>5. ASSUME NEW f \in Flushes, FlushCopy(f) PROVE TypeOK'
    BY <1>5, Blanks DEF FlushType, FlushPCs, Flushing, Over, FlushCopy
<1>6. ASSUME NEW f \in Flushes, FlushSave(f) PROVE TypeOK'
    BY <1>6, Blanks DEF FlushType, FlushPCs, Flushing, Over, FlushSave
<1>7. ASSUME NEW f \in Flushes, FlushFails(f) PROVE TypeOK'
    BY <1>7, Blanks DEF FlushType, FlushPCs, Flushing, Over, FlushFails
<1>8. ASSUME NEW f \in Flushes, FlushClear(f) PROVE TypeOK'
    BY <1>8, Blanks DEF FlushType, FlushPCs, Flushing, Over, FlushClear
<1>9. CASE StartContextEnds
    BY <1>9 DEF StartContextEnds
<1>10. CASE Stop
    BY <1>10 DEF Stop
<1>11. CASE Exit
    <2>1. restarts' \in Nat /\ up' = "down" /\ ticking' = FALSE /\ dirty' = FALSE
        BY <1>11 DEF Exit
    <2>2. entry' \in Memory /\ state' \in Memory /\ poll' \in [Polls -> PollType]
        BY <1>11, Blanks DEF Exit
    <2>3. flush' \in [Flushes -> FlushType]
        BY <1>11, Blanks DEF Exit
    <2> QED BY <1>11, <2>1, <2>2, <2>3 DEF Exit
<1>12. CASE Start
    BY <1>12 DEF Start
<1>13. CASE UNCHANGED vars
    BY <1>13 DEF vars
<1> QED
    BY <1>1, <1>2, <1>3, <1>4, <1>5, <1>6, <1>7, <1>8, <1>9, <1>10, <1>11, <1>12, <1>13
       DEF Next, FlushStep

-----------------------------------------------------------------------------
(* A step of a poll leaves a record that keeps what its next steps need.   *)
LEMMA PollFits ==
    ASSUME TypeOK, PollInv, NEW p \in Polls, PollStep(p)
    PROVE  /\ up # "down" /\ up' = up /\ Fits(poll'[p])
           /\ \A q \in Polls \ {p} : poll'[q] = poll[q]
<1> USE DEF life
<1>a. Fits(poll[p]) /\ poll[p] \in PollType
    BY DEF PollInv, TypeOK
<1>b. Fits(NoPoll) /\ NoPoll \in PollType
    BY Idle, Blanks DEF Fits
<1> DEFINE Goal == /\ up # "down" /\ up' = up /\ Fits(poll'[p])
                   /\ \A q \in Polls \ {p} : poll'[q] = poll[q]
<1>1. ASSUME PollStart(p) PROVE Goal
    <2> DEFINE r == [NoPoll EXCEPT !.pc = "list", !.cursor = entry.cursor]
    <2>1. PollGoes(p, "idle", r)
        BY <1>1 DEF PollStart
    <2>2. Fits(r)
        BY <1>b, Idle DEF Fits, PollType
    <2> QED BY <1>1, <2>1, <2>2, Goes DEF PollStart
<1>2. ASSUME ListFails(p) PROVE Goal
    BY <1>b, <1>2, Goes DEF ListFails
<1>3. ASSUME List(p) PROVE Goal
    <2>1. PICK page \in Pages, c \in 0..MaxMail :
             PollGoes(p, "list", [NoPoll EXCEPT !.pc = "diff", !.next = c, !.page = page])
        BY <1>3, Listing
    <2>2. Fits([NoPoll EXCEPT !.pc = "diff", !.next = c, !.page = page])
        BY <1>b, Idle DEF Fits, PollType
    <2> QED BY <1>3, <2>1, <2>2, Goes DEF List
<1>4. ASSUME Diff(p) PROVE Goal
    <2>1. Fits(Diffed(p))
        BY <1>a DEF Fits, Diffed, News, Paging, PollType
    <2> QED BY <1>4, <2>1, Goes DEF Diff
<1>5. ASSUME Emit(p) PROVE Goal
    <2>1. PICK m \in Last(poll[p].todo) : PollGoes(p, "emit", [poll[p] EXCEPT !.todo = @ \ {m}])
        BY <1>5 DEF Emit
    <2>2. poll[p].pc = "emit"
        BY <2>1 DEF PollGoes
    <2>3. Fits([poll[p] EXCEPT !.todo = @ \ {m}])
        BY <1>a, <2>2 DEF Fits, Paging, PollType
    <2> QED BY <1>5, <2>1, <2>3, Goes DEF Emit
<1>6. ASSUME EmitFails(p) PROVE Goal
    <2>1. Fits([poll[p] EXCEPT !.todo = {}])
        BY <1>a, <1>6 DEF Fits, Paging, PollType, EmitFails, PollGoes
    <2> QED BY <1>6, <2>1, Goes DEF EmitFails
<1>7. ASSUME Emitted(p) PROVE Goal
    <2> DEFINE r == [poll[p] EXCEPT !.pc = IF poll[p].marks = {} THEN "remember" ELSE "mark"]
    <2>1. PollGoes(p, "emit", r) /\ poll[p].todo = {}
        BY <1>7 DEF Emitted
    <2>2. Fits(r)
        BY <1>a, <2>1 DEF Fits, Paging, PollType
    <2> QED BY <1>7, <2>1, <2>2, Goes DEF Emitted
<1>8. ASSUME Mark(p) PROVE Goal
    <2>1. PICK m \in Last(poll[p].marks) : PollGoes(p, "mark", [poll[p] EXCEPT !.marks = @ \ {m}])
        BY <1>8 DEF Mark
    <2>2. Fits([poll[p] EXCEPT !.marks = @ \ {m}])
        BY <1>a DEF Fits, PollType
    <2> QED BY <1>8, <2>1, <2>2, Goes DEF Mark
<1>9. ASSUME Marked(p) PROVE Goal
    <2>1. Fits([poll[p] EXCEPT !.pc = "remember", !.marks = {}])
        BY <1>a, <1>9 DEF Fits, Paging, PollType, Marked, PollGoes
    <2> QED BY <1>9, <2>1, Goes DEF Marked
<1>10. ASSUME Remember(p) PROVE Goal
    <2>1. Fits([NoPoll EXCEPT !.pc = "copy"])
        BY <1>b, Idle DEF Fits, PollType
    <2> QED BY <1>10, <2>1, Goes DEF Remember
<1>11. ASSUME Copy(p) PROVE Goal
    <2>1. Fits([NoPoll EXCEPT !.pc = "update", !.copy = entry])
        BY <1>b, Idle DEF Fits, PollType
    <2> QED BY <1>11, <2>1, Goes DEF Copy
<1>12. ASSUME Update(p) PROVE Goal
    <2>1. Fits([NoPoll EXCEPT !.pc = "dirty"])
        BY <1>b, Idle DEF Fits, PollType
    <2> QED BY <1>12, <2>1, Goes DEF Update
<1>13. ASSUME MarkDirty(p) PROVE Goal
    BY <1>b, <1>13, Goes DEF MarkDirty
<1> QED
    BY <1>1, <1>2, <1>3, <1>4, <1>5, <1>6, <1>7, <1>8, <1>9, <1>10, <1>11, <1>12, <1>13
       DEF PollStep

(* So does every step.                                                     *)
LEMMA PollKeeps ==
    ASSUME TypeOK, PollInv, [Next]_vars
    PROVE  PollInv'
<1> USE DEF vars, mailbox, memory, outcome, life, polling
<1>1. CASE Arrive
    BY <1>1 DEF Arrive, PollInv
<1>2. ASSUME NEW m \in Mail, Read(m) PROVE PollInv'
    BY <1>2 DEF Read, PollInv
<1>3. ASSUME NEW p \in Polls, PollStep(p) PROVE PollInv'
    BY <1>3, PollFits DEF PollInv
<1>4. ASSUME NEW f \in Flushes, FlushStep(f) PROVE PollInv'
    BY <1>4 DEF Flushing, FlushStep, FlushBegin, FlushCopy, FlushSave, FlushFails, FlushClear, PollInv
<1>5. CASE StartContextEnds
    BY <1>5 DEF StartContextEnds, PollInv
<1>6. CASE Stop
    BY <1>6 DEF Stop, PollInv
<1>7. CASE Exit
    BY <1>7, Idle DEF Exit, PollInv, Fits
<1>8. CASE Start
    BY <1>8 DEF Start, PollInv
<1>9. CASE UNCHANGED vars
    BY <1>9 DEF vars, PollInv
<1> QED BY <1>1, <1>2, <1>3, <1>4, <1>5, <1>6, <1>7, <1>8, <1>9 DEF Next

-----------------------------------------------------------------------------
(* What a memory knows, and what a poll has compared, was handed over.     *)
Covered(k) == \A m \in Mail : k.known[m] # None => <<m, k.known[m]>> \in handed
Filled(r) ==
    r.pc \in Paging => \A m \in (DOMAIN r.page) \ r.todo : <<m, r.page[m]>> \in handed

(* What a step of a poll has to show for it.                               *)
LEMMA HandedFrame ==
    ASSUME KnownWasHandedOver, PageInv, NEW p \in Polls, handed \subseteq handed',
           \A q \in Polls \ {p} : poll'[q] = poll[q], flush' = flush, row' = row,
           Covered(entry)', Covered(state)', Covered(poll[p].copy)', Filled(poll[p])'
    PROVE  KnownWasHandedOver' /\ PageInv'
<1>1. \A q \in Polls : Covered(poll[q].copy)'
    BY DEF KnownWasHandedOver, Covered
<1>2. Covered(row)' /\ \A f \in Flushes : Covered(flush[f].copy)'
    BY DEF KnownWasHandedOver, Covered
<1>3. KnownWasHandedOver'
    BY <1>1, <1>2 DEF KnownWasHandedOver, Covered
<1>4. PageInv'
    BY DEF PageInv, Filled
<1> QED BY <1>3, <1>4

(* Nothing is known that was not handed over, whatever a poll does.        *)
LEMMA HandedPoll ==
    ASSUME TypeOK, PollInv, KnownWasHandedOver, PageInv, NEW p \in Polls, PollStep(p)
    PROVE  KnownWasHandedOver' /\ PageInv'
<1> USE DEF mailbox, memory, outcome, life
<1> DEFINE Goal == KnownWasHandedOver' /\ PageInv'
<1>a. poll[p] \in PollType /\ Fits(poll[p]) /\ \A q \in Polls \ {p} : poll'[q] = poll[q]
    BY PollFits DEF TypeOK, PollInv
<1>b. Covered(entry) /\ Covered(state) /\ Covered(poll[p].copy) /\ Covered(Blank)
    BY DEF KnownWasHandedOver, Covered, Blank
<1>c. Filled(poll[p])
    BY DEF PageInv, Filled
<1>d. ASSUME UNCHANGED <<entry, state, flush, row>>, handed \subseteq handed',
             poll'[p].copy \in {poll[p].copy, entry, Blank}, Filled(poll[p])'
      PROVE  Goal
    <2>1. Covered(entry)' /\ Covered(state)' /\ Covered(poll[p].copy)'
        BY <1>b, <1>d DEF Covered
    <2> QED BY <1>a, <1>d, <2>1, HandedFrame
<1>1. ASSUME PollStart(p) PROVE Goal
    <2> DEFINE r == [NoPoll EXCEPT !.pc = "list", !.cursor = entry.cursor]
    <2>1. PollGoes(p, "idle", r) /\ UNCHANGED <<entry, state, flush, row, handed>>
        BY <1>1 DEF PollStart
    <2>2. r.pc = "list" /\ r.copy = Blank
        BY Idle, Blanks DEF PollType
    <2> HIDE DEF r
    <2>3. poll'[p] = r
        BY <2>1, Goes
    <2> QED BY <1>d, <2>1, <2>2, <2>3 DEF Filled, Paging
<1>2. ASSUME ListFails(p) PROVE Goal
    <2>1. poll'[p] = NoPoll /\ UNCHANGED <<entry, state, flush, row, handed>>
        BY <1>2, Goes DEF ListFails
    <2> QED BY <1>d, <2>1, Idle DEF Filled, Paging
<1>3. ASSUME List(p) PROVE Goal
    <2>1. PICK page \in Pages, c \in 0..MaxMail :
             PollGoes(p, "list", [NoPoll EXCEPT !.pc = "diff", !.next = c, !.page = page])
        BY <1>3, Listing
    <2>2. poll'[p] = [NoPoll EXCEPT !.pc = "diff", !.next = c, !.page = page]
        BY <2>1, Goes
    <2>3. poll'[p].pc = "diff" /\ poll'[p].copy = Blank
        BY <2>2, Idle, Blanks DEF PollType
    <2> QED BY <1>3, <1>d, <2>3 DEF List, Filled, Paging
<1>4. ASSUME Diff(p) PROVE Goal
    <2>1. poll'[p] = Diffed(p) /\ UNCHANGED <<entry, state, flush, row, handed>>
        BY <1>4, Goes DEF Diff
    <2>2. /\ poll'[p].page = poll[p].page /\ poll'[p].todo = News(poll[p].page)
          /\ poll'[p].copy = poll[p].copy
        BY <1>a, <2>1 DEF Diffed, PollType
    <2>3. \A m \in (DOMAIN poll[p].page) \ News(poll[p].page) : <<m, poll[p].page[m]>> \in handed
        <3> TAKE m \in (DOMAIN poll[p].page) \ News(poll[p].page)
        <3>1. m \in Mail /\ poll[p].page[m] \in BOOLEAN
            BY <1>a, PageType DEF PollType
        <3>2. entry.known[m] = poll[p].page[m]
            BY DEF News
        <3> QED BY <1>b, <3>1, <3>2, PollingAssumption DEF Covered
    <2> QED BY <1>d, <2>1, <2>2, <2>3 DEF Filled
<1>5. ASSUME Emit(p) PROVE Goal
    <2>1. PICK m \in Last(poll[p].todo) :
             PollGoes(p, "emit", [poll[p] EXCEPT !.todo = @ \ {m}]) /\ Hand(p, {m})
        BY <1>5 DEF Emit
    <2>2. handed' = handed \cup {<<m, poll[p].page[m]>>}
        BY <2>1 DEF Hand
    <2>3. poll'[p] = [poll[p] EXCEPT !.todo = @ \ {m}] /\ poll[p].pc = "emit"
        BY <2>1, Goes
    <2>4. Filled(poll[p])' /\ poll'[p].copy = poll[p].copy
        BY <1>a, <1>c, <2>2, <2>3 DEF Filled, Paging, PollType
    <2> QED BY <1>5, <1>d, <2>2, <2>4 DEF Emit
<1>6. ASSUME EmitFails(p) PROVE Goal
    <2>1. handed' = handed \cup {<<m, poll[p].page[m]>> : m \in poll[p].todo}
        BY <1>6 DEF EmitFails, Hand
    <2>2. poll'[p] = [poll[p] EXCEPT !.todo = {}] /\ poll[p].pc = "emit"
        BY <1>6, Goes DEF EmitFails
    <2>3. Filled(poll[p])' /\ poll'[p].copy = poll[p].copy
        BY <1>a, <1>c, <2>1, <2>2 DEF Filled, Paging, PollType
    <2> QED BY <1>6, <1>d, <2>1, <2>3 DEF EmitFails
<1>7. ASSUME Emitted(p) PROVE Goal
    <2> DEFINE r == [poll[p] EXCEPT !.pc = IF poll[p].marks = {} THEN "remember" ELSE "mark"]
    <2>1. PollGoes(p, "emit", r) /\ UNCHANGED <<entry, state, flush, row, handed>>
        BY <1>7 DEF Emitted
    <2>2. r.page = poll[p].page /\ r.todo = poll[p].todo /\ r.copy = poll[p].copy
        BY <1>a DEF PollType
    <2> HIDE DEF r
    <2>3. poll'[p] = r /\ poll[p].pc = "emit"
        BY <2>1, Goes
    <2> QED BY <1>c, <1>d, <2>1, <2>2, <2>3 DEF Filled, Paging
<1>8. ASSUME Mark(p) PROVE Goal
    <2>1. PICK m \in Last(poll[p].marks) : PollGoes(p, "mark", [poll[p] EXCEPT !.marks = @ \ {m}])
        BY <1>8 DEF Mark
    <2>2. Filled(poll[p])' /\ poll'[p].copy = poll[p].copy
        BY <1>8, <1>a, <1>c, <2>1, Goes DEF Mark, Filled, Paging, PollType
    <2> QED BY <1>8, <1>d, <2>2 DEF Mark
<1>9. ASSUME Marked(p) PROVE Goal
    <2>1. /\ poll'[p] = [poll[p] EXCEPT !.pc = "remember", !.marks = {}]
          /\ poll[p].pc = "mark" /\ handed' = handed
        BY <1>9, Goes DEF Marked
    <2>2. Filled(poll[p])' /\ poll'[p].copy = poll[p].copy
        BY <1>a, <1>c, <2>1 DEF Filled, Paging, PollType
    <2> QED BY <1>9, <1>d, <2>2 DEF Marked
<1>10. ASSUME Remember(p) PROVE Goal
    <2>1. poll[p].pc = "remember" /\ poll'[p] = [NoPoll EXCEPT !.pc = "copy"]
        BY <1>10, Goes DEF Remember
    <2>2. \A m \in Mail : entry'.known[m] = IF m \in DOMAIN poll[p].page
                                            THEN poll[p].page[m] ELSE entry.known[m]
        BY <1>10 DEF Remember, Learn
    <2>3. Covered(entry)
        BY <1>b
    <2>4. \A m \in DOMAIN poll[p].page : <<m, poll[p].page[m]>> \in handed
        BY <1>a, <1>c, <2>1 DEF Fits, Filled, Paging
    <2>5. Covered(entry)'
        BY <1>10, <2>2, <2>3, <2>4 DEF Covered, Remember
    <2>6. Covered(state)' /\ Covered(poll[p].copy)'
        BY <1>10, <1>b, <2>1, Idle, Blanks DEF Covered, Remember, PollType
    <2>7. Filled(poll[p])'
        BY <2>1, Idle, Blanks DEF Filled, Paging, PollType
    <2> QED BY <1>10, <1>a, <2>5, <2>6, <2>7, HandedFrame DEF Remember
<1>11. ASSUME Copy(p) PROVE Goal
    <2>1. poll'[p] = [NoPoll EXCEPT !.pc = "update", !.copy = entry]
        BY <1>11, Goes DEF Copy
    <2>2. poll'[p].pc = "update" /\ poll'[p].copy = entry
        BY <2>1, Blanks DEF PollType
    <2> QED BY <1>11, <1>d, <2>2 DEF Copy, Filled, Paging
<1>12. ASSUME Update(p) PROVE Goal
    <2>1. poll'[p].pc = "dirty" /\ poll'[p].copy = Blank
        BY <1>12, Goes, Idle, Blanks DEF Update, PollType
    <2>2. Covered(entry)' /\ Covered(state)' /\ Covered(poll[p].copy)' /\ Filled(poll[p])'
        BY <1>12, <1>b, <2>1 DEF Update, Covered, Filled, Paging
    <2> QED BY <1>12, <1>a, <2>2, HandedFrame DEF Update
<1>13. ASSUME MarkDirty(p) PROVE Goal
    <2>1. poll'[p] = NoPoll
        BY <1>13, Goes DEF MarkDirty
    <2> QED BY <1>13, <1>d, <2>1, Idle DEF MarkDirty, Filled, Paging
<1> QED
    BY <1>1, <1>2, <1>3, <1>4, <1>5, <1>6, <1>7, <1>8, <1>9, <1>10, <1>11, <1>12, <1>13
       DEF PollStep

(* Nor whatever else happens.                                              *)
LEMMA HandedStep ==
    ASSUME TypeOK, PollInv, KnownWasHandedOver, PageInv, [Next]_vars
    PROVE  KnownWasHandedOver' /\ PageInv'
<1> USE DEF vars, mailbox, memory, outcome, life, polling, KnownWasHandedOver
<1>a. \A m \in Mail : Blank.known[m] = None
    BY DEF Blank
<1>1. CASE Arrive
    BY <1>1 DEF Arrive, PageInv
<1>2. ASSUME NEW m \in Mail, Read(m) PROVE KnownWasHandedOver' /\ PageInv'
    BY <1>2 DEF Read, PageInv
<1>3. ASSUME NEW p \in Polls, PollStep(p) PROVE KnownWasHandedOver' /\ PageInv'
    BY <1>3, HandedPoll
<1>4. ASSUME NEW f \in Flushes, FlushStep(f) PROVE KnownWasHandedOver' /\ PageInv'
    <2>1. \A g \in Flushes : flush'[g].copy \in {flush[g].copy, state, Blank}
        BY <1>4 DEF FlushStep, FlushBegin, FlushCopy, FlushSave, FlushFails, FlushClear,
                    Flushing, TypeOK, FlushType
    <2>2. row' \in {row, flush[f].copy} /\ UNCHANGED <<entry, state, poll, handed>>
        BY <1>4 DEF FlushStep, FlushBegin, FlushCopy, FlushSave, FlushFails, FlushClear
    <2> QED BY <1>a, <2>1, <2>2 DEF PageInv
<1>5. CASE StartContextEnds
    BY <1>5 DEF StartContextEnds, PageInv
<1>6. CASE Stop
    BY <1>6 DEF Stop, PageInv
<1>7. CASE Exit
    <2>1. \A p \in Polls : poll'[p].pc = "idle" /\ poll'[p].copy = Blank
        BY <1>7, Idle DEF Exit
    <2>2. \A f \in Flushes : flush'[f].copy = Blank
        BY <1>7 DEF Exit, NoFlush
    <2> QED BY <1>7, <1>a, <2>1, <2>2 DEF Exit, PageInv, Paging
<1>8. CASE Start
    BY <1>8 DEF Start, PageInv
<1>9. CASE UNCHANGED vars
    BY <1>9 DEF vars, PageInv
<1> QED BY <1>1, <1>2, <1>3, <1>4, <1>5, <1>6, <1>7, <1>8, <1>9 DEF Next

-----------------------------------------------------------------------------
(* The polls of a set can be counted.                                      *)
LEMMA Countable ==
    ASSUME NEW S \in SUBSET Polls
    PROVE  IsFiniteSet(S) /\ Cardinality(S) \in Nat
<1>1. IsFiniteSet(Polls)
    BY FS_Interval, PollingAssumption DEF Polls
<1> QED BY <1>1, FS_Subset, FS_CardinalityType

(* How many there are with and without one of them.                        *)
LEMMA Sizes ==
    ASSUME NEW S \in SUBSET Polls, NEW p \in Polls
    PROVE  /\ Cardinality(S) \in Nat /\ Cardinality(S \ {p}) \in Nat
           /\ Cardinality(S) = Cardinality(S \ {p}) + (IF p \in S THEN 1 ELSE 0)
<1>1. Cardinality(S) \in Nat /\ Cardinality(S \ {p}) \in Nat
    BY Countable
<1>2. Cardinality(S \ {p}) = IF p \in S THEN Cardinality(S) - 1 ELSE Cardinality(S)
    BY Countable, FS_RemoveElement
<1> QED BY <1>1, <1>2

(* The types of the parts of the account.                                  *)
LEMMA Amounts ==
    ASSUME NEW p, NEW m
    PROVE  /\ Owed(p, m) \in 0..1 /\ Unsettled(m) \in 0..1 /\ Distance(p, m) \in 0..2
           /\ \A h : Differ(h, m) \in 0..1
BY DEF Owed, Unsettled, Distance, Differ

(* No hash is not the hash of a message.                                   *)
LEMMA SeenType ==
    ASSUME NEW m \in Mail
    PROVE  Seen(m) \in BOOLEAN /\ Seen(m) # None
<1> DEFINE g == [n \in Mail |-> n \in seen]
<1>1. g \in [Mail -> BOOLEAN]
    OBVIOUS
<1>2. g[m] = Seen(m)
    BY DEF Seen
<1> QED BY <1>1, <1>2, PollingAssumption

(* A poll that does nothing neither owes an event nor holds a page.        *)
LEMMA Rests ==
    ASSUME PollInv, NEW p \in Polls, poll[p].pc = "idle"
    PROVE  poll[p].todo = {} /\ DOMAIN poll[p].page = {} /\ \A m : ~Owes(p, m)
BY DEF PollInv, Fits, Paging, Owes

(* What a step of a poll under way does to the account of a message: it    *)
(* spends what it owes on the event, it ends agreement only with a change  *)
(* of the flag, and no step brings the poll further from the flag.  When   *)
(* the poll ends, the entry says what is left.                             *)
Charge(p, m) ==
    /\ flips'[m] \in {flips[m], flips[m] + 1}
    /\ events'[m] + Owed(p, m)' <= events[m] + Owed(p, m)
    /\ flips'[m] = flips[m] /\ Agrees(m) => Agrees(m)'
    /\ IF poll'[p].pc # "idle"
       THEN events'[m] + Distance(p, m)' <= events[m] + Distance(p, m) + (flips'[m] - flips[m])
       ELSE /\ events' = events /\ flips' = flips /\ entry' = entry /\ seen' = seen
            /\ Distance(p, m) = Differ(entry.known[m], m)

(* A step that leaves the mailbox, the entry and the events alone, and the *)
(* poll with the same page and the same events to emit.                    *)
LEMMA Quiet ==
    ASSUME TypeOK, PollInv, NEW p \in Polls, NEW m \in Mail,
           UNCHANGED <<seen, flips, entry, events>>,
           \A q \in Polls \ {p} : poll'[q] = poll[q],
           poll'[p].todo = poll[p].todo, poll'[p].page = poll[p].page,
           poll[p].pc \notin {"list", "diff"}, poll'[p].pc \notin {"idle", "list", "diff"}
    PROVE  Charge(p, m)
<1>1. Owed(p, m)' = Owed(p, m) /\ Distance(p, m)' = Distance(p, m)
    BY DEF Owed, Owes, Distance, Pending, Hash, Differ, Seen
<1>2. Agrees(m) => Agrees(m)'
    BY DEF Agrees, Seen
<1> QED BY <1>1, <1>2, Amounts DEF Charge, TypeOK

LEMMA Charged ==
    ASSUME TypeOK, PollInv, NEW p \in Polls, NEW m \in Mail, PollStep(p), ~PollStart(p)
    PROVE  /\ Charge(p, m) /\ poll[p].pc # "idle"
           /\ UNCHANGED <<restarts, overlaps>> /\ events'[m] \in Nat
<1> USE DEF mailbox, memory, outcome, life, polling
<1> DEFINE Goal == /\ Charge(p, m) /\ poll[p].pc # "idle"
                   /\ UNCHANGED <<restarts, overlaps>> /\ events'[m] \in Nat
<1>a. /\ poll[p] \in PollType /\ Fits(poll[p]) /\ poll' \in [Polls -> PollType]
      /\ \A q \in Polls \ {p} : poll'[q] = poll[q]
    BY PollFits, PollTypes DEF TypeOK, PollInv
<1>b. events[m] \in Nat /\ events'[m] \in Nat /\ flips[m] \in Nat
    BY PollTypes DEF TypeOK
<1>c. DOMAIN poll[p].page \subseteq Mail
    BY <1>a, PageType DEF PollType
<1>2. ASSUME ListFails(p) PROVE Goal
    <2>1. /\ poll[p].pc = "list" /\ poll'[p] = NoPoll
          /\ UNCHANGED <<restarts, overlaps, seen, flips, entry, events>>
        BY <1>2, Goes DEF ListFails
    <2>2. poll[p].todo = {} /\ DOMAIN poll[p].page = {}
        BY <1>a, <2>1 DEF Fits, Paging
    <2>3. Distance(p, m) = Differ(entry.known[m], m)
        BY <2>1, <2>2, Amounts DEF Distance, Pending, Hash
    <2>4. Owed(p, m) = 1 /\ Owed(p, m)' = 0
        BY <2>1, Idle DEF Owed, Owes
    <2>5. Agrees(m) => Agrees(m)'
        BY <1>a, <2>1, Idle DEF Agrees, Seen
    <2> QED BY <1>b, <2>1, <2>3, <2>4, <2>5, Idle DEF Charge
<1>3. ASSUME List(p) PROVE Goal
    <2>1. PICK page \in Pages, c \in 0..MaxMail :
             /\ \A n \in DOMAIN page : page[n] = Seen(n)
             /\ PollGoes(p, "list", [NoPoll EXCEPT !.pc = "diff", !.next = c, !.page = page])
        BY <1>3, Listing
    <2>2. poll'[p] = [NoPoll EXCEPT !.pc = "diff", !.next = c, !.page = page] /\ poll[p].pc = "list"
        BY <2>1, Goes
    <2>3. poll'[p].pc = "diff" /\ poll'[p].page = page /\ poll'[p].todo = {}
        BY <2>2, Idle, Blanks DEF PollType
    <2>4. poll[p].todo = {} /\ DOMAIN poll[p].page = {}
        BY <1>a, <2>2 DEF Fits, Paging
    <2>5. UNCHANGED <<restarts, overlaps, seen, flips, entry, events>>
        BY <1>3 DEF List
    <2>6. Owed(p, m) = 1 /\ Owed(p, m)' = 1
        BY <2>2, <2>3 DEF Owed, Owes
    <2>7. Agrees(m) => Agrees(m)'
        BY <1>a, <2>1, <2>3, <2>5 DEF Agrees, Seen
    <2>8. Distance(p, m) = Differ(entry.known[m], m)
        BY <2>2, <2>4, Amounts DEF Distance, Pending, Hash
    <2>9. Distance(p, m)' = Differ(entry.known[m], m)
        <3>1. m \in News(page)' <=> m \in DOMAIN page /\ entry.known[m] # Seen(m)
            BY <2>1, <2>5 DEF News
        <3>2. CASE m \in DOMAIN page
            BY <2>1, <2>3, <2>5, <3>1, <3>2 DEF Distance, Pending, Hash, Differ, Seen, News
        <3>3. CASE m \notin DOMAIN page
            BY <2>3, <2>5, <3>1, <3>3, Amounts DEF Distance, Pending, Hash, Differ, Seen, News
        <3> QED BY <3>2, <3>3
    <2> QED BY <1>b, <2>2, <2>3, <2>5, <2>6, <2>7, <2>8, <2>9, Amounts DEF Charge
<1>4. ASSUME Diff(p) PROVE Goal
    <2>1. poll'[p] = Diffed(p) /\ poll[p].pc = "diff"
        BY <1>4, Goes DEF Diff
    <2>2. /\ poll'[p].page = poll[p].page /\ poll'[p].todo = News(poll[p].page)
          /\ poll'[p].pc = "emit"
        BY <1>a, <2>1 DEF Diffed, PollType
    <2>3. UNCHANGED <<restarts, overlaps, seen, flips, entry, events>>
        BY <1>4 DEF Diff
    <2>4. Owed(p, m) = 1
        BY <2>1 DEF Owed, Owes
    <2>5. Agrees(m) => Agrees(m)'
        BY <1>a, <2>2, <2>3 DEF Agrees, Seen
    <2>6. poll[p].todo = {}
        BY <1>a, <2>1 DEF Fits
    <2>7. Distance(p, m)' = Distance(p, m)
        BY <2>1, <2>2, <2>3, <2>6 DEF Distance, Pending, Hash, Differ, Seen
    <2>8. Owed(p, m)' \in 0..1
        BY DEF Owed
    <2> QED BY <1>b, <2>1, <2>2, <2>3, <2>4, <2>5, <2>7, <2>8, Amounts DEF Charge
<1>5. ASSUME Emit(p) PROVE Goal
    <2>1. PICK n \in Last(poll[p].todo) :
             PollGoes(p, "emit", [poll[p] EXCEPT !.todo = @ \ {n}]) /\ Stored(n)
        BY <1>5 DEF Emit
    <2>2. n \in poll[p].todo /\ poll[p].pc = "emit" /\ poll'[p] = [poll[p] EXCEPT !.todo = @ \ {n}]
        BY <2>1, Goes DEF Last
    <2>3. /\ poll'[p].page = poll[p].page /\ poll'[p].todo = poll[p].todo \ {n}
          /\ poll'[p].pc = "emit"
        BY <1>a, <2>2 DEF PollType
    <2>4. UNCHANGED <<restarts, overlaps, seen, flips, entry>>
        BY <1>5 DEF Emit
    <2>5. events'[m] = events[m] + (IF n = m THEN 1 ELSE 0)
        BY <2>1 DEF Stored, TypeOK
    <2>6. Owed(p, m)' = Owed(p, m) - (IF n = m THEN 1 ELSE 0)
        BY <2>2, <2>3 DEF Owed, Owes
    <2>7. Distance(p, m)' = Distance(p, m) - (IF n = m THEN 1 ELSE 0)
        <3>1. Differ(Hash(p, m), m)' = Differ(Hash(p, m), m)
            BY <2>3, <2>4 DEF Hash, Differ, Seen
        <3>2. /\ Pending(p, m) <=> m \in poll[p].todo
              /\ Pending(p, m)' <=> m \in poll[p].todo /\ m # n
            BY <2>2, <2>3 DEF Pending
        <3> QED BY <2>2, <3>1, <3>2, Amounts DEF Distance
    <2>8. Agrees(m) => Agrees(m)'
        BY <1>a, <2>3, <2>4 DEF Agrees, Seen
    <2> QED BY <1>b, <2>2, <2>3, <2>4, <2>5, <2>6, <2>7, <2>8, Amounts DEF Charge
<1>6. ASSUME EmitFails(p) PROVE Goal
    <2>1. poll[p].pc = "emit" /\ poll'[p] = [poll[p] EXCEPT !.todo = {}]
        BY <1>6, Goes DEF EmitFails
    <2>2. poll'[p].page = poll[p].page /\ poll'[p].todo = {} /\ poll'[p].pc = "emit"
        BY <1>a, <2>1 DEF PollType
    <2>3. UNCHANGED <<restarts, overlaps, seen, flips, entry>>
        BY <1>6 DEF EmitFails
    <2>4. events'[m] <= events[m] + (IF m \in poll[p].todo THEN 1 ELSE 0)
        BY <1>6 DEF EmitFails, Last, Stored, TypeOK
    <2>5. Owed(p, m)' = Owed(p, m) - (IF m \in poll[p].todo THEN 1 ELSE 0)
        BY <2>1, <2>2 DEF Owed, Owes
    <2>6. Distance(p, m)' = Distance(p, m) - (IF m \in poll[p].todo THEN 1 ELSE 0)
        <3>1. Differ(Hash(p, m), m)' = Differ(Hash(p, m), m)
            BY <2>2, <2>3 DEF Hash, Differ, Seen
        <3>2. (Pending(p, m) <=> m \in poll[p].todo) /\ ~Pending(p, m)'
            BY <2>1, <2>2 DEF Pending
        <3> QED BY <3>1, <3>2, Amounts DEF Distance
    <2>7. Agrees(m) => Agrees(m)'
        BY <1>a, <2>2, <2>3 DEF Agrees, Seen
    <2> QED BY <1>b, <2>1, <2>2, <2>3, <2>4, <2>5, <2>6, <2>7, Amounts DEF Charge
<1>7. ASSUME Emitted(p) PROVE Goal
    <2> DEFINE r == [poll[p] EXCEPT !.pc = IF poll[p].marks = {} THEN "remember" ELSE "mark"]
    <2>1. PollGoes(p, "emit", r) /\ UNCHANGED <<restarts, overlaps, seen, flips, entry, events>>
        BY <1>7 DEF Emitted
    <2>2. r.page = poll[p].page /\ r.todo = poll[p].todo /\ r.pc \in {"remember", "mark"}
        BY <1>a DEF PollType
    <2> HIDE DEF r
    <2>3. poll'[p] = r /\ poll[p].pc = "emit"
        BY <2>1, Goes
    <2> QED BY <1>a, <1>b, <2>1, <2>2, <2>3, Quiet
<1>8. ASSUME Mark(p) PROVE Goal
    <2>1. PICK n \in Last(poll[p].marks) :
             PollGoes(p, "mark", [poll[p] EXCEPT !.marks = @ \ {n}]) /\ Flip({n} \ seen)
        BY <1>8 DEF Mark
    <2>2. poll[p].pc = "mark" /\ poll'[p] = [poll[p] EXCEPT !.marks = @ \ {n}]
        BY <2>1, Goes
    <2>3. poll'[p].page = poll[p].page /\ poll'[p].todo = poll[p].todo /\ poll'[p].pc = "mark"
        BY <1>a, <2>2 DEF PollType
    <2>4. UNCHANGED <<restarts, overlaps, entry, events>>
        BY <1>8 DEF Mark
    <2>5. flips'[m] = flips[m] + (IF m \in {n} \ seen THEN 1 ELSE 0)
        BY <2>1 DEF Flip
    <2>6. m \notin {n} \ seen => Seen(m)' = Seen(m)
        BY <2>1 DEF Flip, Seen
    <2>7. Owed(p, m)' = Owed(p, m)
        BY <2>2, <2>3 DEF Owed, Owes
    <2>8. flips'[m] = flips[m] /\ Agrees(m) => Agrees(m)'
        BY <1>a, <1>b, <2>3, <2>4, <2>5, <2>6 DEF Agrees
    <2>9. Distance(p, m)' <= Distance(p, m) + (IF m \in {n} \ seen THEN 1 ELSE 0)
        <3>1. (Pending(p, m)' <=> Pending(p, m)) /\ Hash(p, m)' = Hash(p, m)
            BY <2>2, <2>3, <2>4 DEF Pending, Hash
        <3>2. Seen(m)' # Seen(m) => m \in {n} \ seen
            BY <2>6
        <3> QED BY <3>1, <3>2 DEF Distance, Differ
    <2>10. Distance(p, m)' \in 0..2
        BY DEF Distance, Differ
    <2> QED BY <1>b, <2>2, <2>3, <2>4, <2>5, <2>7, <2>8, <2>9, <2>10, Amounts DEF Charge
<1>9. ASSUME Marked(p) PROVE Goal
    <2>1. /\ poll'[p] = [poll[p] EXCEPT !.pc = "remember", !.marks = {}] /\ poll[p].pc = "mark"
          /\ UNCHANGED <<restarts, overlaps, seen, flips, entry, events>>
        BY <1>9, Goes DEF Marked
    <2>2. /\ poll'[p].page = poll[p].page /\ poll'[p].todo = poll[p].todo
          /\ poll'[p].pc = "remember"
        BY <1>a, <2>1 DEF PollType
    <2> QED BY <1>a, <1>b, <2>1, <2>2, Quiet
<1>10. ASSUME Remember(p) PROVE Goal
    <2>1. /\ poll[p].pc = "remember" /\ poll'[p] = [NoPoll EXCEPT !.pc = "copy"]
          /\ UNCHANGED <<restarts, overlaps, seen, flips, events>>
        BY <1>10, Goes DEF Remember
    <2>2. poll'[p].pc = "copy" /\ DOMAIN poll'[p].page = {} /\ poll'[p].todo = {}
        BY <2>1, Idle, Blanks DEF PollType
    <2>3. poll[p].todo = {}
        BY <1>a, <2>1 DEF Fits
    <2>4. entry'.known[m] = Hash(p, m)
        BY <1>10 DEF Remember, Learn, Hash
    <2>5. Owed(p, m) = 0 /\ Owed(p, m)' = 0
        BY <2>1, <2>2, <2>3 DEF Owed, Owes
    <2>6. Agrees(m) => Agrees(m)'
        <3>1. ASSUME Agrees(m) PROVE entry'.known[m] = Seen(m)
            BY <2>4, <3>1 DEF Agrees, Hash
        <3> QED BY <1>a, <2>1, <2>2, <3>1 DEF Agrees, Seen
    <2>7. Distance(p, m)' = Distance(p, m)
        <3>1. Hash(p, m)' = Hash(p, m)
            BY <2>2, <2>4 DEF Hash
        <3>2. ~Pending(p, m) /\ ~Pending(p, m)'
            BY <2>1, <2>2, <2>3 DEF Pending
        <3> QED BY <2>1, <3>1, <3>2 DEF Distance, Differ, Seen
    <2> QED BY <1>b, <2>1, <2>2, <2>5, <2>6, <2>7, Amounts DEF Charge
<1>11. ASSUME Copy(p) PROVE Goal
    <2>1. /\ poll'[p] = [NoPoll EXCEPT !.pc = "update", !.copy = entry] /\ poll[p].pc = "copy"
          /\ UNCHANGED <<restarts, overlaps, seen, flips, entry, events>>
        BY <1>11, Goes DEF Copy
    <2>2. poll'[p].pc = "update" /\ DOMAIN poll'[p].page = {} /\ poll'[p].todo = {}
        BY <2>1, Idle, Blanks DEF PollType
    <2>3. DOMAIN poll[p].page = {} /\ poll[p].todo = {}
        BY <1>a, <2>1 DEF Fits, Paging
    <2>4. Owed(p, m)' = Owed(p, m) /\ Distance(p, m)' = Distance(p, m)
        BY <2>1, <2>2, <2>3 DEF Owed, Owes, Distance, Pending, Hash, Differ, Seen
    <2>5. Agrees(m) => Agrees(m)'
        BY <1>a, <2>1, <2>2 DEF Agrees, Seen
    <2> QED BY <1>b, <2>1, <2>2, <2>4, <2>5, Amounts DEF Charge
<1>12. ASSUME Update(p) PROVE Goal
    <2>1. /\ poll'[p] = [NoPoll EXCEPT !.pc = "dirty"] /\ poll[p].pc = "update"
          /\ UNCHANGED <<restarts, overlaps, seen, flips, entry, events>>
        BY <1>12, Goes DEF Update
    <2>2. poll'[p].pc = "dirty" /\ DOMAIN poll'[p].page = {} /\ poll'[p].todo = {}
        BY <2>1, Idle, Blanks DEF PollType
    <2>3. DOMAIN poll[p].page = {} /\ poll[p].todo = {}
        BY <1>a, <2>1 DEF Fits, Paging
    <2>4. Owed(p, m)' = Owed(p, m) /\ Distance(p, m)' = Distance(p, m)
        BY <2>1, <2>2, <2>3 DEF Owed, Owes, Distance, Pending, Hash, Differ, Seen
    <2>5. Agrees(m) => Agrees(m)'
        BY <1>a, <2>1, <2>2 DEF Agrees, Seen
    <2> QED BY <1>b, <2>1, <2>2, <2>4, <2>5, Amounts DEF Charge
<1>13. ASSUME MarkDirty(p) PROVE Goal
    <2>1. /\ poll[p].pc = "dirty" /\ poll'[p] = NoPoll
          /\ UNCHANGED <<restarts, overlaps, seen, flips, entry, events>>
        BY <1>13, Goes DEF MarkDirty
    <2>2. poll[p].todo = {} /\ DOMAIN poll[p].page = {}
        BY <1>a, <2>1 DEF Fits, Paging
    <2>3. Distance(p, m) = Differ(entry.known[m], m)
        BY <2>1, <2>2, Amounts DEF Distance, Pending, Hash
    <2>4. Owed(p, m) = 0 /\ Owed(p, m)' = 0
        BY <2>1, <2>2, Idle DEF Owed, Owes
    <2>5. Agrees(m) => Agrees(m)'
        BY <1>a, <2>1, Idle DEF Agrees, Seen
    <2> QED BY <1>b, <2>1, <2>3, <2>4, <2>5, Idle DEF Charge
<1> QED
    BY <1>2, <1>3, <1>4, <1>5, <1>6, <1>7, <1>8, <1>9, <1>10, <1>11, <1>12, <1>13
       DEF PollStep

(* A step of a poll under way keeps the account of every message.          *)
LEMMA BalanceBusy ==
    ASSUME TypeOK, PollInv, NEW p \in Polls, NEW m \in Mail, PollStep(p), ~PollStart(p),
           Balance(m)
    PROVE  Balance(m)'
<1>a. /\ Charge(p, m) /\ poll[p].pc # "idle" /\ UNCHANGED <<restarts, overlaps>>
      /\ events[m] \in Nat /\ events'[m] \in Nat /\ flips[m] \in Nat /\ restarts \in Nat
      /\ overlaps \in Nat
    BY Charged DEF TypeOK
<1>b. PollInv' /\ \A q \in Polls \ {p} : poll'[q] = poll[q]
    <2>1. [Next]_vars
        BY DEF Next
    <2> QED BY <2>1, PollKeeps, PollFits
<1>c. p \in Busy
    BY <1>a DEF Busy
<1>d. Paid(m)' = Paid(m) + (flips'[m] - flips[m]) /\ Paid(m) \in Nat
    BY <1>a DEF Paid, Charge
<1>1. CASE Crowd(m)
    <2>1. Owing(m)' \ {p} = Owing(m) \ {p}
        BY <1>b DEF Owing, Owes
    <2>2. /\ Cardinality(Owing(m)) = Cardinality(Owing(m) \ {p}) + Owed(p, m)
          /\ Cardinality(Owing(m) \ {p}) \in Nat
        BY Sizes DEF Owing, Owed
    <2>3. Owing(m)' \in SUBSET Polls /\ (p \in Owing(m)' <=> Owes(p, m)')
        BY DEF Owing
    <2>4. Cardinality(Owing(m)') = Cardinality(Owing(m)' \ {p}) + Owed(p, m)'
        BY <2>3, Sizes DEF Owed
    <2>5. Unsettled(m)' <= Unsettled(m) + (flips'[m] - flips[m]) /\ Unsettled(m)' \in 0..1
        BY <1>a DEF Unsettled, Charge
    <2>6. events'[m] + Owed(p, m)' <= events[m] + Owed(p, m) /\ Owed(p, m)' \in 0..1
        BY <1>a DEF Charge, Owed
    <2>7. events'[m] + Cardinality(Owing(m)') + Unsettled(m)' <= Paid(m)'
        <3>1. flips'[m] - flips[m] \in 0..1
            BY <1>a DEF Charge
        <3>2. events[m] + Cardinality(Owing(m)) + Unsettled(m) <= Paid(m)
            BY <1>1 DEF Crowd
        <3>3. Unsettled(m) \in 0..1 /\ Owed(p, m) \in 0..1
            BY Amounts
        <3>4. Cardinality(Owing(m)') = Cardinality(Owing(m) \ {p}) + Owed(p, m)'
            BY <2>1, <2>4
        <3> QED BY <1>a, <1>d, <2>2, <2>5, <2>6, <3>1, <3>2, <3>3, <3>4
    <2> QED BY <2>7 DEF Balance, Crowd
<1>2. ASSUME NEW q \in Polls, Alone(q, m) PROVE Balance(m)'
    <2>1. q = p /\ Busy = {p}
        BY <1>2, <1>c DEF Alone
    <2>2. \A r \in Polls \ {p} : poll'[r].pc = "idle"
        BY <1>b, <2>1 DEF Busy
    <2>3. CASE poll'[p].pc # "idle"
        <3>1. Busy' = {p}
            BY <2>2, <2>3 DEF Busy
        <3>2. events'[m] + Distance(p, m)' <= Paid(m)'
            <4>1. Distance(p, m)' \in 0..2 /\ flips'[m] - flips[m] \in 0..1
                BY <1>a DEF Distance, Differ, Charge
            <4> QED BY <1>a, <1>d, <1>2, <2>1, <2>3, <4>1, Amounts DEF Charge, Alone
        <3> QED BY <3>1, <3>2 DEF Balance, Alone
    <2>4. CASE poll'[p].pc = "idle"
        <3>1. /\ events' = events /\ flips' = flips /\ entry' = entry /\ seen' = seen
              /\ Distance(p, m) = Differ(entry.known[m], m)
            BY <1>a, <2>4 DEF Charge
        <3>2. \A r \in Polls : ~Owes(r, m)' /\ DOMAIN poll'[r].page = {}
            BY <1>b, <2>2, <2>4 DEF PollInv, Fits, Paging, Owes
        <3>3. Owing(m)' = {}
            BY <3>2 DEF Owing
        <3>4. Cardinality(Owing(m)') = 0
            BY <3>3, FS_EmptySet
        <3>5. Unsettled(m)' <= Differ(entry.known[m], m) /\ Unsettled(m)' \in 0..1
            BY <3>1, <3>2 DEF Unsettled, Agrees, Differ, Seen
        <3>6. events[m] + Differ(entry.known[m], m) <= Paid(m)
            BY <1>2, <2>1, <3>1 DEF Alone
        <3>7. Paid(m)' = Paid(m)
            BY <1>a, <3>1 DEF Paid
        <3>8. events'[m] + Cardinality(Owing(m)') + Unsettled(m)' <= Paid(m)'
            BY <1>a, <1>d, <3>1, <3>4, <3>5, <3>6, <3>7, Amounts
        <3> QED BY <3>8 DEF Balance, Crowd
    <2> QED BY <2>3, <2>4
<1> QED BY <1>1, <1>2 DEF Balance

(* The beginning of a poll: alone it starts from what the entry knows, in  *)
(* company two more events are paid for, its own and one for the hash that *)
(* one of the two may take back.                                           *)
LEMMA BalanceStart ==
    ASSUME TypeOK, PollInv, NEW p \in Polls, NEW m \in Mail, PollStart(p), Balance(m)
    PROVE  Balance(m)'
<1> DEFINE r == [NoPoll EXCEPT !.pc = "list", !.cursor = entry.cursor]
<1>1. PollGoes(p, "idle", r) /\ UNCHANGED <<seen, flips, entry, events, restarts>>
    BY DEF PollStart, mailbox, memory, outcome, life
<1>2. r.pc = "list" /\ DOMAIN r.page = {} /\ r.todo = {}
    BY Idle, Blanks DEF PollType
<1> HIDE DEF r
<1>3. /\ poll[p].pc = "idle" /\ poll'[p] = r
      /\ \A q \in Polls \ {p} : poll'[q] = poll[q]
    BY <1>1, Goes
<1>4. Busy' = Busy \cup {p} /\ p \notin Busy
    BY <1>2, <1>3 DEF Busy
<1>5. Owing(m)' \ {p} = Owing(m) /\ p \in Owing(m)' /\ Owing(m)' \in SUBSET Polls
    BY <1>2, <1>3, Rests DEF Owing, Owes
<1>6. Agrees(m)' <=> Agrees(m)
    BY <1>1, <1>2, <1>3, Rests DEF Agrees, Seen
<1>7. Unsettled(m)' = Unsettled(m)
    BY <1>6 DEF Unsettled
<1>8. Cardinality(Owing(m)') = Cardinality(Owing(m)) + 1 /\ Cardinality(Owing(m)) \in Nat
    BY <1>5, Sizes
<1>9. /\ events[m] \in Nat /\ events'[m] = events[m] /\ flips[m] \in Nat /\ restarts \in Nat
      /\ overlaps \in Nat /\ Paid(m) \in Nat
    BY <1>1 DEF TypeOK, Paid
<1>10. CASE Busy = {}
    <2>1. overlaps' = overlaps /\ Busy' = {p}
        BY <1>4, <1>10 DEF PollStart
    <2>2. Paid(m)' = Paid(m)
        BY <1>1, <2>1 DEF Paid
    <2>3. Crowd(m)
        BY <1>10 DEF Balance, Alone
    <2>4. Distance(p, m)' = Differ(entry.known[m], m)
        BY <1>1, <1>2, <1>3 DEF Distance, Pending, Hash, Differ, Seen
    <2>5. Differ(entry.known[m], m) <= Unsettled(m)
        BY DEF Differ, Unsettled, Agrees
    <2>6. events'[m] + Distance(p, m)' <= Paid(m)'
        BY <1>8, <1>9, <2>2, <2>3, <2>4, <2>5, Amounts DEF Crowd
    <2> QED BY <2>1, <2>6 DEF Balance, Alone
<1>11. CASE Busy # {}
    <2>1. overlaps' = overlaps + 1
        BY <1>11 DEF PollStart
    <2>2. Paid(m)' = Paid(m) + 2
        BY <1>1, <1>9, <2>1 DEF Paid
    <2>3. CASE Crowd(m)
        <3>1. events'[m] + Cardinality(Owing(m)') + Unsettled(m)' <= Paid(m)'
            BY <1>7, <1>8, <1>9, <2>2, <2>3, Amounts DEF Crowd
        <3> QED BY <3>1 DEF Balance, Crowd
    <2>4. ASSUME NEW q \in Polls, Alone(q, m) PROVE Balance(m)'
        <3>1. \A o \in Polls \ {q} : poll[o].pc = "idle"
            BY <2>4 DEF Alone, Busy
        <3>2. \A o \in Polls \ {q} : ~Owes(o, m) /\ DOMAIN poll[o].page = {}
            BY <3>1, Rests
        <3>3. Owing(m) \ {q} = {} /\ (q \in Owing(m) <=> Owes(q, m)) /\ Owing(m) \in SUBSET Polls
            BY <3>2 DEF Owing
        <3>4. Cardinality(Owing(m)) = Owed(q, m)
            BY <3>3, Sizes, FS_EmptySet DEF Owed
        <3>5. Owed(q, m) = 1 /\ Distance(q, m) = 0 => Agrees(m)
            <4> SUFFICES ASSUME Owed(q, m) = 1, Distance(q, m) = 0 PROVE Agrees(m)
                OBVIOUS
            <4>1. ~Pending(q, m) /\ Hash(q, m) = Seen(m)
                BY Amounts DEF Distance, Differ
            <4>2. poll[q].pc \in {"list", "diff"}
                BY <4>1 DEF Owed, Owes, Pending
            <4>3. CASE poll[q].pc = "list"
                <5>1. DOMAIN poll[q].page = {}
                    BY <4>3 DEF PollInv, Fits, Paging
                <5> QED BY <3>2, <4>1, <5>1 DEF Agrees, Hash
            <4>4. CASE poll[q].pc = "diff"
                <5>1. m \notin News(poll[q].page)
                    BY <4>1, <4>4 DEF Pending
                <5>2. entry.known[m] = Seen(m)
                    BY <4>1, <5>1 DEF News, Hash
                <5>3. m \in DOMAIN poll[q].page => poll[q].page[m] = Seen(m)
                    BY <4>1 DEF Hash
                <5> QED BY <3>2, <5>2, <5>3 DEF Agrees
            <4> QED BY <4>2, <4>3, <4>4
        <3>6. Owed(q, m) + Unsettled(m) <= Distance(q, m) + 1
            BY <3>5, Amounts DEF Unsettled
        <3>7. events[m] + Distance(q, m) <= Paid(m)
            BY <2>4 DEF Alone
        <3>8. events'[m] + Cardinality(Owing(m)') + Unsettled(m)' <= Paid(m)'
            BY <1>7, <1>8, <1>9, <2>2, <3>4, <3>6, <3>7, Amounts
        <3> QED BY <3>8 DEF Balance, Crowd
    <2> QED BY <2>3, <2>4 DEF Balance
<1> QED BY <1>10, <1>11

(* What a change of the flag, an end of the process and its start do.      *)
LEMMA BalanceRead ==
    ASSUME TypeOK, NEW n \in Mail, NEW m \in Mail, Read(n), Balance(m)
    PROVE  Balance(m)'
<1> DEFINE d == IF m = n THEN 1 ELSE 0
<1>1. /\ UNCHANGED <<poll, entry, events, restarts, overlaps>>
      /\ flips'[m] = flips[m] + d /\ (m # n => Seen(m)' = Seen(m))
    BY DEF Read, Flip, Seen, memory, outcome, life, polling, TypeOK
<1>2. /\ events[m] \in Nat /\ flips[m] \in Nat /\ restarts \in Nat /\ overlaps \in Nat
      /\ Paid(m) \in Nat /\ Paid(m)' = Paid(m) + d
    BY <1>1 DEF TypeOK, Paid
<1>3. CASE Crowd(m)
    <2>1. Owing(m)' = Owing(m) /\ Cardinality(Owing(m)) \in Nat
        BY <1>1, Countable DEF Owing, Owes
    <2>2. m # n => (Agrees(m)' <=> Agrees(m))
        BY <1>1 DEF Agrees
    <2>3. Unsettled(m)' <= Unsettled(m) + d /\ Unsettled(m)' \in 0..1
        BY <2>2 DEF Unsettled
    <2>4. events'[m] + Cardinality(Owing(m)') + Unsettled(m)' <= Paid(m)'
        BY <1>1, <1>2, <1>3, <2>1, <2>3, Amounts DEF Crowd
    <2> QED BY <2>4 DEF Balance, Crowd
<1>4. ASSUME NEW p \in Polls, Alone(p, m) PROVE Balance(m)'
    <2>1. Busy' = Busy
        BY <1>1 DEF Busy
    <2>2. (Pending(p, m)' <=> Pending(p, m)) /\ Hash(p, m)' = Hash(p, m)
        BY <1>1 DEF Pending, News, Hash
    <2>3. Distance(p, m)' <= Distance(p, m) + d /\ Distance(p, m)' \in 0..2
        BY <1>1, <2>2 DEF Distance, Differ
    <2>4. events'[m] + Distance(p, m)' <= Paid(m)'
        BY <1>1, <1>2, <1>4, <2>3, Amounts DEF Alone
    <2> QED BY <1>4, <2>1, <2>4 DEF Balance, Alone
<1> QED BY <1>3, <1>4 DEF Balance

LEMMA BalanceExit ==
    ASSUME TypeOK, NEW m \in Mail, Exit, Balance(m)
    PROVE  Balance(m)'
<1>1. /\ \A p \in Polls : poll'[p] = NoPoll
      /\ UNCHANGED <<flips, events, overlaps>> /\ restarts' = restarts + 1
    BY DEF Exit, mailbox, outcome
<1>2. /\ events[m] \in Nat /\ flips[m] \in Nat /\ restarts \in Nat /\ overlaps \in Nat
      /\ Paid(m) \in Nat /\ Paid(m)' = Paid(m) + 1
    BY <1>1 DEF TypeOK, Paid
<1>3. Owing(m)' = {}
    BY <1>1, Idle DEF Owing, Owes
<1>4. Cardinality(Owing(m)') = 0
    BY <1>3, FS_EmptySet
<1>5. Unsettled(m)' \in 0..1
    BY DEF Unsettled
<1>6. events[m] <= Paid(m)
    <2>1. CASE Crowd(m)
        <3>1. Cardinality(Owing(m)) \in Nat
            BY Countable DEF Owing
        <3> QED BY <1>2, <2>1, <3>1, Amounts DEF Crowd
    <2>2. ASSUME NEW p \in Polls, Alone(p, m) PROVE events[m] <= Paid(m)
        BY <1>2, <2>2, Amounts DEF Alone
    <2> QED BY <2>1, <2>2 DEF Balance
<1>7. events'[m] + Cardinality(Owing(m)') + Unsettled(m)' <= Paid(m)'
    BY <1>1, <1>2, <1>4, <1>5, <1>6
<1> QED BY <1>7 DEF Balance, Crowd

LEMMA BalanceUp ==
    ASSUME TypeOK, PollInv, NEW m \in Mail, Start, Balance(m)
    PROVE  Balance(m)'
<1>1. /\ \A p \in Polls : poll[p] = NoPoll
      /\ entry = Blank /\ UNCHANGED <<poll, flips, events, overlaps, restarts>>
    BY DEF Start, PollInv, mailbox, outcome, polling
<1>2. Busy = {}
    BY <1>1, Idle DEF Busy
<1>3. Crowd(m)
    BY <1>2 DEF Balance, Alone
<1>4. ~Agrees(m)
    BY <1>1, SeenType DEF Agrees, Blank
<1>5. Unsettled(m) = 1 /\ Unsettled(m)' \in 0..1
    BY <1>4 DEF Unsettled
<1>6. Owing(m) = {} /\ Owing(m)' = {} /\ Paid(m)' = Paid(m)
    BY <1>1, Idle DEF Owing, Owes, Paid
<1>7. Cardinality(Owing(m)) = 0 /\ Cardinality(Owing(m)') = 0
    BY <1>6, FS_EmptySet
<1>8. Paid(m) \in Nat /\ events[m] \in Nat
    BY DEF Paid, TypeOK
<1>9. events'[m] + Cardinality(Owing(m)') + Unsettled(m)' <= Paid(m)'
    BY <1>1, <1>3, <1>5, <1>6, <1>7, <1>8 DEF Crowd
<1> QED BY <1>9 DEF Balance, Crowd

(* The account of the events holds.                                        *)
LEMMA CountStep ==
    ASSUME TypeOK, PollInv, CountInv, [Next]_vars
    PROVE  CountInv'
<1> DEFINE Same == UNCHANGED <<poll, entry, seen, events, flips, restarts, overlaps>>
<1> USE DEF mailbox, memory, outcome, life, polling
<1> SUFFICES ASSUME NEW m \in Mail PROVE Balance(m)'
    BY DEF CountInv
<1>a. Balance(m)
    BY DEF CountInv
<1>b. ASSUME Same PROVE Balance(m)'
    <2>1. Crowd(m)' <=> Crowd(m)
        BY <1>b DEF Crowd, Owing, Owes, Unsettled, Agrees, Seen, Paid
    <2>2. \A p \in Polls : Alone(p, m)' <=> Alone(p, m)
        BY <1>b DEF Alone, Busy, Distance, Pending, News, Hash, Differ, Seen, Paid
    <2> QED BY <1>a, <2>1, <2>2 DEF Balance
<1>1. CASE Arrive
    BY <1>1, <1>b DEF Arrive
<1>2. ASSUME NEW n \in Mail, Read(n) PROVE Balance(m)'
    BY <1>2, <1>a, BalanceRead
<1>3. ASSUME NEW p \in Polls, PollStep(p) PROVE Balance(m)'
    BY <1>3, <1>a, BalanceStart, BalanceBusy
<1>4. ASSUME NEW f \in Flushes, FlushStep(f) PROVE Balance(m)'
    BY <1>4, <1>b DEF FlushStep, FlushBegin, FlushCopy, FlushSave, FlushFails, FlushClear
<1>5. CASE StartContextEnds
    BY <1>5, <1>b DEF StartContextEnds
<1>6. CASE Stop
    BY <1>6, <1>b DEF Stop
<1>7. CASE Exit
    BY <1>7, <1>a, BalanceExit
<1>8. CASE Start
    BY <1>8, <1>a, BalanceUp
<1>9. CASE UNCHANGED vars
    BY <1>9, <1>b DEF vars
<1> QED BY <1>1, <1>2, <1>3, <1>4, <1>5, <1>6, <1>7, <1>8, <1>9 DEF Next

-----------------------------------------------------------------------------
(* The invariant holds throughout.                                         *)
LEMMA Invariant == Spec => []IInv
<1>1. Init => IInv
    <2> SUFFICES ASSUME Init PROVE IInv
        OBVIOUS
    <2>1. TypeOK
        <3>1. arrived \in 0..MaxMail /\ restarts \in Nat /\ overlaps \in Nat /\ seen \subseteq Mail
            BY PollingAssumption DEF Init
        <3>2. entry \in Memory /\ state \in Memory /\ row \in Memory
              /\ poll \in [Polls -> PollType] /\ flush \in [Flushes -> FlushType]
            BY Blanks DEF Init
        <3>3. handed \subseteq Mail \X BOOLEAN /\ events \in [Mail -> Nat]
              /\ flips \in [Mail -> Nat]
            BY DEF Init
        <3> QED BY <3>1, <3>2, <3>3 DEF Init, TypeOK
    <2>2. \A p \in Polls : poll[p] = NoPoll
        BY DEF Init
    <2>3. PollInv /\ PageInv
        BY <2>2, Idle DEF Init, PollInv, Fits, PageInv, Paging
    <2>4. KnownWasHandedOver
        BY <2>2, Idle DEF Init, KnownWasHandedOver, NoFlush, Blank
    <2>5. ASSUME NEW m \in Mail PROVE Crowd(m)
        <3>1. Owing(m) = {}
            BY <2>2, Idle DEF Owing, Owes
        <3>2. Cardinality(Owing(m)) = 0
            BY <3>1, FS_EmptySet
        <3>3. events[m] = 0 /\ Paid(m) = 1
            BY DEF Init, Paid
        <3> QED BY <3>2, <3>3, Amounts DEF Crowd
    <2> QED BY <2>1, <2>3, <2>4, <2>5 DEF IInv, CountInv, Balance
<1>2. IInv /\ [Next]_vars => IInv'
    BY TypeStep, PollKeeps, HandedStep, CountStep DEF IInv
<1> QED BY <1>1, <1>2, PTL DEF Spec

(* Every variable keeps its type: the table, the state, the entry and the  *)
(* polls only ever hold cursors and hashes of the mailbox's messages.      *)
THEOREM PollingType == Spec => []TypeOK
BY Invariant, PTL DEF IInv

(* Whatever the order of polls that may overlap, of flushes, failures and  *)
(* ends of the process, nothing is known of a message whose event was not  *)
(* handed over: polling.go:85-117, pollstate.go:86-157.                    *)
THEOREM NothingIsSkipped == Spec => []KnownWasHandedOver
BY Invariant, PTL DEF IInv

(* A message has one event, one for each change of its flag and each end   *)
(* of the process, and two for each poll that began while another was      *)
(* under way (polling.go:37), however many polls there are at one time.    *)
THEOREM RepeatsHaveReasons == Spec => []RepeatsArePaidFor
<1>1. ASSUME IInv, NEW m \in Mail PROVE events[m] <= Paid(m)
    <2>1. events[m] \in Nat /\ Paid(m) \in Nat
        BY <1>1 DEF IInv, TypeOK, Paid
    <2>2. CASE Crowd(m)
        <3>1. Cardinality(Owing(m)) \in Nat
            BY Countable DEF Owing
        <3> QED BY <2>1, <2>2, <3>1, Amounts DEF Crowd
    <2>3. ASSUME NEW p \in Polls, Alone(p, m) PROVE events[m] <= Paid(m)
        BY <2>1, <2>3, Amounts DEF Alone
    <2> QED BY <1>1, <2>2, <2>3 DEF IInv, CountInv, Balance
<1>2. IInv => RepeatsArePaidFor
    BY <1>1 DEF RepeatsArePaidFor, Paid
<1> QED BY <1>2, Invariant, PTL

=============================================================================
