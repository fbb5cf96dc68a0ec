--------------------------- MODULE PollingSource ---------------------------
(***************************************************************************)
(* One polled resource, the mailbox (pkg/capability/polling.go,            *)
(* pollstate.go, eventsource.go; pkg/providers/email/imap.go).  A poll     *)
(* lists a page of messages, emits an event for each that is new or has    *)
(* changed, and remembers the cursor and the hash of each message listed   *)
(* in its entry, then in the polling state, which the periodic flush and   *)
(* the flush of Stop write to the table polling_state.                     *)
(*                                                                         *)
(* The messages are the UIDs 1, 2, ... in the order they arrive.  Nothing  *)
(* of a message changes but its flag \Seen, so the flag is its hash.       *)
(*                                                                         *)
(* The cron starts every poll in a goroutine of its own, whether or not    *)
(* the one before has ended, and the provider's calls do not end with the  *)
(* context of the poll: polls of one resource may overlap.  They share the *)
(* entry, under its mutex, which a poll holds from the diff to the last    *)
(* event it emits (polling.go:132) but not while it lists.                 *)
(***************************************************************************)
EXTENDS Integers, FiniteSets

CONSTANTS
    MaxPolls,       \* bound: polls that are under way at one time
    MaxOverlaps,    \* bound: polls that begin beside another one
    MaxMail,        \* bound: messages that arrive
    MaxReads,       \* bound: changes of the flag by the user
    MaxRestarts,    \* bound: ends of the process
    PageLimit,      \* defaultListLimit
    UnseenOnly,     \* unseen_only
    MarksSeen,      \* mark_seen_after_emit
    None            \* no hash

ASSUME PollingAssumption ==
    /\ MaxPolls \in Nat /\ MaxOverlaps \in Nat
    /\ MaxMail \in Nat /\ MaxReads \in Nat /\ MaxRestarts \in Nat /\ PageLimit \in Nat \ {0}
    /\ UnseenOnly \in BOOLEAN /\ MarksSeen \in BOOLEAN /\ None \notin BOOLEAN

Mail    == 1..MaxMail
Polls   == 1..MaxPolls
NoPage  == [m \in {} |-> TRUE]
Pages   == UNION {[S -> BOOLEAN] : S \in SUBSET Mail}
\* A cursor, 0 for the empty one, and the known hashes.
Memory  == [cursor : 0..MaxMail, known : [Mail -> {None} \cup BOOLEAN]]
Blank   == [cursor |-> 0, known |-> [m \in Mail |-> None]]

VARIABLES
    arrived, seen,  \* the mailbox: UIDs up to arrived, the messages with the flag \Seen
    up,             \* "up", "stopping" or "down"
    ticking,        \* whether startFlushLoop's goroutine runs
    entry,          \* pollEntry: what the poller remembers
    poll,           \* the polls: where each is, cursor, page, next cursor, events left
                    \* to emit, messages to mark, copy of the entry
    overlaps,       \* number of polls that began beside another one
    state, dirty,   \* PollingState: its copy of the entry, its dirty mark
    flush,          \* the two flushes: where each is and the copy it saves
    row,            \* the row of polling_state
    handed,         \* the messages, with their hash, that the emitter has got
    events, flips,  \* number of stored events of a message, of changes of its flag
    restarts

mailbox == <<arrived, seen, flips>>
memory  == <<entry, state, dirty>>
outcome == <<handed, events>>
life    == <<up, ticking, restarts>>
polling == <<poll, overlaps>>
vars    == <<mailbox, life, memory, polling, flush, row, outcome>>

Flushes == {"tick", "stop"}
PollPCs == {"idle", "list", "diff", "emit", "mark", "remember", "copy", "update", "dirty"}
FlushPCs == {"idle", "copy", "save", "clear", "done"}
PollType  == [pc : PollPCs, cursor : 0..MaxMail, page : Pages, next : 0..MaxMail,
              todo : SUBSET Mail, marks : SUBSET Mail, copy : Memory]
FlushType == [pc : FlushPCs, copy : Memory]

TypeOK ==
    /\ arrived \in 0..MaxMail /\ seen \subseteq Mail
    /\ up \in {"up", "stopping", "down"} /\ ticking \in BOOLEAN
    /\ entry \in Memory /\ state \in Memory /\ row \in Memory /\ dirty \in BOOLEAN
    /\ poll \in [Polls -> PollType] /\ overlaps \in Nat /\ flush \in [Flushes -> FlushType]
    /\ handed \subseteq Mail \X BOOLEAN
    /\ events \in [Mail -> Nat] /\ flips \in [Mail -> Nat] /\ restarts \in Nat

NoPoll  == [pc |-> "idle", cursor |-> 0, page |-> NoPage, next |-> 0,
            todo |-> {}, marks |-> {}, copy |-> Blank]
NoFlush == [f \in Flushes |-> [pc |-> "idle", copy |-> Blank]]

Init ==
    /\ arrived = 0 /\ seen = {} /\ up = "up" /\ ticking = TRUE
    /\ entry = Blank /\ state = Blank /\ row = Blank /\ dirty = FALSE
    /\ poll = [p \in Polls |-> NoPoll] /\ overlaps = 0 /\ flush = NoFlush
    /\ handed = {} /\ events = [m \in Mail |-> 0]
    /\ flips = [m \in Mail |-> 0] /\ restarts = 0

-----------------------------------------------------------------------------
(* The mailbox and its owner.                                              *)

Arrive ==
    /\ arrived < MaxMail /\ arrived' = arrived + 1
    /\ UNCHANGED <<seen, flips, life, memory, polling, flush, row, outcome>>

Flip(S) ==
    /\ seen' = (seen \cup S) \ (seen \cap S)
    /\ flips' = [m \in Mail |-> flips[m] + IF m \in S THEN 1 ELSE 0]

\* The owner reads a message or marks it unread.
Read(m) ==
    /\ m <= arrived /\ flips[m] < MaxReads /\ Flip({m})
    /\ UNCHANGED <<arrived, life, memory, polling, flush, row, outcome>>

\* Search: what matches, below the cursor.
Below(cursor) ==
    {m \in 1..arrived : (UnseenOnly => m \notin seen) /\ (cursor = 0 \/ m < cursor)}

First(S) == {m \in S : \A n \in S : m <= n}
Last(S)  == {m \in S : \A n \in S : n <= m}

\* pageUIDs: the newest PageLimit of them.
Newest(S) == {m \in S : Cardinality({n \in S : n > m}) < PageLimit}

\* nextUIDCursor: the oldest of the page if there are more, else none.
NextCursor(S) == IF Newest(S) = S THEN {0} ELSE First(Newest(S))

-----------------------------------------------------------------------------
(* pollOnce.                                                               *)

PollGoes(p, from, r) == up # "down" /\ poll[p].pc = from /\ poll' = [poll EXCEPT ![p] = r]

Busy == {p \in Polls : poll[p].pc # "idle"}

\* The mutex of the entry is free: nobody emits.
EntryFree == \A p \in Polls : poll[p].pc # "emit"

\* A tick of the cron, which does not ask whether an earlier poll is under way.
\* Polls are alike: a new one takes the first number that is free.
PollStart(p) ==
    /\ up = "up" /\ EntryFree /\ 1..(p - 1) \subseteq Busy
    /\ PollGoes(p, "idle", [NoPoll EXCEPT !.pc = "list", !.cursor = entry.cursor])
    /\ IF Busy = {} THEN UNCHANGED overlaps
       ELSE overlaps < MaxOverlaps /\ overlaps' = overlaps + 1
    /\ UNCHANGED <<mailbox, life, memory, flush, row, outcome>>

\* The provider fails, or the time was over before it began.
ListFails(p) ==
    /\ EntryFree /\ PollGoes(p, "list", NoPoll)
    /\ UNCHANGED <<mailbox, life, memory, overlaps, flush, row, outcome>>

\* The provider's answer may take any time.
List(p) ==
    LET S == Below(poll[p].cursor)
    IN  /\ \E c \in NextCursor(S) :
              PollGoes(p, "list", [NoPoll EXCEPT !.pc = "diff", !.next = c,
                                       !.page = [m \in Newest(S) |-> m \in seen]])
        /\ UNCHANGED <<mailbox, life, memory, overlaps, flush, row, outcome>>

\* The messages of a page whose hash is not the one known.
News(page) == {m \in DOMAIN page : entry.known[m] # page[m]}

\* diffAndEmit takes the mutex, and keeps it until the emitter returns.
Diffed(p) ==
    LET news == News(poll[p].page)
    IN  [poll[p] EXCEPT !.pc = "emit", !.todo = news,
                        !.marks = IF MarksSeen THEN news ELSE {}]

\* Faulty: the page is remembered before its events are emitted.
Diff_Remembers(p) ==
    LET page == poll[p].page
    IN  /\ EntryFree /\ PollGoes(p, "diff", Diffed(p))
        /\ entry' = [entry EXCEPT !.known =
                        [m \in Mail |-> IF m \in DOMAIN page THEN page[m] ELSE @[m]]]
        /\ UNCHANGED <<mailbox, life, state, dirty, overlaps, flush, row, outcome>>

Diff(p) ==
    /\ EntryFree /\ PollGoes(p, "diff", Diffed(p))
    /\ UNCHANGED <<mailbox, life, memory, overlaps, flush, row, outcome>>

\* The emitter stores and publishes one event after the other.
Hand(p, S) == handed' = handed \cup {<<m, poll[p].page[m]>> : m \in S}
Stored(m)  == events' = [events EXCEPT ![m] = @ + 1]

Emit(p) ==
    /\ \E m \in Last(poll[p].todo) :
          /\ PollGoes(p, "emit", [poll[p] EXCEPT !.todo = @ \ {m}])
          /\ Hand(p, {m}) /\ Stored(m)
    /\ UNCHANGED <<mailbox, life, memory, overlaps, flush, row>>

\* It returns at the first error, perhaps one of publishing a stored event.
\* Nobody looks at the error, and the events left are dropped.
EmitFails(p) ==
    /\ poll[p].todo # {} /\ PollGoes(p, "emit", [poll[p] EXCEPT !.todo = {}])
    /\ Hand(p, poll[p].todo)
    /\ \/ \E m \in Last(poll[p].todo) : Stored(m)
       \/ UNCHANGED events
    /\ UNCHANGED <<mailbox, life, memory, overlaps, flush, row>>

\* The hook is called with every new message, whatever became of its event.
Emitted(p) ==
    /\ poll[p].todo = {}
    /\ PollGoes(p, "emit", [poll[p] EXCEPT !.pc = IF poll[p].marks = {} THEN "remember" ELSE "mark"])
    /\ UNCHANGED <<mailbox, life, memory, overlaps, flush, row, outcome>>

\* MarkEmittedSeen: one message after the other.
Mark(p) ==
    /\ \E m \in Last(poll[p].marks) :
          PollGoes(p, "mark", [poll[p] EXCEPT !.marks = @ \ {m}]) /\ Flip({m} \ seen)
    /\ UNCHANGED <<arrived, life, memory, overlaps, flush, row, outcome>>

\* The hook is done, or has failed.
Marked(p) ==
    /\ PollGoes(p, "mark", [poll[p] EXCEPT !.pc = "remember", !.marks = {}])
    /\ UNCHANGED <<mailbox, life, memory, overlaps, flush, row, outcome>>

\* Faulty: only messages never seen before get a hash.
Learn_New(known, page) ==
    [m \in Mail |-> IF m \in DOMAIN page /\ known[m] = None THEN page[m] ELSE known[m]]

\* The hashes of the page are copied over the known ones, also over newer ones.
Learn(known, page) == [m \in Mail |-> IF m \in DOMAIN page THEN page[m] ELSE known[m]]

Remember(p) ==
    /\ EntryFree /\ PollGoes(p, "remember", [NoPoll EXCEPT !.pc = "copy"])
    /\ entry' = [cursor |-> IF poll[p].next = 0 THEN entry.cursor ELSE poll[p].next,
                 known  |-> Learn(entry.known, poll[p].page)]
    /\ UNCHANGED <<mailbox, life, state, dirty, overlaps, flush, row, outcome>>

Copy(p) ==
    /\ EntryFree /\ PollGoes(p, "copy", [NoPoll EXCEPT !.pc = "update", !.copy = entry])
    /\ UNCHANGED <<mailbox, life, memory, overlaps, flush, row, outcome>>

\* Faulty: the state is left alone, and not marked, if nothing is new.
Update_IfNew(p) ==
    /\ PollGoes(p, "update", IF state = poll[p].copy THEN NoPoll ELSE [NoPoll EXCEPT !.pc = "dirty"])
    /\ state' = poll[p].copy
    /\ UNCHANGED <<mailbox, life, entry, dirty, overlaps, flush, row, outcome>>

\* PollingState.Update, and its mark together with that of MarkDirty.
Update(p) ==
    /\ PollGoes(p, "update", [NoPoll EXCEPT !.pc = "dirty"]) /\ state' = poll[p].copy
    /\ UNCHANGED <<mailbox, life, entry, dirty, overlaps, flush, row, outcome>>

MarkDirty(p) ==
    /\ PollGoes(p, "dirty", NoPoll) /\ dirty' = TRUE
    /\ UNCHANGED <<mailbox, life, entry, state, overlaps, flush, row, outcome>>

-----------------------------------------------------------------------------
(* PollingState.Flush, by the ticker and by Stop.                          *)

Over(f) == IF f = "stop" THEN "done" ELSE "idle"

Flushing(f, from, to) ==
    /\ up # "down" /\ flush[f].pc = from /\ flush' = [flush EXCEPT ![f].pc = to]

FlushBegin(f) ==
    /\ IF f = "stop" THEN up = "stopping" ELSE ticking
    /\ Flushing(f, "idle", IF dirty THEN "copy" ELSE Over(f))
    /\ UNCHANGED <<mailbox, life, memory, polling, row, outcome>>

FlushCopy(f) ==
    /\ up # "down" /\ flush[f].pc = "copy"
    /\ flush' = [flush EXCEPT ![f] = [pc |-> "save", copy |-> state]]
    /\ UNCHANGED <<mailbox, life, memory, polling, row, outcome>>

FlushSave(f) ==
    /\ Flushing(f, "save", "clear") /\ row' = flush[f].copy
    /\ UNCHANGED <<mailbox, life, memory, polling, outcome>>

FlushFails(f) ==
    /\ up # "down" /\ flush[f].pc = "save"
    /\ flush' = [flush EXCEPT ![f] = [pc |-> Over(f), copy |-> Blank]]
    /\ UNCHANGED <<mailbox, life, memory, polling, row, outcome>>

\* The mark goes, also one that was set since the copy was taken.
FlushClear(f) ==
    /\ up # "down" /\ flush[f].pc = "clear"
    /\ flush' = [flush EXCEPT ![f] = [pc |-> Over(f), copy |-> Blank]]
    /\ dirty' = FALSE
    /\ UNCHANGED <<mailbox, life, entry, state, polling, row, outcome>>

-----------------------------------------------------------------------------
(* The process.                                                            *)

\* The context that Start gets and hands to the flush loop ends; it is the
\* one that fx makes for the start of the application.
StartContextEnds ==
    /\ up # "down" /\ ticking /\ flush["tick"].pc = "idle" /\ ticking' = FALSE
    /\ UNCHANGED <<mailbox, up, restarts, memory, polling, flush, row, outcome>>

\* Stop stops the scheduler, which starts no poll any more, and flushes.
Stop ==
    /\ up = "up" /\ up' = "stopping" /\ restarts < MaxRestarts
    /\ UNCHANGED <<mailbox, ticking, restarts, memory, polling, flush, row, outcome>>

\* The process ends: after Stop, or in a crash.  What it held is gone.
Exit ==
    /\ \/ up = "stopping" /\ flush["stop"].pc = "done"
       \/ up # "down" /\ restarts < MaxRestarts
    /\ up' = "down" /\ ticking' = FALSE /\ restarts' = restarts + 1
    /\ entry' = Blank /\ state' = Blank /\ dirty' = FALSE /\ flush' = NoFlush
    /\ poll' = [p \in Polls |-> NoPoll]
    /\ UNCHANGED <<mailbox, overlaps, row, outcome>>

\* Start loads the table into the state, and startPolling the state into the entry.
Start ==
    /\ up = "down" /\ up' = "up" /\ ticking' = TRUE
    /\ state' = row /\ entry' = row
    /\ UNCHANGED <<mailbox, restarts, dirty, polling, flush, row, outcome>>

-----------------------------------------------------------------------------
PollStep(p) ==
    \/ PollStart(p) \/ ListFails(p) \/ List(p) \/ Diff(p) \/ Emit(p) \/ EmitFails(p) \/ Emitted(p)
    \/ Mark(p) \/ Marked(p) \/ Remember(p) \/ Copy(p) \/ Update(p) \/ MarkDirty(p)
FlushStep(f) == FlushBegin(f) \/ FlushCopy(f) \/ FlushSave(f) \/ FlushFails(f) \/ FlushClear(f)

Next ==
    \/ Arrive \/ \E m \in Mail : Read(m)
    \/ \E p \in Polls : PollStep(p)
    \/ \E f \in Flushes : FlushStep(f)
    \/ StartContextEnds \/ Stop \/ Exit \/ Start

Spec == Init /\ [][Next]_vars

\* Polls and periodic flushes are started again and again and run on, and so
\* do Stop and a new start; a provider or a database that is asked again and
\* again answers at last.  A listing may be overtaken as often as MaxOverlaps
\* lets other polls begin.
Restarting == FlushStep("stop") \/ (up = "stopping" /\ Exit) \/ Start

Fairness ==
    /\ WF_vars(\E p \in Polls : PollStep(p)) /\ SF_vars(\E p \in Polls : List(p))
    /\ WF_vars(FlushStep("tick")) /\ SF_vars(FlushSave("tick"))
    /\ WF_vars(Restarting)

FairSpec == Spec /\ Fairness

-----------------------------------------------------------------------------
(* Properties.                                                             *)

\* What the poller, the state, a flush or the table knows about a message was
\* handed to the emitter before, so no end of the process, no failed or late
\* flush makes it skip a message: polling.go:85-117, pollstate.go:86-157.
KnownWasHandedOver ==
    \A m \in Mail :
     \A k \in {entry, state, row} \cup {flush[f].copy : f \in Flushes} \cup {poll[p].copy : p \in Polls} :
        k.known[m] # None => <<m, k.known[m]>> \in handed

\* A message is reported once, and once more for each change of its flag and
\* for each end of the process, however the flushes fall: the copy that is
\* loaded may be old.  A poll that begins beside another one pays for two more:
\* one of the two reports what the other has reported, and may leave a hash in
\* the entry that the next poll takes back: polling.go:37, 85, 103.
RepeatsArePaidFor ==
    \A m \in Mail : events[m] <= 1 + flips[m] + restarts + 2 * overlaps

\* What the poller knows reaches the table, as long as the flush loop runs: a
\* flush that takes the mark of a newer state away (pollstate.go:122), or a poll
\* that writes an older copy over a newer one (polling.go:112), delays it until
\* the next poll, which copies the entry and marks the state again (polling.go:117).
KnownIsSaved == \A m \in Mail : []<>(row.known[m] = entry.known[m] \/ ~ticking)

Reported(m)  == \E h \in BOOLEAN : <<m, h>> \in handed
ReadFirst(m) == UnseenOnly /\ m \in seen

\* "Fires when the poller observes a new message" (email/register.go:32): a
\* message that arrives is handed to the emitter, unless its owner reads it first.
\* The pages of the mailbox go from new to old (imap.go:83-90, 128) and the
\* cursor of the last page stays (polling.go:100): what arrives later is above it.
NewMailIsReported ==
    \A m \in Mail : (m <= arrived) ~> (Reported(m) \/ ReadFirst(m))

=============================================================================
