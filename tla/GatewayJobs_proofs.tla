------------------------- MODULE GatewayJobs_proofs -------------------------
(***************************************************************************)
(* Proofs about GatewayJobs, for any jobs, workers, slots and bounds.  The *)
(* argument: whatever handlers have read, a row only ever makes one of the *)
(* moves below, and each of them respects what the lease, the claims and   *)
(* the result of a row have to do with its status, and is a step of        *)
(* JobLifecycle.                                                           *)
(***************************************************************************)
EXTENDS GatewayJobs, FiniteSetTheorems, TLAPS

(* What a row and the count of its lapses have to do with each other.      *)
RowInv(j) ==
    /\ row[j].status = "running" <=> row[j].lease # "none"
    /\ row[j].status = "running" => row[j].worker \in Workers
    /\ row[j].status \in {"absent", "pending"} => row[j].worker = None
    /\ row[j].status \notin Terminal => row[j].result = 0
    /\ row[j].claim <= lapses[j]
          + (IF row[j].status \in Terminal \/ row[j].lease = "live" THEN 1 ELSE 0)

(* A CLI and its report belong to a claim that was made, and a job that is *)
(* about to be canceled exists.                                            *)
HandInv ==
    /\ \A s \in Slots : Busy(s) => slot[s].claim \in 1..row[slot[s].job].claim
    /\ \A c \in completing : c.claim \in 1..row[c.job].claim
    /\ \A p \in cancels : row[p[1]].status # "absent"

IInv == TypeOK /\ HandInv /\ \A j \in Jobs : RowInv(j)

(* The moves of a row.                                                     *)
Stays(j) == row'[j] = row[j] /\ lapses'[j] = lapses[j]
IsCreated(j) ==
    /\ row[j].status = "absent" /\ lapses'[j] = lapses[j]
    /\ \E b \in Nat : row'[j] = [row[j] EXCEPT !.status = "pending", !.born = b]
IsReclaimed(j) ==
    /\ row[j].status = "running" /\ row[j].lease = "expired" /\ lapses'[j] = lapses[j]
    /\ row'[j] = [row[j] EXCEPT !.status = "pending", !.worker = None, !.lease = "none"]
IsClaimed(j) ==
    /\ row[j].status = "pending" /\ lapses'[j] = lapses[j]
    /\ \E w \in Workers :
          row'[j] = [row[j] EXCEPT !.status = "running", !.worker = w, !.lease = "live",
                                   !.claim = row[j].claim + 1]
IsRenewed(j) ==
    /\ row[j].status = "running" /\ lapses'[j] = lapses[j]
    /\ row'[j] = [row[j] EXCEPT !.lease = "live"]
IsLapsed(j) ==
    /\ row[j].status = "running" /\ row[j].lease = "live" /\ lapses'[j] = lapses[j] + 1
    /\ row'[j] = [row[j] EXCEPT !.lease = "expired"]
IsCompleted(j) ==
    /\ row[j].status = "running" /\ lapses'[j] = lapses[j]
    /\ \E o \in Finished, c \in 1..row[j].claim :
          row'[j] = [row[j] EXCEPT !.status = o, !.lease = "none", !.result = c]
IsCanceled(j) ==
    /\ row[j].status # "absent" /\ lapses'[j] = lapses[j]
    /\ \E who \in Asking : <<j, who>> \in cancels
    /\ row'[j] = [row[j] EXCEPT !.status = "canceled", !.lease = "none"]

Moves(j) ==
    \/ Stays(j) \/ IsCreated(j) \/ IsReclaimed(j) \/ IsClaimed(j)
    \/ IsRenewed(j) \/ IsLapsed(j) \/ IsCompleted(j) \/ IsCanceled(j)

-----------------------------------------------------------------------------
(* Each move keeps the invariant of the row and the outcome it has.        *)

(* A legal move of a row keeps the invariant of the row.                   *)
LEMMA MovesKeep ==
    ASSUME NEW j \in Jobs, row[j] \in RowType, lapses[j] \in Nat, RowInv(j), Moves(j)
    PROVE  RowInv(j)'
<1> USE DEF RowInv, RowType, Statuses, Terminal, Finished, Leases
<1>1. CASE Stays(j)
    BY <1>1 DEF Stays
<1>2. CASE IsCreated(j)
    BY <1>2 DEF IsCreated
<1>3. CASE IsReclaimed(j)
    BY <1>3 DEF IsReclaimed
<1>4. CASE IsClaimed(j)
    <2>1. PICK w \in Workers :
              row'[j] = [row[j] EXCEPT !.status = "running", !.worker = w, !.lease = "live",
                                       !.claim = row[j].claim + 1]
        BY <1>4 DEF IsClaimed
    <2>2. /\ row'[j].status = "running" /\ row'[j].worker = w /\ row'[j].lease = "live"
          /\ row'[j].claim = row[j].claim + 1 /\ row'[j].result = row[j].result
        BY <2>1
    <2>3. row[j].claim <= lapses[j] /\ row[j].result = 0 /\ lapses'[j] = lapses[j]
        BY <1>4 DEF IsClaimed
    <2> QED BY <2>2, <2>3
<1>5. CASE IsRenewed(j)
    BY <1>5 DEF IsRenewed
<1>6. CASE IsLapsed(j)
    BY <1>6 DEF IsLapsed
<1>7. CASE IsCompleted(j)
    BY <1>7 DEF IsCompleted
<1>8. CASE IsCanceled(j)
    BY <1>8 DEF IsCanceled
<1> QED BY <1>1, <1>2, <1>3, <1>4, <1>5, <1>6, <1>7, <1>8 DEF Moves

(* A legal move of a row keeps its type.                                   *)
LEMMA MovesType ==
    ASSUME NEW j \in Jobs, row[j] \in RowType, lapses[j] \in Nat, Moves(j)
    PROVE  row'[j] \in RowType /\ lapses'[j] \in Nat
<1> USE DEF RowType, Statuses, Terminal, Finished, Leases
<1>1. CASE Stays(j)
    BY <1>1 DEF Stays
<1>2. CASE IsCreated(j)
    BY <1>2 DEF IsCreated
<1>3. CASE IsReclaimed(j)
    BY <1>3 DEF IsReclaimed
<1>4. CASE IsClaimed(j)
    <2>1. row[j].claim + 1 \in Nat
        OBVIOUS
    <2> QED BY <1>4, <2>1 DEF IsClaimed
<1>5. CASE IsRenewed(j)
    BY <1>5 DEF IsRenewed
<1>6. CASE IsLapsed(j)
    BY <1>6 DEF IsLapsed
<1>7. CASE IsCompleted(j)
    <2>1. \A c \in 1..row[j].claim : c \in Nat
        OBVIOUS
    <2> QED BY <1>7, <2>1 DEF IsCompleted
<1>8. CASE IsCanceled(j)
    BY <1>8 DEF IsCanceled
<1> QED BY <1>1, <1>2, <1>3, <1>4, <1>5, <1>6, <1>7, <1>8 DEF Moves

(* OutcomesStick, for one row and one step.                                *)
Sticks(j) ==
    /\ row[j].status = "canceled" => row'[j].status = "canceled"
    /\ row[j].result # 0 => row'[j].result = row[j].result

(* A legal move never rewrites an outcome.                                 *)
LEMMA MovesStick ==
    ASSUME NEW j \in Jobs, row[j] \in RowType, RowInv(j), Moves(j)
    PROVE  Sticks(j)
BY DEF Sticks, RowInv, RowType, Terminal, Finished, Moves, Stays, IsCreated, IsReclaimed,
       IsClaimed, IsRenewed, IsLapsed, IsCompleted, IsCanceled

-----------------------------------------------------------------------------
(* Every statement on the table makes moves only.                          *)

RowsMove ==
    /\ row' = [j \in Jobs |-> row'[j]] /\ lapses' = [j \in Jobs |-> lapses'[j]]
    /\ \A j \in Jobs : Moves(j)

(* A step that leaves the table alone moves no row.                        *)
LEMMA SameMoves == ASSUME TypeOK, UNCHANGED <<row, lapses>> PROVE RowsMove
BY DEF TypeOK, RowsMove, Moves, Stays

(* The reclaim of expired leases makes legal moves.                        *)
LEMMA ReclaimMoves == ASSUME TypeOK, ReclaimExpired, UNCHANGED lapses PROVE RowsMove
BY DEF TypeOK, ReclaimExpired, Reclaimed, RowsMove, Moves, Stays, IsReclaimed

(* A statement on the row of one job.                                      *)
LEMMA OneMoves ==
    ASSUME TypeOK, NEW k \in Jobs, NEW r, row' = [row EXCEPT ![k] = r],
           lapses' = [j \in Jobs |-> lapses'[j]],
           \A j \in Jobs \ {k} : lapses'[j] = lapses[j], Moves(k)
    PROVE  RowsMove
<1>1. row' = [j \in Jobs |-> row'[j]] /\ \A j \in Jobs \ {k} : row'[j] = row[j]
    BY DEF TypeOK
<1> QED BY <1>1 DEF RowsMove, Moves, Stays

(* The creation of a job is a legal move.                                  *)
LEMMA CreateMoves == ASSUME TypeOK, NEW k \in Jobs, Create(k) PROVE RowsMove
<1> DEFINE b == 1 + Cardinality({i \in Jobs : row[i].status # "absent"})
<1>1. b \in Nat
    <2>1. IsFiniteSet({i \in Jobs : row[i].status # "absent"})
        BY GatewayAssumption, FS_Subset
    <2> QED BY <2>1, FS_CardinalityType
<1>2. row' = [Reclaimed EXCEPT ![k].status = "pending", ![k].born = b] /\ UNCHANGED lapses
    BY DEF Create
<1> HIDE DEF b
<1>3. /\ row' = [j \in Jobs |-> row'[j]]
      /\ \A j \in Jobs \ {k} : row'[j] = Reclaimed[j]
      /\ row'[k] = [Reclaimed[k] EXCEPT !.status = "pending", !.born = b]
    BY <1>2 DEF Reclaimed
<1>4. row[k].status = "absent" /\ Reclaimed[k] = row[k]
    BY DEF Create, Reclaimed
<1>5. Moves(k)
    BY <1>1, <1>2, <1>3, <1>4 DEF Moves, IsCreated
<1>6. \A j \in Jobs \ {k} : Moves(j)
    BY <1>2, <1>3 DEF Reclaimed, Moves, Stays, IsReclaimed
<1> QED BY <1>2, <1>3, <1>5, <1>6 DEF RowsMove, TypeOK

(* A claim is a legal move.                                                *)
LEMMA ClaimedMoves ==
    ASSUME TypeOK, NEW k \in Jobs, NEW w \in Workers, StillPending(k), Claimed(k, w),
           UNCHANGED lapses
    PROVE  RowsMove
<1>1. row' = [row EXCEPT ![k] = [row[k] EXCEPT !.status = "running", !.worker = w,
                                    !.lease = "live", !.claim = row[k].claim + 1]]
    BY DEF Claimed, TypeOK
<1>2. Moves(k)
    BY <1>1 DEF TypeOK, Moves, IsClaimed, StillPending
<1> QED BY <1>1, <1>2, OneMoves DEF TypeOK

(* A renewal of a lease is a legal move.                                   *)
LEMMA RenewMoves ==
    ASSUME TypeOK, NEW k \in Jobs, NEW w \in Workers, MayRenew(k, w),
           row' = [row EXCEPT ![k].lease = "live"], UNCHANGED lapses
    PROVE  RowsMove
<1>1. row' = [row EXCEPT ![k] = [row[k] EXCEPT !.lease = "live"]]
    BY DEF TypeOK
<1>2. Moves(k)
    BY <1>1 DEF TypeOK, Moves, IsRenewed, MayRenew
<1> QED BY <1>1, <1>2, OneMoves DEF TypeOK

(* A completion is a legal move.                                           *)
LEMMA CompletedMoves ==
    ASSUME TypeOK, NEW k \in Jobs, NEW o \in Finished, NEW c \in 1..row[k].claim,
           StillRunning(k), Completed(k, o, c), UNCHANGED lapses
    PROVE  RowsMove
<1>1. row' = [row EXCEPT ![k] = [row[k] EXCEPT !.status = o, !.lease = "none", !.result = c]]
    BY DEF Completed, TypeOK
<1>2. Moves(k)
    BY <1>1 DEF TypeOK, Moves, IsCompleted, StillRunning
<1> QED BY <1>1, <1>2, OneMoves DEF TypeOK

(* A cancellation is a legal move.                                         *)
LEMMA CanceledMoves ==
    ASSUME TypeOK, NEW k \in Jobs, NEW who \in Asking, <<k, who>> \in cancels,
           row[k].status # "absent", Canceled(k), UNCHANGED lapses
    PROVE  RowsMove
<1>1. row' = [row EXCEPT ![k] = [row[k] EXCEPT !.status = "canceled", !.lease = "none"]]
    BY DEF Canceled, TypeOK
<1>2. Moves(k)
    BY <1>1 DEF TypeOK, Moves, IsCanceled
<1> QED BY <1>1, <1>2, OneMoves DEF TypeOK

(* The end of a lease is a legal move.                                     *)
LEMMA LapseMoves == ASSUME TypeOK, NEW k \in Jobs, LeaseExpires(k) PROVE RowsMove
<1>1. row' = [row EXCEPT ![k] = [row[k] EXCEPT !.lease = "expired"]]
    BY DEF LeaseExpires, TypeOK
<1>2. lapses' = [j \in Jobs |-> lapses'[j]] /\ \A j \in Jobs \ {k} : lapses'[j] = lapses[j]
    BY DEF LeaseExpires, TypeOK
<1>3. Moves(k)
    BY <1>1 DEF TypeOK, Moves, IsLapsed, LeaseExpires
<1> QED BY <1>1, <1>2, <1>3, OneMoves

(* Whatever step is taken, every row makes a legal move.                   *)
LEMMA NextMoves == ASSUME TypeOK, HandInv, [Next]_vars PROVE RowsMove
<1>1. ASSUME NEW j \in Jobs, Wait(j) PROVE RowsMove
    BY <1>1, SameMoves, ReclaimMoves, CreateMoves
       DEF Wait, Poll, StopWaiting, CancelRead
<1>2. ASSUME NEW j \in Jobs, LeaseExpires(j) PROVE RowsMove
    BY <1>2, LapseMoves
<1>3. ASSUME NEW j \in Jobs, NEW who \in Asking, CancelUpdate(j, who) PROVE RowsMove
    <2>1. <<j, who>> \in cancels /\ row[j].status # "absent"
        BY <1>3 DEF CancelUpdate, HandInv
    <2> QED BY <1>3, <2>1, SameMoves, CanceledMoves DEF CancelUpdate
<1>4. ASSUME NEW s \in Slots, Claim(s) PROVE RowsMove
    <2>1. CASE ClaimStart(s) \/ ClaimQuery(s)
        BY <2>1, SameMoves, ReclaimMoves DEF ClaimStart, ClaimQuery
    <2>2. CASE ClaimUpdate(s)
        <3>1. slot[s].job \in Jobs /\ Home[s] \in Workers
            BY <2>2, GatewayAssumption DEF ClaimUpdate, TypeOK
        <3> QED BY <2>2, <3>1, SameMoves, ClaimedMoves DEF ClaimUpdate
    <2> QED BY <1>4, <2>1, <2>2 DEF Claim
<1>5. ASSUME NEW s \in Slots, Watch(s) PROVE RowsMove
    <2>1. CASE Heartbeat(s) \/ WatchCancel(s)
        BY <2>1, ReclaimMoves DEF Heartbeat, WatchCancel
    <2>2. CASE RenewLease(s)
        <3>1. beat[s] \in Jobs /\ Home[s] \in Workers
            BY <2>2, GatewayAssumption DEF RenewLease, TypeOK
        <3> QED BY <2>2, <3>1, SameMoves, RenewMoves DEF RenewLease
    <2> QED BY <1>5, <2>1, <2>2 DEF Watch
<1>6. ASSUME NEW s \in Slots, CliExits(s) \/ Finish(s) \/ ClientTimeout(s) PROVE RowsMove
    BY <1>6, SameMoves, ReclaimMoves
       DEF CliExits, CliKilled, Exit, Finish, CheckCanceled, CompleteRead, ClientTimeout
<1>7. ASSUME NEW c \in completing, CompleteUpdate(c) PROVE RowsMove
    <2>1. c.job \in Jobs /\ c.status \in Finished /\ c.claim \in 1..row[c.job].claim
        BY DEF TypeOK, HandInv
    <2> QED BY <1>7, <2>1, SameMoves, CompletedMoves DEF CompleteUpdate
<1>8. ASSUME NEW w \in Workers, WorkerStops(w) PROVE RowsMove
    BY <1>8, SameMoves DEF WorkerStops
<1>9. CASE IdleHeartbeat
    BY <1>9, ReclaimMoves DEF IdleHeartbeat
<1>10. CASE UNCHANGED vars
    BY <1>10, SameMoves DEF vars
<1> QED BY <1>1, <1>2, <1>3, <1>4, <1>5, <1>6, <1>7, <1>8, <1>9, <1>10 DEF Next

-----------------------------------------------------------------------------
(* Claims that were made.                                                  *)

(* Claims are never taken back, and a row stays.                           *)
LEMMA RowsGrow ==
    ASSUME TypeOK, RowsMove, NEW j \in Jobs
    PROVE  /\ row[j].claim \in Nat /\ row'[j].claim \in Nat
           /\ row[j].claim <= row'[j].claim
           /\ row[j].status # "absent" => row'[j].status # "absent"
<1>1. row[j] \in RowType /\ Moves(j)
    BY DEF TypeOK, RowsMove
<1>2. CASE IsClaimed(j)
    BY <1>1, <1>2 DEF RowType, IsClaimed
<1>3. CASE IsCompleted(j)
    BY <1>1, <1>3 DEF RowType, Finished, IsCompleted
<1>4. CASE ~IsClaimed(j) /\ ~IsCompleted(j)
    <2>1. row'[j].claim = row[j].claim /\ (row[j].status # "absent" => row'[j].status # "absent")
        BY <1>1, <1>4 DEF RowType, Moves, Stays, IsCreated, IsReclaimed, IsRenewed, IsLapsed, IsCanceled
    <2>2. row[j].claim \in Nat
        BY <1>1 DEF RowType
    <2> QED BY <2>1, <2>2
<1> QED BY <1>2, <1>3, <1>4

\* The slots that were at work keep their job and their claim.
SlotsKept ==
    \A s \in Slots : Busy(s)' =>
        Busy(s) /\ slot'[s].job = slot[s].job /\ slot'[s].claim = slot[s].claim

(* A slot that goes on with its job, or is freed, keeps its claim.         *)
LEMMA SetKept ==
    ASSUME TypeOK, NEW s \in Slots, NEW r, Set(s, r),
           r.pc \in {"run", "exited", "report", "wait"} =>
              Busy(s) /\ r.job = slot[s].job /\ r.claim = slot[s].claim
    PROVE  SlotsKept
BY DEF TypeOK, Set, SlotsKept, Busy

(* Only a claim puts a slot to work.                                       *)
LEMMA NextKept ==
    ASSUME TypeOK, [Next]_vars, \A s \in Slots : ~ClaimUpdate(s)
    PROVE  SlotsKept
<1>0. ASSUME UNCHANGED slot PROVE SlotsKept
    BY <1>0 DEF SlotsKept, Busy
<1>f. ASSUME NEW s \in Slots, Set(s, Free) PROVE SlotsKept
    BY <1>f, SetKept DEF Free
<1>t. \A s \in Slots : slot[s] \in SlotType
    BY DEF TypeOK
<1>1. ASSUME NEW s \in Slots, Claim(s) PROVE SlotsKept
    <2>1. CASE ClaimStart(s)
        BY <2>1, SetKept DEF ClaimStart, Free
    <2>2. CASE ClaimQuery(s)
        <3>1. ASSUME NEW j \in Oldest, Set(s, [slot[s] EXCEPT !.pc = "claim", !.job = j])
              PROVE  SlotsKept
            <4>1. [slot[s] EXCEPT !.pc = "claim", !.job = j].pc = "claim"
                BY <1>t DEF SlotType
            <4> QED BY <3>1, <4>1, SetKept
        <3> QED BY <2>2, <3>1, <1>f DEF ClaimQuery
    <2> QED BY <1>1, <2>1, <2>2 DEF Claim
<1>2. ASSUME NEW s \in Slots, Heartbeat(s) \/ RenewLease(s) PROVE SlotsKept
    BY <1>0, <1>2 DEF Heartbeat, RenewLease
<1>3. ASSUME NEW s \in Slots, WatchCancel(s) \/ CliExits(s) \/ CliKilled(s) PROVE SlotsKept
    <2>1. PICK l \in {"run", "exited"}, k \in BOOLEAN, o \in Finished :
             Set(s, [slot[s] EXCEPT !.pc = l, !.killed = k, !.outcome = o])
        <3>1. slot[s] \in SlotType /\ slot[s].pc = "run"
            BY <1>3, <1>t DEF WatchCancel, CliExits, CliKilled, Exit
        <3>2. [slot[s] EXCEPT !.killed = TRUE]
                = [slot[s] EXCEPT !.pc = "run", !.killed = TRUE, !.outcome = slot[s].outcome]
            BY <3>1 DEF SlotType
        <3>3. \A o \in Finished : [slot[s] EXCEPT !.pc = "exited", !.outcome = o]
                = [slot[s] EXCEPT !.pc = "exited", !.killed = slot[s].killed, !.outcome = o]
            BY <3>1 DEF SlotType
        <3>4. slot[s].killed \in BOOLEAN /\ slot[s].outcome \in Finished
            BY <3>1 DEF SlotType
        <3>5. CASE WatchCancel(s)
            BY <3>2, <3>4, <3>5 DEF WatchCancel
        <3>6. CASE CliExits(s) \/ CliKilled(s)
            BY <3>3, <3>4, <3>6 DEF CliExits, CliKilled, Exit
        <3> QED BY <1>3, <3>5, <3>6
    <2>2. Busy(s)
        BY <1>3 DEF WatchCancel, CliExits, CliKilled, Exit, Busy
    <2> QED BY <1>t, <2>1, <2>2, SetKept DEF SlotType
<1>4. ASSUME NEW s \in Slots, CheckCanceled(s) PROVE SlotsKept
    <2>1. Set(s, Free) \/ Set(s, [slot[s] EXCEPT !.pc = "report", !.outcome = "failed"])
        BY <1>4 DEF CheckCanceled
    <2>2. Busy(s)
        BY <1>4 DEF CheckCanceled, Busy
    <2>3. LET r == [slot[s] EXCEPT !.pc = "report", !.outcome = "failed"]
          IN  r.job = slot[s].job /\ r.claim = slot[s].claim
        BY <1>t DEF SlotType
    <2> QED BY <1>f, <2>1, <2>2, <2>3, SetKept
<1>5. ASSUME NEW s \in Slots, CompleteRead(s) PROVE SlotsKept
    <2>1. Set(s, Free) \/ Set(s, [slot[s] EXCEPT !.pc = "wait"])
        BY <1>5 DEF CompleteRead
    <2>2. Busy(s)
        BY <1>5 DEF CompleteRead, Reporting, Busy
    <2>3. LET r == [slot[s] EXCEPT !.pc = "wait"]
          IN  r.job = slot[s].job /\ r.claim = slot[s].claim
        BY <1>t DEF SlotType
    <2> QED BY <1>f, <2>1, <2>2, <2>3, SetKept
<1>6. ASSUME NEW s \in Slots, ClientTimeout(s) PROVE SlotsKept
    BY <1>6, <1>f DEF ClientTimeout
<1>7. ASSUME NEW c \in completing, CompleteUpdate(c) PROVE SlotsKept
    BY <1>7 DEF CompleteUpdate, Answer, SlotsKept, Busy, Free
<1>8. ASSUME NEW w \in Workers, WorkerStops(w) PROVE SlotsKept
    BY <1>8 DEF WorkerStops, SlotsKept, Busy, Free
<1>9. ASSUME NEW j \in Jobs, Wait(j) \/ LeaseExpires(j) \/ \E who \in Asking : CancelUpdate(j, who)
      PROVE  SlotsKept
    BY <1>0, <1>9 DEF Wait, Create, Poll, StopWaiting, CancelRead, LeaseExpires, CancelUpdate
<1>10. CASE IdleHeartbeat \/ UNCHANGED vars
    BY <1>0, <1>10 DEF IdleHeartbeat, vars
<1> QED BY <1>1, <1>2, <1>3, <1>4, <1>5, <1>6, <1>7, <1>8, <1>9, <1>10
        DEF Next, Claim, Watch, Finish

(* A report that is validated is the one of its slot, and a cancellation   *)
(* has read the row.                                                       *)
LEMMA NextReports ==
    ASSUME TypeOK, [Next]_vars
    PROVE  /\ \A c \in completing' \ completing : \E s \in Slots : Busy(s) /\ c = Report(s)
           /\ \A p \in cancels' \ cancels : row[p[1]].status # "absent"
<1>1. ASSUME NEW s \in Slots, CompleteRead(s)
      PROVE  /\ Busy(s) /\ completing' \subseteq completing \cup {Report(s)}
             /\ UNCHANGED cancels
    BY <1>1 DEF CompleteRead, Reporting, Busy
<1>2. ASSUME NEW j \in Jobs, CancelRead(j)
      PROVE  /\ row[j].status # "absent" /\ UNCHANGED completing
             /\ cancels' \subseteq cancels \cup {<<j, "waiter">>, <<j, "user">>}
    BY <1>2 DEF CancelRead
<1>3. ASSUME \A s \in Slots : ~CompleteRead(s), \A j \in Jobs : ~CancelRead(j)
      PROVE  completing' \subseteq completing /\ cancels' \subseteq cancels
    BY <1>3 DEF Next, Wait, Create, Poll, StopWaiting, CancelUpdate, LeaseExpires, Claim, ClaimStart,
       ClaimQuery, ClaimUpdate, Watch, Heartbeat, RenewLease, WatchCancel, CliExits, Finish,
       CliKilled, Exit, CheckCanceled, ClientTimeout, CompleteUpdate, WorkerStops, IdleHeartbeat, vars
<1> QED BY <1>1, <1>2, <1>3

CancelsTyped == cancels \subseteq Jobs \X Asking

(* Cancellations are of jobs.                                              *)
LEMMA NextCancels == ASSUME TypeOK, [Next]_vars PROVE CancelsTyped'
<1>1. ASSUME NEW j \in Jobs, CancelRead(j) PROVE CancelsTyped'
    BY <1>1 DEF CancelRead, TypeOK, CancelsTyped, Asking
<1>2. ASSUME \A j \in Jobs : ~CancelRead(j) PROVE cancels' \subseteq cancels
    BY <1>2 DEF Next, Wait, Create, Poll, StopWaiting, CancelUpdate, LeaseExpires, Claim, ClaimStart,
       ClaimQuery, ClaimUpdate, Watch, Heartbeat, RenewLease, WatchCancel, CliExits, Finish,
       CliKilled, Exit, CheckCanceled, CompleteRead, ClientTimeout, CompleteUpdate, WorkerStops,
       IdleHeartbeat, vars
<1> QED BY <1>1, <1>2 DEF TypeOK, CancelsTyped

(* Every step keeps the claims of slots and reports.                       *)
LEMMA HandStep == ASSUME TypeOK, HandInv, [Next]_vars PROVE HandInv'
<1>1. RowsMove
    BY NextMoves
<1>2. ASSUME NEW s \in Slots, Busy(s) PROVE slot[s].job \in Jobs
    BY <1>2 DEF Busy, TypeOK
<1>3. ASSUME NEW j \in Jobs, NEW n \in 1..row[j].claim PROVE n \in 1..row'[j].claim
    BY <1>1, RowsGrow
<1>4. \A s \in Slots : Busy(s)' => slot'[s].claim \in 1..row'[slot'[s].job].claim
    <2>1. CASE \A s \in Slots : ~ClaimUpdate(s)
        <3>1. SlotsKept
            BY <2>1, NextKept
        <3> QED BY <1>2, <1>3, <3>1 DEF SlotsKept, HandInv
    <2>2. ASSUME NEW s \in Slots, ClaimUpdate(s), NEW u \in Slots, Busy(u)'
          PROVE  slot'[u].claim \in 1..row'[slot'[u].job].claim
        <3>1. PICK r : Set(s, r)
            BY <2>2 DEF ClaimUpdate
        <3>2. CASE u # s
            <4>1. slot'[u] = slot[u] /\ Busy(u)
                BY <2>2, <3>1, <3>2 DEF Set, TypeOK, Busy
            <4> QED BY <1>2, <1>3, <4>1 DEF HandInv
        <3>3. CASE u = s
            <4>1. /\ slot[s].pc = "claim" /\ slot[s].job \in Jobs /\ slot[s] \in SlotType
                  /\ row[slot[s].job].claim \in Nat
                BY <2>2, <1>1, RowsGrow DEF ClaimUpdate, TypeOK
            <4>2. /\ Claimed(slot[s].job, Home[s])
                  /\ Set(s, [slot[s] EXCEPT !.pc = "run", !.claim = row[slot[s].job].claim + 1])
                <5>0. slot'[s].pc \notin {"query", "free"}
                    BY <2>2, <3>3 DEF Busy
                <5>1. /\ Free.pc = "free"
                      /\ [Free EXCEPT !.pc = "query", !.tries = slot[s].tries + 1].pc = "query"
                    BY DEF Free
                <5>2. \A q : Set(s, q) => slot'[s] = q
                    BY DEF Set, TypeOK
                <5>3. ~Set(s, Free) /\ ~Set(s, [Free EXCEPT !.pc = "query", !.tries = slot[s].tries + 1])
                    BY <5>0, <5>1, <5>2
                <5> QED BY <2>2, <5>3 DEF ClaimUpdate
            <4>3. slot'[s].claim = row[slot[s].job].claim + 1 /\ slot'[s].job = slot[s].job
                BY <4>1, <4>2 DEF Set, TypeOK, SlotType
            <4>4. row'[slot[s].job].claim = row[slot[s].job].claim + 1
                BY <4>1, <4>2 DEF Claimed, TypeOK, RowType
            <4> QED BY <3>3, <4>1, <4>3, <4>4
        <3> QED BY <3>2, <3>3
    <2> QED BY <2>1, <2>2
<1>5. ASSUME NEW c \in completing' PROVE c.claim \in 1..row'[c.job].claim
    <2>1. CASE c \in completing
        <3>1. c.job \in Jobs /\ c.claim \in 1..row[c.job].claim
            BY <2>1 DEF TypeOK, HandInv
        <3> QED BY <3>1, <1>3
    <2>2. CASE c \notin completing
        <3>1. PICK s \in Slots : Busy(s) /\ c = Report(s)
            BY <1>5, <2>2, NextReports
        <3>2. c.job = slot[s].job /\ c.claim = slot[s].claim
            BY <3>1 DEF Report
        <3> QED BY <1>2, <1>3, <3>1, <3>2 DEF HandInv
    <2> QED BY <2>1, <2>2
<1>6. ASSUME NEW p \in cancels' PROVE row'[p[1]].status # "absent"
    <2>1. CancelsTyped'
        BY NextCancels
    <2>2. p[1] \in Jobs /\ row[p[1]].status # "absent"
        BY <1>6, <2>1, NextReports DEF CancelsTyped, HandInv
    <2> QED BY <1>1, <2>2, RowsGrow
<1> QED BY <1>4, <1>5, <1>6 DEF HandInv

-----------------------------------------------------------------------------
(* The types of everything but the table.                                  *)

RestType ==
    /\ waiter \in [Jobs -> Waiters]
    /\ cancels \subseteq Jobs \X Asking
    /\ slot \in [Slots -> SlotType]
    /\ \A s \in Slots : slot[s].pc \notin {"free", "query"} => slot[s].job \in Jobs
    /\ beat \in [Slots -> Jobs \cup {None}]
    /\ completing \subseteq [slot : Slots, job : Jobs, claim : Nat, status : Finished]
    /\ late \in 0..MaxLate /\ faults \in 0..MaxFaults
    /\ stops \in 0..MaxStops /\ userCancels \in 0..MaxCancels

CountersType ==
    /\ late \in 0..MaxLate /\ faults \in 0..MaxFaults
    /\ stops \in 0..MaxStops /\ userCancels \in 0..MaxCancels

SlotsType ==
    /\ slot \in [Slots -> SlotType]
    /\ \A s \in Slots : slot[s].pc \notin {"free", "query"} => slot[s].job \in Jobs

(* The free slot has the type of a slot.                                   *)
LEMMA FreeType == Free \in SlotType /\ Free.pc = "free"
BY DEF Free, SlotType, SlotPCs, Finished

(* The fault counters keep their types.                                    *)
LEMMA CountersTyped == ASSUME TypeOK, Fail \/ UNCHANGED counters PROVE CountersType'
BY GatewayAssumption DEF TypeOK, Fail, counters, CountersType

(* A slot that is set to a slot of its type leaves the slots typed.        *)
LEMMA SetTyped ==
    ASSUME TypeOK, NEW s \in Slots, NEW r \in SlotType, Set(s, r),
           r.pc \notin {"free", "query"} => r.job \in Jobs
    PROVE  SlotsType'
BY DEF TypeOK, Set, SlotsType

(* A slot that is freed leaves the slots typed.                            *)
LEMMA SetFreeTyped == ASSUME TypeOK, NEW s \in Slots, Set(s, Free) PROVE SlotsType'
BY FreeType, SetTyped

(* Slots that are left alone stay typed.                                   *)
LEMMA SameSlots == ASSUME TypeOK, UNCHANGED slot PROVE SlotsType'
BY DEF TypeOK, SlotsType

(* The steps of a claim keep the types of callers, slots and handlers.     *)
LEMMA ClaimType == ASSUME TypeOK, NEW s \in Slots, Claim(s) PROVE RestType'
<1>1. slot[s] \in SlotType
    BY DEF TypeOK
<1>2. CASE ClaimStart(s)
    <2>1. [Free EXCEPT !.pc = "query"] \in SlotType
        BY FreeType DEF SlotType, SlotPCs
    <2>2. [Free EXCEPT !.pc = "query"].pc = "query"
        BY DEF Free
    <2>3. SlotsType'
        BY <1>2, <2>1, <2>2, SetTyped DEF ClaimStart
    <2> QED BY <1>2, <2>3 DEF ClaimStart, counters, TypeOK, RestType, SlotsType
<1>3. CASE ClaimQuery(s)
    <2>1. SlotsType'
        <3>1. ASSUME NEW j \in Oldest, Set(s, [slot[s] EXCEPT !.pc = "claim", !.job = j])
              PROVE  SlotsType'
            <4>1. j \in Jobs
                BY DEF Oldest, Pending
            <4>2. [slot[s] EXCEPT !.pc = "claim", !.job = j] \in SlotType
                BY <1>1, <4>1 DEF SlotType, SlotPCs
            <4>3. [slot[s] EXCEPT !.pc = "claim", !.job = j].job = j
                BY <1>1 DEF SlotType
            <4> QED BY <3>1, <4>1, <4>2, <4>3, SetTyped
        <3> QED BY <1>3, <3>1, SetFreeTyped DEF ClaimQuery
    <2>2. CountersType'
        BY <1>3, CountersTyped DEF ClaimQuery
    <2> QED BY <1>3, <2>1, <2>2 DEF ClaimQuery, TypeOK, RestType, SlotsType, CountersType
<1>4. CASE ClaimUpdate(s)
    <2>1. slot[s].job \in Jobs /\ slot[s].tries + 1 \in Nat /\ row[slot[s].job].claim + 1 \in Nat
        BY <1>1, <1>4 DEF ClaimUpdate, TypeOK, SlotType, RowType
    <2>2. CASE Set(s, [slot[s] EXCEPT !.pc = "run", !.claim = row[slot[s].job].claim + 1])
        <3>1. [slot[s] EXCEPT !.pc = "run", !.claim = row[slot[s].job].claim + 1] \in SlotType
            BY <1>1, <2>1 DEF SlotType, SlotPCs
        <3>2. [slot[s] EXCEPT !.pc = "run", !.claim = row[slot[s].job].claim + 1].job = slot[s].job
            BY <1>1 DEF SlotType
        <3> QED BY <1>4, <2>1, <2>2, <3>1, <3>2, SetTyped, CountersTyped
                DEF ClaimUpdate, TypeOK, RestType, SlotsType, CountersType
    <2>3. CASE Set(s, [Free EXCEPT !.pc = "query", !.tries = slot[s].tries + 1])
        <3>1. [Free EXCEPT !.pc = "query", !.tries = slot[s].tries + 1] \in SlotType
            BY <2>1, FreeType DEF SlotType, SlotPCs
        <3>2. [Free EXCEPT !.pc = "query", !.tries = slot[s].tries + 1].pc = "query"
            BY DEF Free
        <3> QED BY <1>4, <2>3, <3>1, <3>2, SetTyped, CountersTyped
                DEF ClaimUpdate, TypeOK, RestType, SlotsType, CountersType
    <2>4. CASE Set(s, Free)
        BY <1>4, <2>4, SetFreeTyped, CountersTyped
           DEF ClaimUpdate, TypeOK, RestType, SlotsType, CountersType
    <2> QED BY <1>4, <2>2, <2>3, <2>4 DEF ClaimUpdate
<1> QED BY <1>2, <1>3, <1>4 DEF Claim

(* The remaining steps of a slot leave it with its job, or free.           *)
LEMMA SlotKeepsJob ==
    ASSUME TypeOK, NEW s \in Slots, slot[s].job \in Jobs, NEW pc \in SlotPCs,
           NEW k \in BOOLEAN, NEW o \in Finished,
           Set(s, [slot[s] EXCEPT !.pc = pc, !.killed = k, !.outcome = o])
    PROVE  SlotsType'
<1>1. slot[s] \in SlotType
    BY DEF TypeOK
<1>2. [slot[s] EXCEPT !.pc = pc, !.killed = k, !.outcome = o] \in SlotType
    BY <1>1 DEF SlotType
<1>3. [slot[s] EXCEPT !.pc = pc, !.killed = k, !.outcome = o].job = slot[s].job
    BY <1>1 DEF SlotType
<1> QED BY <1>2, <1>3, SetTyped

(* The steps of a worker slot after its claim keep those types.            *)
LEMMA SlotStepType ==
    ASSUME TypeOK, NEW s \in Slots, CliExits(s) \/ Finish(s) \/ ClientTimeout(s) \/ Watch(s)
    PROVE  RestType'
<1>1. slot[s] \in SlotType
    BY DEF TypeOK
<1>2. CASE CliExits(s) \/ CliKilled(s)
    <2>1. PICK o \in Finished : Set(s, [slot[s] EXCEPT !.pc = "exited", !.outcome = o])
        BY <1>2 DEF CliExits, CliKilled, Exit
    <2>2. [slot[s] EXCEPT !.pc = "exited", !.outcome = o]
            = [slot[s] EXCEPT !.pc = "exited", !.killed = slot[s].killed, !.outcome = o]
        BY <1>1 DEF SlotType
    <2>3. slot[s].job \in Jobs
        BY <1>2 DEF CliExits, CliKilled, Exit, TypeOK
    <2>4. SlotsType'
        BY <1>1, <2>1, <2>2, <2>3, SlotKeepsJob DEF SlotType, SlotPCs
    <2> QED BY <1>2, <2>4 DEF CliExits, CliKilled, Exit, counters, TypeOK, RestType, SlotsType
<1>3. CASE CheckCanceled(s)
    <2>1. slot[s].job \in Jobs
        BY <1>3 DEF CheckCanceled, TypeOK
    <2>2. [slot[s] EXCEPT !.pc = "report", !.outcome = "failed"]
            = [slot[s] EXCEPT !.pc = "report", !.killed = slot[s].killed, !.outcome = "failed"]
        BY <1>1 DEF SlotType
    <2>3. Set(s, Free) \/ Set(s, [slot[s] EXCEPT !.pc = "report", !.outcome = "failed"])
        BY <1>3 DEF CheckCanceled
    <2>4. SlotsType'
        BY <1>1, <2>1, <2>2, <2>3, SlotKeepsJob, SetFreeTyped DEF SlotType, SlotPCs, Finished
    <2>5. CountersType'
        BY <1>3, CountersTyped DEF CheckCanceled
    <2> QED BY <1>3, <2>4, <2>5 DEF CheckCanceled, TypeOK, RestType, SlotsType, CountersType
<1>4. CASE CompleteRead(s)
    <2>1. slot[s].job \in Jobs
        BY <1>4 DEF CompleteRead, Reporting, TypeOK
    <2>2. [slot[s] EXCEPT !.pc = "wait"]
            = [slot[s] EXCEPT !.pc = "wait", !.killed = slot[s].killed, !.outcome = slot[s].outcome]
        BY <1>1 DEF SlotType
    <2>3. Set(s, Free) \/ Set(s, [slot[s] EXCEPT !.pc = "wait"])
        BY <1>4 DEF CompleteRead
    <2>4. SlotsType'
        <3>1. slot[s].killed \in BOOLEAN /\ slot[s].outcome \in Finished /\ "wait" \in SlotPCs
            BY <1>1 DEF SlotType, SlotPCs
        <3>2. CASE Set(s, [slot[s] EXCEPT !.pc = "wait", !.killed = slot[s].killed,
                                          !.outcome = slot[s].outcome])
            BY <2>1, <3>1, <3>2, SlotKeepsJob
        <3> QED BY <2>2, <2>3, <3>2, SetFreeTyped
    <2>5. Report(s) \in [slot : Slots, job : Jobs, claim : Nat, status : Finished]
        BY <1>1, <2>1 DEF Report, SlotType
    <2>6. CountersType'
        BY <1>4, CountersTyped DEF CompleteRead
    <2> QED BY <1>4, <2>4, <2>5, <2>6 DEF CompleteRead, TypeOK, RestType, SlotsType, CountersType
<1>5. CASE ClientTimeout(s)
    BY <1>5, SetFreeTyped, CountersTyped DEF ClientTimeout, TypeOK, RestType, SlotsType, CountersType
<1>6. CASE WatchCancel(s)
    <2>1. [slot[s] EXCEPT !.killed = TRUE]
            = [slot[s] EXCEPT !.pc = "run", !.killed = TRUE, !.outcome = slot[s].outcome]
        BY <1>1, <1>6 DEF SlotType, WatchCancel
    <2>2. slot[s].job \in Jobs
        BY <1>6 DEF WatchCancel, TypeOK
    <2>3. SlotsType'
        BY <1>1, <1>6, <2>1, <2>2, SlotKeepsJob DEF WatchCancel, SlotType, SlotPCs
    <2> QED BY <1>6, <2>3 DEF WatchCancel, counters, TypeOK, RestType, SlotsType
<1>7. CASE Heartbeat(s)
    <2>1. slot[s].job \in Jobs \cup {None}
        BY <1>1 DEF SlotType
    <2> QED BY <1>7, <2>1 DEF Heartbeat, counters, TypeOK, RestType
<1>8. CASE RenewLease(s)
    <2>1. CountersType'
        BY <1>8, CountersTyped DEF RenewLease
    <2>2. beat' \in [Slots -> Jobs \cup {None}]
        BY <1>8 DEF RenewLease, TypeOK
    <2>3. UNCHANGED <<waiter, cancels, slot, completing>>
        BY <1>8 DEF RenewLease
    <2> QED BY <2>1, <2>2, <2>3 DEF TypeOK, RestType, CountersType
<1> QED BY <1>2, <1>3, <1>4, <1>5, <1>6, <1>7, <1>8 DEF Finish, Watch

(* Every other step keeps those types.                                     *)
LEMMA OtherType ==
    ASSUME TypeOK, [Next]_vars,
           ~(\E s \in Slots : Claim(s) \/ Watch(s) \/ CliExits(s) \/ Finish(s) \/ ClientTimeout(s))
    PROVE  RestType'
<1>1. ASSUME NEW j \in Jobs, Wait(j) PROVE RestType'
    <2>1. waiter' \in [Jobs -> Waiters]
        BY <1>1 DEF Wait, Create, Poll, StopWaiting, CancelRead, Goes, TypeOK, Waiters
    <2>2. cancels' \subseteq Jobs \X Asking
        BY <1>1 DEF Wait, Create, Poll, StopWaiting, CancelRead, TypeOK, Asking
    <2>3. CountersType'
        <3>1. CASE CancelRead(j)
            <4>1. CASE userCancels < MaxCancels /\ userCancels' = userCancels + 1
                                /\ UNCHANGED <<late, faults, stops>>
                BY <4>1, GatewayAssumption DEF TypeOK, CountersType
            <4> QED BY <3>1, <4>1, CountersTyped DEF CancelRead
        <3> QED BY <1>1, <3>1, CountersTyped DEF Wait, Create, Poll, StopWaiting
    <2>4. UNCHANGED <<slot, beat, completing>>
        BY <1>1 DEF Wait, Create, Poll, StopWaiting, CancelRead
    <2> QED BY <2>1, <2>2, <2>3, <2>4 DEF TypeOK, RestType, CountersType
<1>2. ASSUME NEW j \in Jobs, LeaseExpires(j) PROVE RestType'
    <2>1. late' \in 0..MaxLate
        BY <1>2, GatewayAssumption DEF LeaseExpires, TypeOK
    <2> QED BY <1>2, <2>1 DEF LeaseExpires, TypeOK, RestType
<1>3. ASSUME NEW j \in Jobs, NEW who \in Asking, CancelUpdate(j, who) PROVE RestType'
    <2>1. waiter' \in [Jobs -> Waiters]
        BY <1>3 DEF CancelUpdate, Goes, TypeOK, Waiters
    <2>2. CountersType' /\ cancels' \subseteq cancels /\ UNCHANGED <<slot, beat, completing>>
        BY <1>3, CountersTyped DEF CancelUpdate
    <2> QED BY <2>1, <2>2 DEF TypeOK, RestType, CountersType
<1>4. ASSUME NEW c \in completing, CompleteUpdate(c) PROVE RestType'
    <2>1. SlotsType'
        BY <1>4, FreeType DEF CompleteUpdate, Answer, TypeOK, SlotsType
    <2>2. CountersType' /\ completing' \subseteq completing /\ UNCHANGED <<waiter, cancels, beat>>
        BY <1>4, CountersTyped DEF CompleteUpdate
    <2> QED BY <2>1, <2>2 DEF TypeOK, RestType, CountersType, SlotsType
<1>5. ASSUME NEW w \in Workers, WorkerStops(w) PROVE RestType'
    <2>1. SlotsType'
        BY <1>5, FreeType DEF WorkerStops, TypeOK, SlotsType
    <2>2. stops' \in 0..MaxStops
        BY <1>5, GatewayAssumption DEF WorkerStops, TypeOK
    <2> QED BY <1>5, <2>1, <2>2 DEF WorkerStops, TypeOK, RestType, SlotsType
<1>6. CASE IdleHeartbeat
    BY <1>6 DEF IdleHeartbeat, counters, TypeOK, RestType
<1>7. CASE UNCHANGED vars
    BY <1>7 DEF vars, counters, TypeOK, RestType
<1> QED BY <1>1, <1>2, <1>3, <1>4, <1>5, <1>6, <1>7 DEF Next

-----------------------------------------------------------------------------
(* The invariant, and what follows.                                        *)

(* The invariant holds initially.                                          *)
LEMMA InitInv == Init => IInv
<1> SUFFICES ASSUME Init PROVE IInv
    OBVIOUS
<1>1. TypeOK
    BY FreeType, GatewayAssumption
       DEF Init, TypeOK, NoRow, RowType, Statuses, Terminal, Finished, Leases, Waiters
<1>2. \A j \in Jobs : RowInv(j)
    BY DEF Init, RowInv, NoRow, Terminal, Finished
<1>3. HandInv
    BY DEF Init, HandInv, Busy, Free
<1> QED BY <1>1, <1>2, <1>3 DEF IInv

(* Every step preserves the invariant and every outcome.                   *)
LEMMA StepInv == IInv /\ [Next]_vars => IInv' /\ \A j \in Jobs : Sticks(j)
<1> SUFFICES ASSUME IInv, [Next]_vars PROVE IInv' /\ \A j \in Jobs : Sticks(j)
    OBVIOUS
<1>1. TypeOK /\ RowsMove
    BY NextMoves DEF IInv
<1>2. \A j \in Jobs : row[j] \in RowType /\ lapses[j] \in Nat /\ RowInv(j) /\ Moves(j)
    BY <1>1 DEF IInv, TypeOK, RowsMove
<1>3. \A j \in Jobs : row'[j] \in RowType /\ lapses'[j] \in Nat
    BY <1>2, MovesType
<1>4. row' \in [Jobs -> RowType] /\ lapses' \in [Jobs -> Nat]
    BY <1>1, <1>3 DEF RowsMove
<1>5. RestType'
    BY <1>1, ClaimType, SlotStepType, OtherType
<1>6. TypeOK' /\ HandInv'
    BY <1>4, <1>5, HandStep DEF IInv, TypeOK, RestType
<1>7. \A j \in Jobs : RowInv(j)' /\ Sticks(j)
    BY <1>2, MovesKeep, MovesStick
<1> QED BY <1>6, <1>7 DEF IInv

(* The invariant holds throughout.                                         *)
LEMMA Invariant == Spec => []IInv
<1>1. IInv /\ [Next]_vars => IInv'
    BY StepInv
<1> QED BY <1>1, InitInv, PTL DEF Spec

(* Table, callers, slots and handlers keep their types.                    *)
THEOREM GatewayType == Spec => []TypeOK
<1>1. IInv => TypeOK
    BY DEF IInv
<1> QED BY <1>1, Invariant, PTL

(* A running job can always be reclaimed, and no other job holds a lease.  *)
THEOREM OnlyRunningJobsAreLeased == Spec => []LeasesAreHeld
<1>1. IInv => LeasesAreHeld
    BY DEF IInv, RowInv, LeasesAreHeld
<1> QED BY <1>1, Invariant, PTL

(* The CLI of a job is started once more for each lease that ran out.      *)
THEOREM NoUnpaidClaim == Spec => []ClaimsArePaidFor
<1>1. IInv => ClaimsArePaidFor
    <2> SUFFICES ASSUME IInv, NEW j \in Jobs PROVE row[j].claim <= 1 + lapses[j]
        BY DEF ClaimsArePaidFor
    <2>1. row[j].claim \in Nat /\ lapses[j] \in Nat /\ RowInv(j)
        BY DEF IInv, TypeOK, RowType
    <2> QED BY <2>1 DEF RowInv
<1> QED BY <1>1, Invariant, PTL

(* A cancellation is never undone and a result never replaced.             *)
THEOREM OutcomesNeverChange == Spec => OutcomesStick
<1>1. IInv /\ [Next]_vars =>
        [\A j \in Jobs :
            /\ row[j].status = "canceled" => row'[j].status = "canceled"
            /\ row[j].result # 0 => row'[j].result = row[j].result]_vars
    BY StepInv DEF Sticks
<1> QED BY <1>1, Invariant, PTL DEF Spec, OutcomesStick

\* A Cancel that read the job before writes its status over the outcome.
CancelOverwrites(j) ==
    /\ \E who \in Asking : <<j, who>> \in cancels
    /\ row'[j] = [row[j] EXCEPT !.status = "canceled"]

(* Nothing but a Cancel that read the job before changes a finished job,   *)
(* and it changes the status only: stale claims, reports, renewals and     *)
(* reclaims never do (Complete, RenewLease, ReclaimExpired, Claim).  What  *)
(* violates TerminalIsFinal is always this overwrite.                      *)
THEOREM OnlyCancelOverwrites ==
    Spec => [][\A j \in Jobs : row[j].status \in Terminal =>
                 row'[j] = row[j] \/ CancelOverwrites(j)]_vars
<1>1. ASSUME IInv, [Next]_vars, NEW j \in Jobs, row[j].status \in Terminal
      PROVE  row'[j] = row[j] \/ CancelOverwrites(j)
    <2>1. row[j] \in RowType /\ Moves(j) /\ RowInv(j)
        BY <1>1, NextMoves DEF IInv, TypeOK, RowsMove
    <2>2. row[j].status \notin {"absent", "pending", "running"}
        BY <1>1 DEF Terminal, Finished
    <2>3. row'[j] = row[j] \/ IsCanceled(j)
        BY <2>1, <2>2 DEF Moves, Stays, IsCreated, IsReclaimed, IsClaimed, IsRenewed, IsLapsed,
                          IsCompleted
    <2>4. row[j].lease = "none"
        BY <2>1, <2>2 DEF RowInv, RowType, Leases
    <2>5. [row[j] EXCEPT !.status = "canceled", !.lease = "none"]
              = [row[j] EXCEPT !.status = "canceled"]
        BY <2>1, <2>4 DEF RowType
    <2> QED BY <2>3, <2>5 DEF IsCanceled, CancelOverwrites
<1>2. IInv /\ [Next]_vars =>
        [\A j \in Jobs : row[j].status \in Terminal =>
            row'[j] = row[j] \/ CancelOverwrites(j)]_vars
    BY <1>1
<1> QED BY <1>2, Invariant, PTL DEF Spec

-----------------------------------------------------------------------------
(* The refinement.                                                         *)

(* A move of a row is a step of the job's life, or none.                   *)
LEMMA MoveIsStep ==
    ASSUME TypeOK, NEW j \in Jobs, RowInv(j), Moves(j), TypeOK'
    PROVE  Lifecycle!Step(j)
<1> DEFINE ph == [i \in Jobs |-> Phase(i)]
           hd == [i \in Jobs |-> row[i].claim]
           rp == [i \in Jobs |-> row[i].result]
<1>1. /\ ph[j] = Phase(j) /\ hd[j] = row[j].claim /\ rp[j] = row[j].result
      /\ ph'[j] = Phase(j)' /\ hd'[j] = row'[j].claim /\ rp'[j] = row'[j].result
    OBVIOUS
<1>2. row[j] \in RowType /\ row'[j] \in RowType /\ lapses[j] \in Nat
    BY DEF TypeOK
<1> HIDE DEF ph, hd, rp
<1> USE DEF RowType, Statuses, Terminal, Finished, Leases, Lifecycle!Goes, Phase
<1>3. CASE Stays(j)
    <2>1. Lifecycle!Rests(j)
        BY <1>1, <1>3 DEF Stays, Lifecycle!Rests, ph, hd, rp
    <2> QED BY <2>1 DEF Lifecycle!Step
<1>4. CASE IsCreated(j)
    <2>1. Lifecycle!Submit(j)
        BY <1>1, <1>2, <1>4 DEF IsCreated, Lifecycle!Submit, ph, hd, rp
    <2> QED BY <2>1 DEF Lifecycle!Step
<1>5. CASE IsReclaimed(j)
    <2>1. Lifecycle!TakeBack(j)
        BY <1>1, <1>2, <1>5 DEF IsReclaimed, Lifecycle!TakeBack, ph, hd, rp
    <2> QED BY <2>1 DEF Lifecycle!Step
<1>6. CASE IsClaimed(j)
    <2>1. Lifecycle!HandOut(j)
        BY <1>1, <1>2, <1>6 DEF IsClaimed, RowInv, Lifecycle!HandOut, ph, hd, rp
    <2> QED BY <2>1 DEF Lifecycle!Step
<1>7. CASE IsRenewed(j)
    <2>1. Lifecycle!Renew(j) \/ Lifecycle!Rests(j)
        BY <1>1, <1>2, <1>7 DEF IsRenewed, RowInv, Lifecycle!Renew, Lifecycle!Rests, ph, hd, rp
    <2> QED BY <2>1 DEF Lifecycle!Step
<1>8. CASE IsLapsed(j)
    <2>1. Lifecycle!Lose(j)
        BY <1>1, <1>2, <1>8 DEF IsLapsed, Lifecycle!Lose, ph, hd, rp
    <2> QED BY <2>1 DEF Lifecycle!Step
<1>9. CASE IsCompleted(j)
    <2>1. Lifecycle!Report(j)
        BY <1>1, <1>2, <1>9 DEF IsCompleted, RowInv, Lifecycle!Report, Lifecycle!Reports, ph, hd, rp
    <2> QED BY <2>1 DEF Lifecycle!Step
<1>10. CASE IsCanceled(j)
    <2>1. Lifecycle!Cancel(j)
        BY <1>1, <1>2, <1>10
           DEF IsCanceled, RowInv, Lifecycle!Cancel, Lifecycle!Phases, Lifecycle!Reports, ph, hd, rp
    <2> QED BY <2>1 DEF Lifecycle!Step
<1> QED BY <1>3, <1>4, <1>5, <1>6, <1>7, <1>8, <1>9, <1>10 DEF Moves

(* Whatever handlers, workers and callers do at the same time, a job lives *)
(* the life of JobLifecycle: it is handed out again only for a lease that  *)
(* ran out, one of its hand-outs reports at most, and no canceled job      *)
(* comes back (tryClaimOnce, Complete, Cancel, ReclaimExpired).            *)
THEOREM ImplementsJobLifecycle == Spec => JobSpec
<1>1. Init => Lifecycle!Init
    BY DEF Init, NoRow, Phase, Lifecycle!Init
<1>2. IInv /\ [Next]_vars => [Lifecycle!Next]_(Lifecycle!vars)
    <2> SUFFICES ASSUME IInv, [Next]_vars PROVE Lifecycle!Next
        OBVIOUS
    <2>1. TypeOK /\ TypeOK' /\ \A j \in Jobs : RowInv(j) /\ Moves(j)
        BY StepInv, NextMoves DEF IInv, RowsMove
    <2> QED BY <2>1, MoveIsStep DEF Lifecycle!Next
<1> QED BY <1>1, <1>2, Invariant, PTL DEF Spec, JobSpec, Lifecycle!Spec
=============================================================================
