---------------------------- MODULE JobLifecycle ----------------------------
(***************************************************************************)
(* What the gateway promises of a job, whatever its callers, workers and   *)
(* handlers do to it at the same time: it is handed to a worker again only *)
(* when an earlier hand-out was lost, at most one hand-out reports, and a  *)
(* job that was canceled is neither handed out nor reported any more.  A   *)
(* cancellation that comes too late may still cover a report; it does not  *)
(* replace it.                                                             *)
(*                                                                         *)
(* GatewayJobs implements this specification.  Jobs change together: one   *)
(* statement reclaims every expired lease.                                 *)
(***************************************************************************)
EXTENDS Naturals

CONSTANT Jobs

VARIABLES
    phase,      \* how far each job has come; live and expired are its leases
    handed,     \* how often it was handed out
    lost,       \* how often the lease of a hand-out ran out
    reporter    \* the hand-out that has reported, 0 before

vars == <<phase, handed, lost, reporter>>

Reports == {"succeeded", "failed"}
Phases  == {"absent", "pending", "live", "expired", "canceled"} \cup Reports

Init ==
    /\ phase = [j \in Jobs |-> "absent"] /\ handed = [j \in Jobs |-> 0]
    /\ lost = [j \in Jobs |-> 0] /\ reporter = [j \in Jobs |-> 0]

Goes(j, from, to) == phase[j] \in from /\ phase'[j] = to

Rests(j) == UNCHANGED <<phase[j], handed[j], lost[j], reporter[j]>>

Submit(j) ==
    /\ Goes(j, {"absent"}, "pending")
    /\ UNCHANGED <<handed[j], lost[j], reporter[j]>>

HandOut(j) ==
    /\ Goes(j, {"pending"}, "live")
    /\ handed[j] <= lost[j] /\ handed'[j] = handed[j] + 1
    /\ UNCHANGED <<lost[j], reporter[j]>>

Lose(j) ==
    /\ Goes(j, {"live"}, "expired") /\ lost'[j] = lost[j] + 1
    /\ UNCHANGED <<handed[j], reporter[j]>>

(* An expired lease is renewed in time, or the job is taken back.          *)
Renew(j) ==
    /\ Goes(j, {"expired"}, "live")
    /\ UNCHANGED <<handed[j], lost[j], reporter[j]>>

TakeBack(j) ==
    /\ Goes(j, {"expired"}, "pending")
    /\ UNCHANGED <<handed[j], lost[j], reporter[j]>>

Report(j) ==
    /\ \E o \in Reports : Goes(j, {"live", "expired"}, o)
    /\ reporter[j] = 0 /\ reporter'[j] \in 1..handed[j]
    /\ UNCHANGED <<handed[j], lost[j]>>

Cancel(j) ==
    /\ Goes(j, Phases \ {"absent"}, "canceled")
    /\ UNCHANGED <<handed[j], lost[j], reporter[j]>>

Step(j) ==
    \/ Rests(j) \/ Submit(j) \/ HandOut(j) \/ Lose(j) \/ Renew(j) \/ TakeBack(j)
    \/ Report(j) \/ Cancel(j)

Next == \A j \in Jobs : Step(j)

Spec == Init /\ [][Next]_vars
=============================================================================
