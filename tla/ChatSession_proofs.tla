------------------------- MODULE ChatSession_proofs -------------------------
(***************************************************************************)
(* Proofs about ChatSession, for any runs, answers and bounds.  The        *)
(* argument: while the session is open all runs fetch one and the same     *)
(* lock entry, and a run gets past the second check only while it is open; *)
(* so the runs at work exclude each other even after the entry was thrown  *)
(* away.  A loop that still goes on is therefore the one of the run at     *)
(* work, or its harness has left the pool and nobody can get it again.     *)
(* The slots of the session belong to the one HTTP run in flight, which    *)
(* claims activeAPIRuns first and gives it up last; the channel of a gate  *)
(* is made anew for every question.                                        *)
(***************************************************************************)
EXTENDS ChatSession, TLAPS

\* The runs that have not got a harness yet.
Early == {"new", "gate", "bind", "validate", "lock", "acquire", "check", "harness"}
AtWork == {"prompt", "loop", "drain"}

(* Who and what the local variables name.                                  *)
Shape ==
    /\ \A r \in Runs : pc[r] \in Locked \cup {"acquire"} => lock[r] \in Runs
    /\ \A r \in Runs : pc[r] \in AtWork => uses[r] \in Runs
    /\ \A h \in Runs : loop[h].st # "idle" => loop[h].run \in Runs
    /\ \A h \in Runs : loop[h].st \in {"ask", "settle"} => GateOf(h) \in Runs
    /\ \A x \in Answers : answer[x].st \in {"matched", "checked"} => answer[x].gate \in Runs
    /\ closer \in {"release", "clear", "gate", "drop", "done"} => session = "closed"
    /\ closer = "gate" => ousted \in Runs

(* One entry while the session is open, and one holder of an entry.        *)
LockInv ==
    /\ session = "open" => \A r \in Runs : lock[r] \in {None, entry}
    /\ \A r, s \in Runs :
          pc[r] \in Locked /\ pc[s] \in Locked /\ lock[r] = lock[s] => r = s
    /\ \A r, s \in Runs : pc[r] \in Critical /\ pc[s] \in Critical => lock[r] = lock[s]

Served(h)   == \E r \in Runs : pc[r] \in {"loop", "drain"} /\ uses[r] = h
Orphaned(h) == pool # h /\ \A r \in Runs : At(r, "prompt") => uses[r] # h

(* Whose loop may be going on.                                             *)
LoopInv ==
    /\ \A h \in Runs : pc[h] \in Early =>
          loop[h].st = "idle" /\ pool # h /\ \A r \in Runs : uses[r] # h
    /\ \A h \in Runs : loop[h].st # "idle" => Served(h) \/ Orphaned(h)

IInv == TypeOK /\ Shape /\ LockInv /\ LoopInv

(* A gate that is resolved is a gate.                                       *)
LEMMA ResolvedType ==
    ASSUME NEW g \in GateType
    PROVE  [g EXCEPT !.resolved = TRUE] \in GateType
BY DEF GateType

(* Every step keeps the types. *)
LEMMA TypeStep ==
    ASSUME TypeOK, Shape, [Next]_vars
    PROVE  TypeOK'
<1> USE ChatAssumption DEF TypeOK, vars, tables, runs, talk, closing, At, PCs, Locked,
                           GateType, Shape, AtWork
<1>1. ASSUME NEW r \in Runs, Start(r) PROVE TypeOK'
    <2>1. pc' \in [Runs -> PCs] /\ apiRun' \in Runs \cup {None}
        BY <1>1 DEF Start, Goto
    <2>2. UNCHANGED <<session, confirmGate, registered, entry, pool, ctx, lock, uses, loop,
                      talk, closing>>
        BY <1>1 DEF Start
    <2> QED BY <2>1, <2>2
<1>2. ASSUME NEW r \in Runs, StoreGate(r) PROVE TypeOK'
    BY <1>2 DEF StoreGate, Goto
<1>3. ASSUME NEW r \in Runs, Bind(r) PROVE TypeOK'
    BY <1>3 DEF Bind, Goto
<1>4. ASSUME NEW r \in Runs, Validate(r) PROVE TypeOK'
    BY <1>4 DEF Validate, Goto
<1>5. ASSUME NEW r \in Runs, FetchLock(r) PROVE TypeOK'
    BY <1>5 DEF FetchLock, Goto
<1>6. ASSUME NEW r \in Runs, Acquire(r) PROVE TypeOK'
    BY <1>6 DEF Acquire, Free, Goto
<1>7. ASSUME NEW r \in Runs, Check(r) PROVE TypeOK'
    BY <1>7 DEF Check, Recheck, Goto
<1>8. ASSUME NEW r \in Runs, TakeHarness(r) PROVE TypeOK'
    BY <1>8 DEF TakeHarness, Goto
<1>9. ASSUME NEW r \in Runs, Prompt(r) PROVE TypeOK'
    <2>1. uses[r] \in Runs /\ UNCHANGED <<tables, ctx, lock, uses, talk, closing>>
        BY <1>9 DEF Prompt
    <2>2. pc' \in [Runs -> PCs]
        BY <1>9 DEF Prompt, Goto
    <2>3. [st |-> "busy", run |-> r]
             \in [st : {"idle", "busy", "ask", "settle"}, run : Runs \cup {None}]
        OBVIOUS
    <2>4. loop' \in [Runs -> [st : {"idle", "busy", "ask", "settle"}, run : Runs \cup {None}]]
        BY <1>9, <2>1, <2>3 DEF Prompt
    <2> QED BY <2>1, <2>2, <2>4
<1>10. ASSUME NEW r \in Runs, Finish(r) PROVE TypeOK'
    BY <1>10 DEF Finish, Goto
<1>11. ASSUME NEW r \in Runs, Interrupted(r) PROVE TypeOK'
    BY <1>11 DEF Interrupted, Goto
<1>12. ASSUME NEW r \in Runs, Drained(r) PROVE TypeOK'
    BY <1>12 DEF Drained, Goto
<1>13. ASSUME NEW r \in Runs, DrainTimeout(r) PROVE TypeOK'
    BY <1>13 DEF DrainTimeout, Goto
<1>14. ASSUME NEW r \in Runs, Unbind(r) PROVE TypeOK'
    BY <1>14 DEF Unbind, Goto
<1>15. ASSUME NEW r \in Runs, ClearState(r) PROVE TypeOK'
    BY <1>15 DEF ClearState, Goto
<1>16. ASSUME NEW r \in Runs, CancelGate(r) PROVE TypeOK'
    <2>1. [gate[r] EXCEPT !.resolved = TRUE] \in GateType
        BY ResolvedType
    <2>2. gate' \in [Runs -> GateType]
        BY <1>16, <2>1 DEF CancelGate, Cancelled
    <2>3. pc' \in [Runs -> PCs]
        BY <1>16 DEF CancelGate, Goto
    <2> QED BY <1>16, <2>2, <2>3 DEF CancelGate
<1>17. ASSUME NEW r \in Runs, DropGate(r) PROVE TypeOK'
    BY <1>17 DEF DropGate, Without, Goto
<1>18. ASSUME NEW r \in Runs, Fails(r) PROVE TypeOK'
    BY <1>18 DEF Fails, Goto
<1>19. ASSUME NEW r \in Runs, Deadline(r) PROVE TypeOK'
    BY <1>19 DEF Deadline
<1>20. ASSUME NEW h \in Runs, LoopEnds(h) PROVE TypeOK'
    BY <1>20 DEF LoopEnds, Idle
<1>21. ASSUME NEW h \in Runs, LoopAsks(h) PROVE TypeOK'
    BY <1>21 DEF LoopAsks, Sets, BeginWait, GateOf
<1>22. ASSUME NEW h \in Runs, TakesAnswer(h) PROVE TypeOK'
    <2> DEFINE g == GateOf(h)
    <2>1. g \in Runs /\ gate[g] \in GateType /\ gate[g].ch # None
        BY <1>22 DEF TakesAnswer
    <2>2. gate[g].ch \in [for : Nat, at : Nat] /\ gate[g].id \in Nat
        BY <2>1
    <2>3. taken' \in [asked : Nat, for : Nat, at : Nat]
        BY <1>22, <2>2 DEF TakesAnswer
    <2>4. [gate[g] EXCEPT !.ch = None] \in GateType
        BY <2>1
    <2>5. gate' \in [Runs -> GateType]
        BY <1>22, <2>1, <2>4 DEF TakesAnswer
    <2>6. loop' \in [Runs -> [st : {"idle", "busy", "ask", "settle"}, run : Runs \cup {None}]]
        BY <1>22 DEF TakesAnswer, Sets
    <2> QED BY <1>22, <2>3, <2>5, <2>6 DEF TakesAnswer
<1>23. ASSUME NEW h \in Runs, GivesUp(h) PROVE TypeOK'
    BY <1>23 DEF GivesUp, Sets
<1>24. ASSUME NEW h \in Runs, Settles(h) PROVE TypeOK'
    <2>1. GateOf(h) \in Runs
        BY <1>24 DEF Settles
    <2>2. [gate[GateOf(h)] EXCEPT !.resolved = TRUE] \in GateType
        BY <2>1, ResolvedType
    <2>3. gate' \in [Runs -> GateType]
        BY <1>24, <2>1, <2>2 DEF Settles
    <2>4. loop' \in [Runs -> [st : {"idle", "busy", "ask", "settle"}, run : Runs \cup {None}]]
        BY <1>24 DEF Settles, Sets
    <2> QED BY <1>24, <2>3, <2>4 DEF Settles
<1>25. ASSUME NEW x \in Answers, Match(x) PROVE TypeOK'
    BY <1>25 DEF Match
<1>26. ASSUME NEW x \in Answers, CheckAnswer(x) PROVE TypeOK'
    BY <1>26 DEF CheckAnswer, Over
<1>27. ASSUME NEW x \in Answers, SendAnswer(x) PROVE TypeOK'
    <2> DEFINE g == answer[x].gate
               a == [for |-> answer[x].for, at |-> gate[g].id]
    <2>1. g \in Runs /\ gate[g] \in GateType /\ answer[x].for \in Nat
        BY <1>27 DEF SendAnswer
    <2>2. a \in [for : Nat, at : Nat]
        BY <2>1
    <2>3. [gate[g] EXCEPT !.ch = a] \in GateType
        BY <2>1, <2>2
    <2>4. gate' = gate \/ gate' = [gate EXCEPT ![g] = [gate[g] EXCEPT !.ch = a]]
        BY <1>27 DEF SendAnswer
    <2>5. gate' \in [Runs -> GateType]
        BY <2>1, <2>3, <2>4
    <2>6. answer' \in [Answers -> [st : {"new", "matched", "checked", "done"},
                                    gate : Runs \cup {None}, for : Nat]]
        BY <1>27 DEF SendAnswer, Over
    <2> QED BY <1>27, <2>5, <2>6 DEF SendAnswer
<1>28. CASE CloseCancels
    BY <1>28 DEF CloseCancels, CloseGoto
<1>29. CASE CloseEvicts
    BY <1>29 DEF CloseEvicts, CloseGoto
<1>30. CASE CloseRow
    BY <1>30 DEF CloseRow, CloseGoto
<1>31. CASE CloseFails
    BY <1>31 DEF CloseFails, CloseGoto
<1>32. CASE CloseReleases
    BY <1>32 DEF CloseReleases, CloseGoto
<1>33. CASE CloseClears
    BY <1>33 DEF CloseClears
<1>34. CASE CloseCancelsGate
    <2>1. ousted \in Runs /\ closer' = "drop"
        BY <1>34 DEF CloseCancelsGate, CloseGoto
    <2>2. [gate[ousted] EXCEPT !.resolved = TRUE] \in GateType
        BY <2>1, ResolvedType
    <2>3. gate' \in [Runs -> GateType]
        BY <1>34, <2>1, <2>2 DEF CloseCancelsGate, Cancelled
    <2> QED BY <1>34, <2>1, <2>3 DEF CloseCancelsGate, CloseGoto
<1>35. CASE CloseDropsGate
    BY <1>35 DEF CloseDropsGate, Without, CloseGoto
<1>36. CASE UNCHANGED vars
    BY <1>36
<1> QED BY <1>1, <1>2, <1>3, <1>4, <1>5, <1>6, <1>7, <1>8, <1>9, <1>10, <1>11, <1>12,
           <1>13, <1>14, <1>15, <1>16, <1>17, <1>18, <1>19, <1>20, <1>21, <1>22, <1>23,
           <1>24, <1>25, <1>26, <1>27, <1>28, <1>29, <1>30, <1>31, <1>32, <1>33, <1>34,
           <1>35, <1>36 DEF Next, Turn, Loop, Client, Close

(* Every step keeps what the local variables name. *)
LEMMA ShapeStep ==
    ASSUME TypeOK, Shape, [Next]_vars
    PROVE  Shape'
<1> USE ChatAssumption DEF TypeOK, vars, tables, runs, talk, closing, At, Locked,
                           Shape, AtWork, GateOf
<1>1. ASSUME NEW r \in Runs, Start(r) PROVE Shape'
    BY <1>1 DEF Start, Goto
<1>2. ASSUME NEW r \in Runs, StoreGate(r) PROVE Shape'
    BY <1>2 DEF StoreGate, Goto
<1>3. ASSUME NEW r \in Runs, Bind(r) PROVE Shape'
    BY <1>3 DEF Bind, Goto
<1>4. ASSUME NEW r \in Runs, Validate(r) PROVE Shape'
    BY <1>4 DEF Validate, Goto
<1>5. ASSUME NEW r \in Runs, FetchLock(r) PROVE Shape'
    BY <1>5 DEF FetchLock, Goto
<1>6. ASSUME NEW r \in Runs, Acquire(r) PROVE Shape'
    BY <1>6 DEF Acquire, Free, Goto
<1>7. ASSUME NEW r \in Runs, Check(r) PROVE Shape'
    BY <1>7 DEF Check, Recheck, Goto
<1>8. ASSUME NEW r \in Runs, TakeHarness(r) PROVE Shape'
    BY <1>8 DEF TakeHarness, Goto
<1>9. ASSUME NEW r \in Runs, Prompt(r) PROVE Shape'
    BY <1>9 DEF Prompt, Goto
<1>10. ASSUME NEW r \in Runs, Finish(r) PROVE Shape'
    BY <1>10 DEF Finish, Goto
<1>11. ASSUME NEW r \in Runs, Interrupted(r) PROVE Shape'
    BY <1>11 DEF Interrupted, Goto
<1>12. ASSUME NEW r \in Runs, Drained(r) PROVE Shape'
    BY <1>12 DEF Drained, Goto
<1>13. ASSUME NEW r \in Runs, DrainTimeout(r) PROVE Shape'
    BY <1>13 DEF DrainTimeout, Goto
<1>14. ASSUME NEW r \in Runs, Unbind(r) PROVE Shape'
    BY <1>14 DEF Unbind, Goto
<1>15. ASSUME NEW r \in Runs, ClearState(r) PROVE Shape'
    BY <1>15 DEF ClearState, Goto
<1>16. ASSUME NEW r \in Runs, CancelGate(r) PROVE Shape'
    BY <1>16 DEF CancelGate, Cancelled, Goto
<1>17. ASSUME NEW r \in Runs, DropGate(r) PROVE Shape'
    BY <1>17 DEF DropGate, Without, Goto
<1>18. ASSUME NEW r \in Runs, Fails(r) PROVE Shape'
    BY <1>18 DEF Fails, Goto
<1>19. ASSUME NEW r \in Runs, Deadline(r) PROVE Shape'
    BY <1>19 DEF Deadline
<1>20. ASSUME NEW h \in Runs, LoopEnds(h) PROVE Shape'
    BY <1>20 DEF LoopEnds, Idle
<1>21. ASSUME NEW h \in Runs, LoopAsks(h) PROVE Shape'
    BY <1>21 DEF LoopAsks, Sets, BeginWait, GateOf
<1>22. ASSUME NEW h \in Runs, TakesAnswer(h) PROVE Shape'
    BY <1>22 DEF TakesAnswer, Sets, GateOf
<1>23. ASSUME NEW h \in Runs, GivesUp(h) PROVE Shape'
    BY <1>23 DEF GivesUp, Sets
<1>24. ASSUME NEW h \in Runs, Settles(h) PROVE Shape'
    BY <1>24 DEF Settles, Sets, GateOf
<1>25. ASSUME NEW x \in Answers, Match(x) PROVE Shape'
    BY <1>25 DEF Match
<1>26. ASSUME NEW x \in Answers, CheckAnswer(x) PROVE Shape'
    BY <1>26 DEF CheckAnswer, Over
<1>27. ASSUME NEW x \in Answers, SendAnswer(x) PROVE Shape'
    BY <1>27 DEF SendAnswer, Over
<1>28. CASE CloseCancels
    BY <1>28 DEF CloseCancels, CloseGoto
<1>29. CASE CloseEvicts
    BY <1>29 DEF CloseEvicts, CloseGoto
<1>30. CASE CloseRow
    BY <1>30 DEF CloseRow, CloseGoto
<1>31. CASE CloseFails
    BY <1>31 DEF CloseFails, CloseGoto
<1>32. CASE CloseReleases
    BY <1>32 DEF CloseReleases, CloseGoto
<1>33. CASE CloseClears
    BY <1>33 DEF CloseClears
<1>34. CASE CloseCancelsGate
    BY <1>34 DEF CloseCancelsGate, Cancelled, CloseGoto
<1>35. CASE CloseDropsGate
    BY <1>35 DEF CloseDropsGate, Without, CloseGoto
<1>36. CASE UNCHANGED vars
    BY <1>36
<1> QED BY <1>1, <1>2, <1>3, <1>4, <1>5, <1>6, <1>7, <1>8, <1>9, <1>10, <1>11, <1>12,
           <1>13, <1>14, <1>15, <1>16, <1>17, <1>18, <1>19, <1>20, <1>21, <1>22, <1>23,
           <1>24, <1>25, <1>26, <1>27, <1>28, <1>29, <1>30, <1>31, <1>32, <1>33, <1>34,
           <1>35, <1>36 DEF Next, Turn, Loop, Client, Close

(* Every step keeps the lock. *)
LEMMA LockStep ==
    ASSUME TypeOK, Shape, LockInv, [Next]_vars
    PROVE  LockInv'
<1> USE ChatAssumption DEF vars, tables, runs, talk, closing, At, Locked, Critical, TypeOK,
                           PCs, Shape, LockInv
<1>1. ASSUME NEW r \in Runs, Start(r) PROVE LockInv'
    BY <1>1 DEF Start, Goto
<1>2. ASSUME NEW r \in Runs, StoreGate(r) PROVE LockInv'
    BY <1>2 DEF StoreGate, Goto
<1>3. ASSUME NEW r \in Runs, Bind(r) PROVE LockInv'
    BY <1>3 DEF Bind, Goto
<1>4. ASSUME NEW r \in Runs, Validate(r) PROVE LockInv'
    BY <1>4 DEF Validate, Goto
<1>5. ASSUME NEW r \in Runs, FetchLock(r) PROVE LockInv'
    BY <1>5 DEF FetchLock, Goto
<1>6. ASSUME NEW r \in Runs, Acquire(r) PROVE LockInv'
    BY <1>6 DEF Acquire, Free, Goto
<1>7. ASSUME NEW r \in Runs, Check(r) PROVE LockInv'
    BY <1>7 DEF Check, Recheck, Goto
<1>8. ASSUME NEW r \in Runs, TakeHarness(r) PROVE LockInv'
    BY <1>8 DEF TakeHarness, Goto
<1>9. ASSUME NEW r \in Runs, Prompt(r) PROVE LockInv'
    <2>1. (pc' = [pc EXCEPT ![r] = "loop"] \/ pc' = [pc EXCEPT ![r] = "unbind"])
          /\ pc[r] = "prompt" /\ UNCHANGED <<session, entry, lock>>
        BY <1>9 DEF Prompt, Goto
    <2> QED BY <2>1
<1>10. ASSUME NEW r \in Runs, Finish(r) PROVE LockInv'
    BY <1>10 DEF Finish, Goto
<1>11. ASSUME NEW r \in Runs, Interrupted(r) PROVE LockInv'
    BY <1>11 DEF Interrupted, Goto
<1>12. ASSUME NEW r \in Runs, Drained(r) PROVE LockInv'
    BY <1>12 DEF Drained, Goto
<1>13. ASSUME NEW r \in Runs, DrainTimeout(r) PROVE LockInv'
    BY <1>13 DEF DrainTimeout, Goto
<1>14. ASSUME NEW r \in Runs, Unbind(r) PROVE LockInv'
    BY <1>14 DEF Unbind, Goto
<1>15. ASSUME NEW r \in Runs, ClearState(r) PROVE LockInv'
    BY <1>15 DEF ClearState, Goto
<1>16. ASSUME NEW r \in Runs, CancelGate(r) PROVE LockInv'
    BY <1>16 DEF CancelGate, Cancelled, Goto
<1>17. ASSUME NEW r \in Runs, DropGate(r) PROVE LockInv'
    BY <1>17 DEF DropGate, Without, Goto
<1>18. ASSUME NEW r \in Runs, Fails(r) PROVE LockInv'
    BY <1>18 DEF Fails, Goto
<1>19. ASSUME NEW r \in Runs, Deadline(r) PROVE LockInv'
    BY <1>19 DEF Deadline
<1>20. ASSUME NEW h \in Runs, LoopEnds(h) PROVE LockInv'
    BY <1>20 DEF LoopEnds, Idle
<1>21. ASSUME NEW h \in Runs, LoopAsks(h) PROVE LockInv'
    BY <1>21 DEF LoopAsks, Sets, BeginWait, GateOf
<1>22. ASSUME NEW h \in Runs, TakesAnswer(h) PROVE LockInv'
    BY <1>22 DEF TakesAnswer, Sets, GateOf
<1>23. ASSUME NEW h \in Runs, GivesUp(h) PROVE LockInv'
    BY <1>23 DEF GivesUp, Sets
<1>24. ASSUME NEW h \in Runs, Settles(h) PROVE LockInv'
    BY <1>24 DEF Settles, Sets, GateOf
<1>25. ASSUME NEW x \in Answers, Match(x) PROVE LockInv'
    BY <1>25 DEF Match
<1>26. ASSUME NEW x \in Answers, CheckAnswer(x) PROVE LockInv'
    BY <1>26 DEF CheckAnswer, Over
<1>27. ASSUME NEW x \in Answers, SendAnswer(x) PROVE LockInv'
    BY <1>27 DEF SendAnswer, Over
<1>28. CASE CloseCancels
    BY <1>28 DEF CloseCancels, CloseGoto
<1>29. CASE CloseEvicts
    BY <1>29 DEF CloseEvicts, CloseGoto
<1>30. CASE CloseRow
    BY <1>30 DEF CloseRow, CloseGoto
<1>31. CASE CloseFails
    BY <1>31 DEF CloseFails, CloseGoto
<1>32. CASE CloseReleases
    BY <1>32 DEF CloseReleases, CloseGoto
<1>33. CASE CloseClears
    BY <1>33 DEF CloseClears
<1>34. CASE CloseCancelsGate
    BY <1>34 DEF CloseCancelsGate, Cancelled, CloseGoto
<1>35. CASE CloseDropsGate
    BY <1>35 DEF CloseDropsGate, Without, CloseGoto
<1>36. CASE UNCHANGED vars
    BY <1>36
<1> QED BY <1>1, <1>2, <1>3, <1>4, <1>5, <1>6, <1>7, <1>8, <1>9, <1>10, <1>11, <1>12,
           <1>13, <1>14, <1>15, <1>16, <1>17, <1>18, <1>19, <1>20, <1>21, <1>22, <1>23,
           <1>24, <1>25, <1>26, <1>27, <1>28, <1>29, <1>30, <1>31, <1>32, <1>33, <1>34,
           <1>35, <1>36 DEF Next, Turn, Loop, Client, Close

(* The runs at work exclude each other.                                     *)
LEMMA Alone == TypeOK /\ LockInv => OneTurnAtATime
BY DEF TypeOK, LockInv, OneTurnAtATime, Locked, Critical

(* A run that takes the harness of the pool finds its loop at rest.          *)
LEMMA PoolIsIdle ==
    ASSUME TypeOK, Shape, LockInv, LoopInv, NEW r \in Runs, pc[r] \in {"harness", "prompt"},
           NEW h \in Runs, pc[r] = "harness" => h = pool \/ h = r,
           pc[r] = "prompt" => h = uses[r]
    PROVE  loop[h].st = "idle"
<1>1. ~Served(h)
    BY Alone DEF Served, OneTurnAtATime, Critical, Locked
<1>2. pc[r] = "harness" /\ h = r => loop[h].st = "idle"
    BY DEF LoopInv, Early
<1>3. ~(pc[r] = "harness" /\ h = r) => ~Orphaned(h)
    BY DEF Orphaned, At
<1> QED BY <1>1, <1>2, <1>3 DEF LoopInv

(* Every step keeps who may have a loop going. *)
LEMMA LoopStep ==
    ASSUME TypeOK, Shape, LockInv, LoopInv, [Next]_vars
    PROVE  LoopInv'
<1> USE ChatAssumption DEF vars, tables, runs, talk, closing, At, Early, AtWork, TypeOK, PCs, Shape,
                           LoopInv, Served, Orphaned
<1>1. ASSUME NEW r \in Runs, Start(r) PROVE LoopInv'
    BY <1>1 DEF Start, Goto
<1>2. ASSUME NEW r \in Runs, StoreGate(r) PROVE LoopInv'
    BY <1>2 DEF StoreGate, Goto
<1>3. ASSUME NEW r \in Runs, Bind(r) PROVE LoopInv'
    BY <1>3 DEF Bind, Goto
<1>4. ASSUME NEW r \in Runs, Validate(r) PROVE LoopInv'
    BY <1>4 DEF Validate, Goto
<1>5. ASSUME NEW r \in Runs, FetchLock(r) PROVE LoopInv'
    <2>1. pc[r] = "lock" /\ pc' = [pc EXCEPT ![r] = "acquire"] /\ UNCHANGED <<pool, uses, loop>>
        BY <1>5 DEF FetchLock, Goto
    <2> QED BY <2>1
<1>6. ASSUME NEW r \in Runs, Acquire(r) PROVE LoopInv'
    <2>1. pc[r] = "acquire" /\ pc' = [pc EXCEPT ![r] = "check"] /\ UNCHANGED <<pool, uses, loop>>
        BY <1>6 DEF Acquire, Goto
    <2> QED BY <2>1
<1>7. ASSUME NEW r \in Runs, Check(r) PROVE LoopInv'
    BY <1>7 DEF Check, Recheck, Goto
<1>8. ASSUME NEW r \in Runs, TakeHarness(r) PROVE LoopInv'
    <2>1. PICK h \in {r} \cup ({pool} \ {None}) :
              pool' = h /\ uses' = [uses EXCEPT ![r] = h]
        BY <1>8 DEF TakeHarness
    <2>2. pc[r] = "harness" /\ pc' = [pc EXCEPT ![r] = "prompt"] /\ loop' = loop
        BY <1>8 DEF TakeHarness, Goto
    <2>3. h \in Runs /\ (h = pool \/ h = r)
        BY <2>1
    <2>3a. loop[h].st = "idle"
        BY <2>2, <2>3, PoolIsIdle
    <2>4. pc'[h] \notin Early
        BY <2>1, <2>2
    <2>5. ASSUME NEW g \in Runs, pc'[g] \in Early
          PROVE  loop[g].st = "idle" /\ pool' # g /\ \A s \in Runs : uses'[s] # g
        BY <2>1, <2>2, <2>4, <2>5
    <2>6. ASSUME NEW g \in Runs, loop[g].st # "idle" PROVE Served(g)' \/ Orphaned(g)'
        BY <2>1, <2>2, <2>3a, <2>6
    <2> QED BY <2>2, <2>5, <2>6
<1>9. ASSUME NEW r \in Runs, Prompt(r) PROVE LoopInv'
    <2>1. uses[r] \in Runs /\ loop[uses[r]].st = "idle" /\ pc[r] = "prompt"
        BY <1>9, PoolIsIdle DEF Prompt
    <2>2. loop' = [loop EXCEPT ![uses[r]] = [st |-> "busy", run |-> r]]
          /\ pc' = [pc EXCEPT ![r] = "loop"] /\ UNCHANGED <<pool, uses>>
        BY <1>9, <2>1 DEF Prompt, Goto
    <2>3. pc[uses[r]] \notin Early
        BY <2>1
    <2>4. ASSUME NEW g \in Runs, pc'[g] \in Early
          PROVE  loop'[g].st = "idle" /\ pool' # g /\ \A s \in Runs : uses'[s] # g
        BY <2>1, <2>2, <2>3, <2>4
    <2>5. ASSUME NEW g \in Runs, loop'[g].st # "idle" PROVE Served(g)' \/ Orphaned(g)'
        <3>1. CASE g = uses[r]
            BY <2>1, <2>2, <3>1
        <3>2. CASE g # uses[r]
            BY <2>1, <2>2, <2>5, <3>2
        <3> QED BY <3>1, <3>2
    <2> QED BY <2>4, <2>5
<1>10. ASSUME NEW r \in Runs, Finish(r) PROVE LoopInv'
    BY <1>10 DEF Finish, Goto
<1>11. ASSUME NEW r \in Runs, Interrupted(r) PROVE LoopInv'
    BY <1>11 DEF Interrupted, Goto
<1>12. ASSUME NEW r \in Runs, Drained(r) PROVE LoopInv'
    BY <1>12 DEF Drained, Goto
<1>13. ASSUME NEW r \in Runs, DrainTimeout(r) PROVE LoopInv'
    <2>1. pc[r] = "drain" /\ pool' = None /\ pc' = [pc EXCEPT ![r] = "unbind"]
          /\ UNCHANGED <<loop, uses>>
        BY <1>13 DEF DrainTimeout, Goto
    <2>2. \A s \in Runs : pc[s] # "prompt"
        BY <2>1, Alone DEF OneTurnAtATime, Critical, Locked
    <2>3. ASSUME NEW g \in Runs PROVE Orphaned(g)'
        BY <2>1, <2>2
    <2> QED BY <2>1, <2>3
<1>14. ASSUME NEW r \in Runs, Unbind(r) PROVE LoopInv'
    BY <1>14 DEF Unbind, Goto
<1>15. ASSUME NEW r \in Runs, ClearState(r) PROVE LoopInv'
    BY <1>15 DEF ClearState, Goto
<1>16. ASSUME NEW r \in Runs, CancelGate(r) PROVE LoopInv'
    BY <1>16 DEF CancelGate, Cancelled, Goto
<1>17. ASSUME NEW r \in Runs, DropGate(r) PROVE LoopInv'
    BY <1>17 DEF DropGate, Without, Goto
<1>18. ASSUME NEW r \in Runs, Fails(r) PROVE LoopInv'
    BY <1>18 DEF Fails, Goto
<1>19. ASSUME NEW r \in Runs, Deadline(r) PROVE LoopInv'
    BY <1>19 DEF Deadline
<1>20. ASSUME NEW h \in Runs, LoopEnds(h) PROVE LoopInv'
    BY <1>20 DEF LoopEnds, Idle
<1>21. ASSUME NEW h \in Runs, LoopAsks(h) PROVE LoopInv'
    BY <1>21 DEF LoopAsks, Sets, BeginWait, GateOf
<1>22. ASSUME NEW h \in Runs, TakesAnswer(h) PROVE LoopInv'
    BY <1>22 DEF TakesAnswer, Sets, GateOf
<1>23. ASSUME NEW h \in Runs, GivesUp(h) PROVE LoopInv'
    BY <1>23 DEF GivesUp, Sets
<1>24. ASSUME NEW h \in Runs, Settles(h) PROVE LoopInv'
    BY <1>24 DEF Settles, Sets, GateOf
<1>25. ASSUME NEW x \in Answers, Match(x) PROVE LoopInv'
    BY <1>25 DEF Match
<1>26. ASSUME NEW x \in Answers, CheckAnswer(x) PROVE LoopInv'
    BY <1>26 DEF CheckAnswer, Over
<1>27. ASSUME NEW x \in Answers, SendAnswer(x) PROVE LoopInv'
    BY <1>27 DEF SendAnswer, Over
<1>28. CASE CloseCancels
    BY <1>28 DEF CloseCancels, CloseGoto
<1>29. CASE CloseEvicts
    BY <1>29 DEF CloseEvicts, CloseGoto
<1>30. CASE CloseRow
    BY <1>30 DEF CloseRow, CloseGoto
<1>31. CASE CloseFails
    BY <1>31 DEF CloseFails, CloseGoto
<1>32. CASE CloseReleases
    BY <1>32 DEF CloseReleases, CloseGoto
<1>33. CASE CloseClears
    BY <1>33 DEF CloseClears
<1>34. CASE CloseCancelsGate
    BY <1>34 DEF CloseCancelsGate, Cancelled, CloseGoto
<1>35. CASE CloseDropsGate
    BY <1>35 DEF CloseDropsGate, Without, CloseGoto
<1>36. CASE UNCHANGED vars
    BY <1>36
<1> QED BY <1>1, <1>2, <1>3, <1>4, <1>5, <1>6, <1>7, <1>8, <1>9, <1>10, <1>11, <1>12,
           <1>13, <1>14, <1>15, <1>16, <1>17, <1>18, <1>19, <1>20, <1>21, <1>22, <1>23,
           <1>24, <1>25, <1>26, <1>27, <1>28, <1>29, <1>30, <1>31, <1>32, <1>33, <1>34,
           <1>35, <1>36 DEF Next, Turn, Loop, Client, Close

(* The invariant holds initially and every step keeps it.                    *)
LEMMA Invariant == Spec => []IInv
<1>1. Init => IInv
    <2> SUFFICES ASSUME Init PROVE IInv
        OBVIOUS
    <2> USE ChatAssumption DEF Init
    <2>1. [st |-> "new", gate |-> None, for |-> 0] \in [st : {"new", "matched", "checked", "done"},
                                                     gate : Runs \cup {None}, for : Nat]
          /\ [st |-> "idle", run |-> None]
                \in [st : {"idle", "busy", "ask", "settle"}, run : Runs \cup {None}]
          /\ NewGate \in GateType
        BY DEF NewGate, GateType
    <2>2. TypeOK
        BY <2>1 DEF TypeOK, Idle, Unsent, PCs
    <2>3. Shape /\ LockInv
        BY DEF Shape, LockInv, Idle, Unsent, Locked, Critical, AtWork
    <2>4. LoopInv
        BY DEF LoopInv, Idle
    <2> QED BY <2>2, <2>3, <2>4 DEF IInv
<1>2. IInv /\ [Next]_vars => IInv'
    BY TypeStep, ShapeStep, LockStep, LoopStep DEF IInv
<1> QED BY <1>1, <1>2, PTL DEF Spec

(* Tables, runs, loops, gates and answers keep their types.                  *)
THEOREM ChatType == Spec => []TypeOK
<1>1. IInv => TypeOK
    BY DEF IInv
<1> QED BY <1>1, Invariant, PTL

(* Two turns never work on the session at the same time, although closing it *)
(* drops the lock entry that a turn may hold.                                *)
THEOREM TurnsExclude == Spec => []OneTurnAtATime
<1>1. IInv => OneTurnAtATime
    BY Alone DEF IInv
<1> QED BY <1>1, Invariant, PTL

(* No turn is refused because an earlier one has left its loop behind.       *)
THEOREM HarnessIsIdle == Spec => []PromptFindsIdle
<1>1. IInv => PromptFindsIdle
    <2> SUFFICES ASSUME IInv, NEW r \in Runs, pc[r] = "prompt"
                 PROVE  loop[uses[r]].st = "idle"
        BY DEF PromptFindsIdle, At
    <2>1. uses[r] \in Runs
        BY DEF IInv, Shape, AtWork
    <2> QED BY <2>1, PoolIsIdle DEF IInv
<1> QED BY <1>1, Invariant, PTL

----------------------------------------------------------------------------
(* Questions, answers and cancels.                                         *)

(* What waits in the channel of a gate was sent to its current question.   *)
FreshInv ==
    /\ \A g \in Runs : gate[g].ch # None => gate[g].ch.at = gate[g].id
    /\ AnswersAreFresh

(* Every step keeps the channels of the gates fresh.                       *)
LEMMA FreshStep ==
    ASSUME TypeOK, Shape, FreshInv, [Next]_vars
    PROVE  FreshInv'
<1> USE ChatAssumption DEF FreshInv, AnswersAreFresh, vars, tables, runs, talk, closing
<1>t. /\ gate \in [Runs -> GateType]
      /\ \A g \in Runs : gate[g] \in GateType
    BY DEF TypeOK
<1>q. ASSUME UNCHANGED <<gate, taken>> PROVE FreshInv'
    BY <1>q
<1>c. ASSUME NEW g \in Runs, gate' = [gate EXCEPT ![g].resolved = TRUE],
             taken' = taken \/ taken' = None
      PROVE  FreshInv'
    <2>1. \A f \in Runs : gate'[f].ch = gate[f].ch /\ gate'[f].id = gate[f].id
        BY <1>t, <1>c DEF GateType
    <2> QED BY <1>c, <2>1
<1>1. ASSUME NEW r \in Runs, Turn(r) PROVE FreshInv'
    <2>1. CASE CancelGate(r)
        BY <1>c, <2>1 DEF CancelGate, Cancelled
    <2>2. CASE ~CancelGate(r)
        <3>1. UNCHANGED <<gate, taken>>
            BY <1>1, <2>2 DEF Turn, Start, StoreGate, Bind, Validate, FetchLock, Acquire, Check,
               TakeHarness, Prompt, Finish, Interrupted, Drained, DrainTimeout, Unbind,
               ClearState, DropGate
        <3> QED BY <1>q, <3>1
    <2> QED BY <2>1, <2>2
<1>2. ASSUME NEW r \in Runs, Fails(r) \/ Deadline(r) PROVE FreshInv'
    BY <1>q, <1>2 DEF Fails, Deadline
<1>3. ASSUME NEW h \in Runs, Loop(h) PROVE FreshInv'
    <2>1. CASE LoopEnds(h) \/ GivesUp(h)
        BY <1>q, <2>1 DEF LoopEnds, GivesUp
    <2>2. CASE LoopAsks(h)
        <3> DEFINE g == GateOf(h)
        <3>1. /\ UNCHANGED taken
              /\ gate' = [gate EXCEPT ![g] = BeginWait(gate[g])]
            BY <2>2 DEF LoopAsks
        <3>2. ASSUME NEW f \in Runs, gate'[f].ch # None
              PROVE  gate'[f].ch = gate[f].ch /\ gate'[f].id = gate[f].id
            <4>1. gate'[f] = gate[f] \/ gate'[f] = BeginWait(gate[f])
                BY <1>t, <3>1
            <4> QED BY <3>2, <4>1 DEF BeginWait
        <3> QED BY <3>1, <3>2
    <2>3. CASE TakesAnswer(h)
        <3> DEFINE g == GateOf(h)
        <3>1. /\ g \in Runs /\ gate[g].ch # None
              /\ taken' = [asked |-> gate[g].id, for |-> gate[g].ch.for, at |-> gate[g].ch.at]
              /\ gate' = [gate EXCEPT ![g].ch = None]
            BY <2>3 DEF TakesAnswer, Shape
        <3>2. taken'.at = gate[g].ch.at /\ taken'.asked = gate[g].id
            BY <3>1
        <3>3. taken'.at = taken'.asked
            BY <3>1, <3>2
        <3>4. ASSUME NEW f \in Runs, gate'[f].ch # None PROVE gate'[f] = gate[f]
            BY <1>t, <3>1, <3>4 DEF GateType
        <3> QED BY <3>3, <3>4
    <2>4. CASE Settles(h)
        <3>1. GateOf(h) \in Runs
            BY <2>4 DEF Settles, Shape
        <3> QED BY <1>c, <2>4, <3>1 DEF Settles
    <2> QED BY <1>3, <2>1, <2>2, <2>3, <2>4 DEF Loop
<1>4. ASSUME NEW x \in Answers, Match(x) \/ CheckAnswer(x) PROVE FreshInv'
    BY <1>q, <1>4 DEF Match, CheckAnswer
<1>5. ASSUME NEW x \in Answers, SendAnswer(x) PROVE FreshInv'
    <2> DEFINE g == answer[x].gate
    <2>1. g \in Runs /\ UNCHANGED taken
        BY <1>5 DEF SendAnswer, Shape
    <2>2. CASE gate' = gate
        BY <1>q, <2>1, <2>2
    <2>3. CASE gate' = [gate EXCEPT ![g].ch = [for |-> answer[x].for, at |-> gate[g].id]]
        <3>1. gate'[g].ch.at = gate[g].id /\ gate'[g].id = gate[g].id
            BY <1>t, <2>1, <2>3 DEF GateType
        <3>2. \A f \in Runs \ {g} : gate'[f] = gate[f]
            BY <1>t, <2>3
        <3> QED BY <2>1, <3>1, <3>2
    <2> QED BY <1>5, <2>2, <2>3 DEF SendAnswer
<1>6. CASE Close
    <2>1. CASE CloseCancelsGate
        <3>1. ousted \in Runs
            BY <2>1 DEF CloseCancelsGate, CloseGoto, Shape
        <3> QED BY <1>c, <2>1, <3>1 DEF CloseCancelsGate, Cancelled
    <2>2. CASE ~CloseCancelsGate
        <3>1. UNCHANGED <<gate, taken>>
            BY <1>6, <2>2 DEF Close, CloseCancels, CloseEvicts, CloseRow, CloseFails,
               CloseReleases, CloseClears, CloseDropsGate
        <3> QED BY <1>q, <3>1
    <2> QED BY <2>1, <2>2
<1>7. CASE UNCHANGED vars
    BY <1>q, <1>7
<1> QED BY <1>1, <1>2, <1>3, <1>4, <1>5, <1>6, <1>7 DEF Next, Client

\* An HTTP run from the claim of the session's slot to its release.
InFlight(r) == Kind[r] = "api" /\ pc[r] \notin {"new", "cancel", "drop", "done"}

\* CloseSession has cleared the state of the HTTP run, whoever that was.
Cleared == closer \in {"gate", "drop", "done"}

(* The slot belongs to the one HTTP run in flight, and so does the gate    *)
(* once the run has stored it: nobody else's cleanup removes either.       *)
GateInv ==
    /\ \A r \in Runs : At(r, "gate") => Kind[r] = "api"
    /\ ~Cleared => \A r \in Runs :
                      InFlight(r) => apiRun = r /\ (~At(r, "gate") => confirmGate = r)

ReachInv == GateInv /\ ApiRunsStayCancellable

(* Every step keeps the gate and the cancel function of the HTTP run.      *)
LEMMA ReachStep ==
    ASSUME TypeOK, Shape, ReachInv, [Next]_vars
    PROVE  ReachInv'
<1> USE ChatAssumption DEF ReachInv, GateInv, ApiRunsStayCancellable, InFlight, Cleared, At,
                           Locked, vars, tables, runs, talk, closing
<1>t. /\ pc \in [Runs -> PCs] /\ ctx \in [Runs -> {"live", "ended"}]
      /\ \A r \in Runs : Kind[r] \in {"api", "platform"}
    BY DEF TypeOK
<1>s. session = "open" => ~Cleared
    BY DEF Shape
<1>q. ASSUME NEW r \in Runs, NEW l \in PCs \ {"new", "gate"}, pc' = [pc EXCEPT ![r] = l],
             pc[r] \in Locked \cup {"bind", "validate", "lock", "acquire"},
             l \notin {"cancel", "drop", "done", "bind"},
             pc[r] # "bind" \/ l \notin Locked \cup {"validate", "lock", "acquire"},
             UNCHANGED <<session, apiRun, confirmGate, registered, closer, ctx>>
      PROVE  ReachInv'
    BY <1>t, <1>q
<1>1. ASSUME NEW r \in Runs, Turn(r) PROVE ReachInv'
    <2>1. CASE Start(r)
        BY <1>t, <2>1 DEF Start, Goto
    <2>2. CASE StoreGate(r)
        BY <1>t, <2>2 DEF StoreGate, Goto
    <2>3. CASE Bind(r)
        BY <1>t, <1>s, <2>3 DEF Bind, Goto
    <2>4. CASE Validate(r)
        BY <1>q, <2>4 DEF Validate, Goto, PCs
    <2>5. CASE FetchLock(r)
        BY <1>q, <2>5 DEF FetchLock, Goto, PCs
    <2>6. CASE Acquire(r)
        BY <1>q, <2>6 DEF Acquire, Goto, PCs
    <2>7. CASE Check(r)
        BY <1>q, <2>7 DEF Check, Goto, PCs
    <2>8. CASE TakeHarness(r)
        BY <1>q, <2>8 DEF TakeHarness, Goto, PCs
    <2>9. CASE Prompt(r)
        BY <1>q, <2>9 DEF Prompt, Goto, PCs
    <2>10. CASE Finish(r)
        BY <1>q, <2>10 DEF Finish, Goto, PCs
    <2>11. CASE Interrupted(r)
        BY <1>q, <2>11 DEF Interrupted, Goto, PCs
    <2>12. CASE Drained(r)
        BY <1>q, <2>12 DEF Drained, Goto, PCs
    <2>13. CASE DrainTimeout(r)
        BY <1>q, <2>13 DEF DrainTimeout, Goto, PCs
    <2>14. CASE Unbind(r)
        BY <1>t, <1>s, <2>14 DEF Unbind, Goto
    <2>15. CASE ClearState(r)
        BY <1>t, <2>15 DEF ClearState, Goto
    <2>16. CASE CancelGate(r)
        BY <1>t, <2>16 DEF CancelGate, Goto
    <2>17. CASE DropGate(r)
        BY <1>t, <2>17 DEF DropGate, Without, Goto
    <2> QED BY <1>1, <2>1, <2>2, <2>3, <2>4, <2>5, <2>6, <2>7, <2>8, <2>9, <2>10, <2>11,
               <2>12, <2>13, <2>14, <2>15, <2>16, <2>17 DEF Turn
<1>2. ASSUME NEW r \in Runs, Fails(r) PROVE ReachInv'
    BY <1>q, <1>2 DEF Fails, Goto, PCs
<1>3. ASSUME NEW r \in Runs, Deadline(r) PROVE ReachInv'
    BY <1>t, <1>3 DEF Deadline
<1>4. ASSUME UNCHANGED <<session, apiRun, confirmGate, registered, closer, pc, ctx>>
      PROVE  ReachInv'
    BY <1>4
<1>5. ASSUME NEW h \in Runs, Loop(h) PROVE ReachInv'
    BY <1>4, <1>5 DEF Loop, LoopEnds, LoopAsks, TakesAnswer, GivesUp, Settles
<1>6. ASSUME NEW x \in Answers, Client(x) PROVE ReachInv'
    BY <1>4, <1>6 DEF Client, Match, CheckAnswer, SendAnswer
<1>7. CASE Close
    <2>1. CASE CloseCancels
        BY <1>t, <2>1 DEF CloseCancels, CloseGoto
    <2>2. CASE CloseEvicts \/ CloseFails \/ CloseReleases
        BY <2>2 DEF CloseEvicts, CloseFails, CloseReleases, CloseGoto
    <2>3. CASE CloseRow
        BY <2>3 DEF CloseRow, CloseGoto
    <2>4. CASE CloseClears
        BY <2>4 DEF CloseClears, Shape
    <2>5. CASE CloseCancelsGate \/ CloseDropsGate
        BY <2>5 DEF CloseCancelsGate, CloseDropsGate, CloseGoto, Shape
    <2> QED BY <1>7, <2>1, <2>2, <2>3, <2>4, <2>5 DEF Close
<1>8. CASE UNCHANGED vars
    BY <1>4, <1>8
<1> QED BY <1>1, <1>2, <1>3, <1>5, <1>6, <1>7, <1>8 DEF Next

(* An answer that a question receives was sent while it was the current    *)
(* question of its gate: beginWait makes a new channel, and Resolve sends  *)
(* to the channel of the moment (confirm.go).                              *)
THEOREM AnswersBelong == Spec => []AnswersAreFresh
<1>1. Init => FreshInv
    BY DEF Init, FreshInv, AnswersAreFresh, NewGate
<1>2. IInv /\ FreshInv /\ [Next]_vars => FreshInv'
    BY FreshStep DEF IInv
<1>3. FreshInv => AnswersAreFresh
    BY DEF FreshInv
<1> QED BY <1>1, <1>2, <1>3, Invariant, PTL DEF Spec

(* The gate and the cancel function of an HTTP run stay its own.           *)
LEMMA Reachable == Spec => []ReachInv
<1>1. Init => ReachInv
    BY DEF Init, ReachInv, GateInv, ApiRunsStayCancellable, InFlight, At, Locked
<1>2. IInv /\ ReachInv /\ [Next]_vars => ReachInv'
    BY ReachStep DEF IInv
<1> QED BY <1>1, <1>2, Invariant, PTL DEF Spec

(* A client finds the gate of the HTTP run whose question waits: the       *)
(* cleanup of an earlier run removes only its own gate (ClearAPIRunState). *)
THEOREM QuestionsReachable == Spec => []QuestionsCanBeAnswered
<1>1. IInv /\ ReachInv => QuestionsCanBeAnswered
    BY DEF IInv, Shape, ReachInv, GateInv, InFlight, Cleared, At, QuestionsCanBeAnswered
<1> QED BY <1>1, Invariant, Reachable, PTL

(* Between HTTP runs nobody takes the slot of runCancels from a live turn  *)
(* of an open session (registerRunCancel, unregisterRunCancel).            *)
THEOREM CancelsReachable == Spec => []ApiRunsStayCancellable
<1>1. ReachInv => ApiRunsStayCancellable
    BY DEF ReachInv
<1> QED BY <1>1, Reachable, PTL

----------------------------------------------------------------------------
(* What a closed session is quiet for.                                     *)

\* A turn registers itself after CloseSession has cancelled the one in the
\* slot and before the row says that the session is closed.
BindsTooLate == closer \in {"evict", "close"} /\ \E r \in Runs : Bind(r)

\* A turn that ends empties the slot of another one.
EmptiesAnother ==
    closer = "idle" /\ \E r \in Runs : Unbind(r) /\ registered \notin {r, None}

Unraced == ~BindsTooLate /\ ~EmptiesAnother

\* A turn has registered itself and has not given its slot back.
Bound == Locked \cup {"validate", "lock", "acquire"}

(* Until the session is being closed a live turn is the one in the slot;   *)
(* afterwards no turn is live, except one that will be refused.            *)
QuietInv ==
    /\ session = "closed" <=> closer \in {"release", "clear", "gate", "drop", "done"}
    /\ closer = "idle" =>
          \A r \in Runs : pc[r] \in Bound /\ ctx[r] = "live" => registered = r
    /\ closer \notin {"idle", "failed"} =>
          \A r \in Runs : pc[r] \in Bound =>
             ctx[r] = "ended" \/ (session = "closed" /\ At(r, "validate"))

(* Without the two races every step keeps it.                              *)
LEMMA QuietStep ==
    ASSUME TypeOK, QuietInv, [Next]_vars, [Unraced]_vars
    PROVE  QuietInv'
<1> USE ChatAssumption DEF QuietInv, Bound, At, Locked
<1>t. /\ pc \in [Runs -> PCs] /\ ctx \in [Runs -> {"live", "ended"}]
      /\ session \in {"open", "closed"} /\ registered \in Runs \cup {None}
    BY DEF TypeOK
<1>q. ASSUME NEW r \in Runs, NEW l \in PCs, pc' = [pc EXCEPT ![r] = l],
             l \in Bound => pc[r] \in Bound \ {"validate"},
             UNCHANGED <<session, registered, closer, ctx>>
      PROVE  QuietInv'
    BY <1>t, <1>q
<1>1. ASSUME NEW r \in Runs, Turn(r) PROVE QuietInv'
    <2>1. CASE Start(r)
        BY <1>q, <2>1 DEF Start, Goto, PCs, closing
    <2>2. CASE StoreGate(r)
        BY <1>q, <2>2 DEF StoreGate, Goto, PCs, closing
    <2>3. CASE Bind(r)
        <3>1. /\ pc[r] = "bind" /\ pc' = [pc EXCEPT ![r] = "validate"] /\ registered' = r
              /\ ctx' = IF registered = None THEN ctx ELSE [ctx EXCEPT ![registered] = "ended"]
              /\ UNCHANGED <<session, closer>>
            BY <2>3 DEF Bind, Goto, closing
        <3>2. registered' # registered \/ pc' # pc
            BY <1>t, <3>1
        <3>3. vars' # vars
            BY <3>2 DEF vars, tables, runs
        <3>4. closer \notin {"evict", "close"}
            BY <2>3, <3>3 DEF Unraced, BindsTooLate
        <3>5. closer \in {"idle", "failed"} \/ session = "closed"
            BY <3>4 DEF TypeOK
        <3> QED BY <1>t, <3>1, <3>5
    <2>4. CASE Validate(r)
        BY <1>t, <2>4 DEF Validate, Goto, tables, closing
    <2>5. CASE FetchLock(r)
        BY <1>q, <2>5 DEF FetchLock, Goto, PCs, closing
    <2>6. CASE Acquire(r)
        BY <1>q, <2>6 DEF Acquire, Goto, PCs, tables, closing
    <2>7. CASE Check(r)
        BY <1>q, <2>7 DEF Check, Goto, PCs, tables, closing
    <2>8. CASE TakeHarness(r)
        BY <1>q, <2>8 DEF TakeHarness, Goto, PCs, closing
    <2>9. CASE Prompt(r)
        BY <1>q, <2>9 DEF Prompt, Goto, PCs, tables, closing
    <2>10. CASE Finish(r)
        BY <1>q, <2>10 DEF Finish, Goto, PCs, tables, closing
    <2>11. CASE Interrupted(r)
        BY <1>q, <2>11 DEF Interrupted, Goto, PCs, tables, closing
    <2>12. CASE Drained(r)
        BY <1>q, <2>12 DEF Drained, Goto, PCs, tables, closing
    <2>13. CASE DrainTimeout(r)
        BY <1>q, <2>13 DEF DrainTimeout, Goto, PCs, closing
    <2>14. CASE Unbind(r)
        <3>1. /\ pc[r] = "unbind" /\ registered' = None /\ ctx' = [ctx EXCEPT ![r] = "ended"]
              /\ pc' \in {[pc EXCEPT ![r] = "clear"], [pc EXCEPT ![r] = "done"]}
              /\ UNCHANGED <<session, closer>>
            BY <2>14 DEF Unbind, Goto, closing
        <3>2. pc' # pc
            BY <1>t, <3>1
        <3>3. closer = "idle" => registered \in {r, None}
            BY <2>14, <3>2 DEF Unraced, EmptiesAnother, vars, runs
        <3> QED BY <1>t, <3>1, <3>3
    <2>15. CASE ClearState(r)
        BY <1>q, <2>15 DEF ClearState, Goto, PCs, closing
    <2>16. CASE CancelGate(r)
        BY <1>q, <2>16 DEF CancelGate, Goto, PCs, tables, closing
    <2>17. CASE DropGate(r)
        BY <1>q, <2>17 DEF DropGate, Goto, PCs, closing
    <2> QED BY <1>1, <2>1, <2>2, <2>3, <2>4, <2>5, <2>6, <2>7, <2>8, <2>9, <2>10, <2>11,
               <2>12, <2>13, <2>14, <2>15, <2>16, <2>17 DEF Turn
<1>2. ASSUME NEW r \in Runs, Fails(r) PROVE QuietInv'
    BY <1>q, <1>2 DEF Fails, Goto, PCs, closing
<1>3. ASSUME NEW r \in Runs, Deadline(r) PROVE QuietInv'
    BY <1>t, <1>3 DEF Deadline, tables, closing
<1>4. ASSUME UNCHANGED <<session, registered, closer, pc, ctx>>
      PROVE  QuietInv'
    BY <1>4
<1>5. ASSUME NEW h \in Runs, Loop(h) PROVE QuietInv'
    BY <1>4, <1>5 DEF Loop, LoopEnds, LoopAsks, TakesAnswer, GivesUp, Settles, tables, runs, closing
<1>6. ASSUME NEW x \in Answers, Client(x) PROVE QuietInv'
    BY <1>4, <1>6 DEF Client, Match, CheckAnswer, SendAnswer, tables, runs, closing
<1>7. CASE Close
    <2>1. CASE CloseCancels
        <3>1. /\ closer = "idle" /\ closer' = "evict" /\ UNCHANGED <<session, pc>>
              /\ ctx' = IF registered = None THEN ctx ELSE [ctx EXCEPT ![registered] = "ended"]
            BY <2>1 DEF CloseCancels, CloseGoto, tables
        <3>2. \A r \in Runs : pc[r] \in Bound => ctx'[r] = "ended"
            BY <1>t, <3>1
        <3> QED BY <1>t, <3>1, <3>2
    <2>2. CASE CloseEvicts \/ CloseFails \/ CloseReleases \/ CloseRow
        BY <1>t, <2>2 DEF CloseEvicts, CloseFails, CloseReleases, CloseRow, CloseGoto, tables, runs
    <2>3. CASE CloseClears \/ CloseCancelsGate \/ CloseDropsGate
        BY <1>t, <2>3 DEF CloseClears, CloseCancelsGate, CloseDropsGate, CloseGoto, tables, runs
    <2> QED BY <1>7, <2>1, <2>2, <2>3 DEF Close
<1>8. CASE UNCHANGED vars
    BY <1>4, <1>8 DEF vars, tables, runs, closing
<1> QED BY <1>1, <1>2, <1>3, <1>5, <1>6, <1>7, <1>8 DEF Next

(* When no turn registers itself between the cancel and the row, and none  *)
(* empties the slot of another, no turn of a closed session works on: the  *)
(* two races are all that can keep one alive (CloseSession, session.go:86).*)
THEOREM ClosingIsQuiet == Spec /\ [][Unraced]_vars => []ClosedSessionIsQuiet
<1>1. Init => QuietInv
    BY DEF Init, QuietInv, Bound, Locked, At
<1>2. IInv /\ QuietInv /\ [Next]_vars /\ [Unraced]_vars => QuietInv'
    BY QuietStep DEF IInv
<1>3. QuietInv => ClosedSessionIsQuiet
    BY DEF QuietInv, ClosedSessionIsQuiet, Critical, Locked, Bound, At
<1> QED BY <1>1, <1>2, <1>3, Invariant, PTL DEF Spec

(* The slot names a turn that has not given it back.                       *)
SlotInv == registered # None => pc[registered] \in Bound \cup {"unbind"}

(* Every step keeps the slot: whoever leaves empties it.                   *)
LEMMA SlotStep ==
    ASSUME TypeOK, SlotInv, [Next]_vars
    PROVE  SlotInv'
<1> USE ChatAssumption DEF SlotInv, Bound, At, Locked
<1>t. pc \in [Runs -> PCs] /\ registered \in Runs \cup {None}
    BY DEF TypeOK
<1>1. ASSUME NEW r \in Runs, Turn(r) PROVE SlotInv'
    <2>1. CASE Bind(r)
        BY <1>t, <2>1 DEF Bind, Goto
    <2>2. CASE Unbind(r)
        BY <2>2 DEF Unbind
    <2>3. CASE ~Bind(r) /\ ~Unbind(r)
        <3>1. PICK l \in PCs : /\ pc' = [pc EXCEPT ![r] = l] /\ UNCHANGED registered
                               /\ pc[r] \in Bound => l \in Bound \cup {"unbind"}
                               /\ pc[r] # "unbind"
            BY <1>1, <2>3 DEF Turn, Start, StoreGate, Validate, FetchLock, Acquire, Check,
               TakeHarness, Prompt, Finish, Interrupted, Drained, DrainTimeout, ClearState,
               CancelGate, DropGate, Goto, PCs, tables
        <3> QED BY <1>t, <3>1
    <2> QED BY <2>1, <2>2, <2>3
<1>2. ASSUME NEW r \in Runs, Fails(r) PROVE SlotInv'
    BY <1>t, <1>2 DEF Fails, Goto
<1>3. ASSUME UNCHANGED <<registered, pc>> PROVE SlotInv'
    BY <1>3
<1>4. ASSUME NEW r \in Runs, Deadline(r) \/ Loop(r) PROVE SlotInv'
    BY <1>3, <1>4 DEF Deadline, Loop, LoopEnds, LoopAsks, TakesAnswer, GivesUp, Settles, tables, runs
<1>5. ASSUME NEW x \in Answers, Client(x) PROVE SlotInv'
    BY <1>3, <1>5 DEF Client, Match, CheckAnswer, SendAnswer, tables, runs
<1>6. CASE Close
    BY <1>3, <1>6 DEF Close, CloseCancels, CloseEvicts, CloseRow, CloseFails, CloseReleases,
       CloseClears, CloseCancelsGate, CloseDropsGate, tables, runs
<1>7. CASE UNCHANGED vars
    BY <1>3, <1>7 DEF vars, tables, runs
<1> QED BY <1>1, <1>2, <1>4, <1>5, <1>6, <1>7 DEF Next

(* A session of HTTP runs only has the first race alone: an HTTP run that  *)
(* ends finds nobody else in the slot (TrySetAPIRunState).                 *)
THEOREM HttpClosingIsQuiet ==
    ASSUME \A r \in Runs : Kind[r] = "api"
    PROVE  Spec /\ [][~BindsTooLate]_vars => []ClosedSessionIsQuiet
<1>1. Init => SlotInv
    BY DEF Init, SlotInv
<1>2. IInv /\ SlotInv /\ [Next]_vars => SlotInv'
    BY SlotStep DEF IInv
<1>3. IInv /\ ReachInv /\ SlotInv => ~EmptiesAnother
    <2> SUFFICES ASSUME IInv, ReachInv, SlotInv, closer = "idle",
                        NEW r \in Runs, Unbind(r), registered \notin {r, None}
                 PROVE  FALSE
        BY DEF EmptiesAnother
    <2>1. /\ registered \in Runs /\ At(r, "unbind")
          /\ pc[registered] \in Bound \cup {"unbind"}
        BY DEF IInv, TypeOK, SlotInv, Unbind
    <2>2. InFlight(r) /\ InFlight(registered)
        BY <2>1 DEF InFlight, At, Bound, Locked
    <2>3. apiRun = r /\ apiRun = registered
        BY <2>1, <2>2 DEF ReachInv, GateInv, Cleared
    <2> QED BY <2>3
<1>4. IInv /\ ReachInv /\ SlotInv /\ [~BindsTooLate]_vars => [Unraced]_vars
    BY <1>3 DEF Unraced
<1> QED BY <1>1, <1>2, <1>4, Invariant, Reachable, ClosingIsQuiet, PTL DEF Spec
=============================================================================
