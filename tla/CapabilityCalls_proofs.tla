----------------------- MODULE CapabilityCalls_proofs -----------------------
(***************************************************************************)
(* Proofs about CapabilityCalls, for any reads, mutations, keys and sizes  *)
(* of the bulkhead.  The argument: a read that was not overtaken puts its  *)
(* key into the map that is in the index, so the next mutation to throw    *)
(* the index away takes the key along and holds it until the answer is     *)
(* deleted.                                                                *)
(***************************************************************************)
EXTENDS CapabilityCalls, FiniteSetTheorems, TLAPS

Unanswered == {"new", "enter", "wait", "slot", "run"}

(* What calls at work have to do with the data and the index.              *)
CallInv ==
    /\ \A c \in Calls : pc[c] \in Unanswered => ~ok[c]
    /\ \A c \in Calls : pc[c] \in {"set", "register", "store"} => c \in Reads
    /\ \A c \in Calls : pc[c] \in {"detach", "sweep"} => c \in Mutations
    /\ \A c \in Calls : seen[c] <= data
    /\ \A r \in Reads : pc[r] \in Answering /\ r \notin raced => seen[r] = data
    /\ \A r \in Reads : pc[r] = "store" => map[r] # None /\ (r \notin raced => map[r] = index)
    /\ index = None => members = {}

Sweeping(k) == \E d \in Mutations : pc[d] = "sweep" /\ k \in left[d]

(* What an answer in the cache has to do with its read, the index and the  *)
(* mutations that are newer.                                               *)
EntryInv(k) ==
    cached[k] # None =>
       /\ KeyOf[cached[k].by] = k /\ cached[k].seen = seen[cached[k].by]
       /\ pc[cached[k].by] \in {"register", "store", "done"}
       /\ cached[k].by \notin raced =>
             /\ pc[cached[k].by] = "done" => k \in members \/ Sweeping(k)
             /\ \A m \in Mutations :
                   pc[m] \in {"sweep", "done"} /\ ok[m] /\ seen[m] > cached[k].seen
                   => Sweeping(k)

IInv == TypeOK /\ TokensAreHeld /\ CallInv /\ \A k \in Keys : EntryInv(k)

Queued == {c \in Calls : pc[c] \in {"wait", "slot"}}
Slotted == {c \in Calls : pc[c] \in {"slot", "run", "leave"}}

(* A set of calls that one call enters or leaves, and how many they are.   *)
LEMMA OneMore ==
    ASSUME NEW S \in SUBSET Calls, NEW c \in Calls \ S
    PROVE  Cardinality(S \cup {c}) = Cardinality(S) + 1 /\ Cardinality(S) \in Nat
<1>1. IsFiniteSet(S)
    BY CallsAssumption, FS_Subset
<1> QED BY <1>1, FS_AddElement, FS_CardinalityType

(* A set of calls that loses a member has one fewer.                       *)
LEMMA OneLess ==
    ASSUME NEW S \in SUBSET Calls, NEW c \in S
    PROVE  Cardinality(S \ {c}) = Cardinality(S) - 1 /\ Cardinality(S) \in Nat \ {0}
<1>1. IsFiniteSet(S)
    BY CallsAssumption, FS_Subset
<1>2. Cardinality(S) # 0
    BY <1>1, FS_EmptySet
<1> QED BY <1>1, <1>2, FS_RemoveElement, FS_CardinalityType

(* Every step keeps the tokens and the calls that hold them together. *)
LEMMA TokenStep ==
    ASSUME TypeOK, TokensAreHeld, [Next]_vars
    PROVE  TokensAreHeld'
<1> USE CallsAssumption DEF vars, cache, bulkhead, local, Calls, TypeOK, PCs
<1>1. ASSUME NEW c \in Calls, Lookup(c) PROVE TokensAreHeld'
    <2>1. Queued' = Queued /\ Slotted' = Slotted /\ queue' = queue /\ sem' = sem
        BY <1>1 DEF Lookup, Goes, Queued, Slotted
    <2> QED BY <2>1 DEF Queued, Slotted, TokensAreHeld
<1>2. ASSUME NEW c \in Calls, EnterQueue(c) PROVE TokensAreHeld'
    <2>1. CASE queue < MaxQueue
        <3>1. Queued' = Queued \cup {c} /\ c \in Calls \ Queued /\ Slotted' = Slotted
              /\ queue' = queue + 1 /\ sem' = sem
            BY <1>2, <2>1 DEF EnterQueue, Goes, Queued, Slotted
        <3> QED BY <3>1, OneMore DEF Queued, Slotted, TokensAreHeld
    <2>2. CASE ~(queue < MaxQueue)
        <3>1. Queued' = Queued /\ Slotted' = Slotted /\ queue' = queue /\ sem' = sem
            BY <1>2, <2>2 DEF EnterQueue, Goes, Queued, Slotted
        <3> QED BY <3>1 DEF Queued, Slotted, TokensAreHeld
    <2> QED BY <2>1, <2>2
<1>3. ASSUME NEW c \in Calls, TakeSlot(c) PROVE TokensAreHeld'
    <2>1. Queued' = Queued /\ Slotted' = Slotted \cup {c} /\ c \in Calls \ Slotted
          /\ queue' = queue /\ sem' = sem + 1
        BY <1>3 DEF TakeSlot, Goes, Queued, Slotted
    <2> QED BY <2>1, OneMore DEF Queued, Slotted, TokensAreHeld
<1>4. ASSUME NEW c \in Calls, LeaveQueue(c) PROVE TokensAreHeld'
    <2>1. Queued' = Queued \ {c} /\ c \in Queued /\ Slotted' = Slotted
          /\ queue' = queue - 1 /\ sem' = sem
        BY <1>4 DEF LeaveQueue, Goes, Queued, Slotted
    <2> QED BY <2>1, OneLess DEF Queued, Slotted, TokensAreHeld
<1>5. ASSUME NEW c \in Calls, GiveUp(c) PROVE TokensAreHeld'
    <2>1. Queued' = Queued \ {c} /\ c \in Queued /\ Slotted' = Slotted
          /\ queue' = queue - 1 /\ sem' = sem
        BY <1>5 DEF GiveUp, Goes, Queued, Slotted
    <2> QED BY <2>1, OneLess DEF Queued, Slotted, TokensAreHeld
<1>6. ASSUME NEW c \in Calls, LeaveSlot(c) PROVE TokensAreHeld'
    <2>1. Queued' = Queued /\ Slotted' = Slotted \ {c} /\ c \in Slotted
          /\ queue' = queue /\ sem' = sem - 1
        BY <1>6 DEF LeaveSlot, AfterSlot, Goes, Queued, Slotted
    <2> QED BY <2>1, OneLess DEF Queued, Slotted, TokensAreHeld
<1>7. ASSUME NEW c \in Calls, Set(c) PROVE TokensAreHeld'
    <2>1. Queued' = Queued /\ Slotted' = Slotted /\ queue' = queue /\ sem' = sem
        BY <1>7 DEF Set, Goes, Queued, Slotted
    <2> QED BY <2>1 DEF Queued, Slotted, TokensAreHeld
<1>8. ASSUME NEW c \in Calls, SetRefused(c) PROVE TokensAreHeld'
    <2>1. Queued' = Queued /\ Slotted' = Slotted /\ queue' = queue /\ sem' = sem
        BY <1>8 DEF SetRefused, Goes, Queued, Slotted
    <2> QED BY <2>1 DEF Queued, Slotted, TokensAreHeld
<1>9. ASSUME NEW c \in Calls, Register(c) PROVE TokensAreHeld'
    <2>1. Queued' = Queued /\ Slotted' = Slotted /\ queue' = queue /\ sem' = sem
        BY <1>9 DEF Register, Goes, Queued, Slotted
    <2> QED BY <2>1 DEF Queued, Slotted, TokensAreHeld
<1>10. ASSUME NEW c \in Calls, StoreKey(c) PROVE TokensAreHeld'
    <2>1. Queued' = Queued /\ Slotted' = Slotted /\ queue' = queue /\ sem' = sem
        BY <1>10 DEF StoreKey, Goes, Swept, Queued, Slotted
    <2> QED BY <2>1 DEF Queued, Slotted, TokensAreHeld
<1>11. ASSUME NEW c \in Calls, Detach(c) PROVE TokensAreHeld'
    <2>1. Queued' = Queued /\ Slotted' = Slotted /\ queue' = queue /\ sem' = sem
        BY <1>11 DEF Detach, Goes, Overtakes, Queued, Slotted
    <2> QED BY <2>1 DEF Queued, Slotted, TokensAreHeld
<1>12. ASSUME NEW c \in Calls, Delete(c) PROVE TokensAreHeld'
    <2>1. Queued' = Queued /\ Slotted' = Slotted /\ queue' = queue /\ sem' = sem
        BY <1>12 DEF Delete, At, Queued, Slotted
    <2> QED BY <2>1 DEF Queued, Slotted, TokensAreHeld
<1>13. ASSUME NEW c \in Calls, EndSweep(c) PROVE TokensAreHeld'
    <2>1. Queued' = Queued /\ Slotted' = Slotted /\ queue' = queue /\ sem' = sem
        BY <1>13 DEF EndSweep, Goes, Queued, Slotted
    <2> QED BY <2>1 DEF Queued, Slotted, TokensAreHeld
<1>14. ASSUME NEW c \in Calls, AnswerRead(c) PROVE TokensAreHeld'
    <2>1. Queued' = Queued /\ Slotted' = Slotted /\ queue' = queue /\ sem' = sem
        BY <1>14 DEF AnswerRead, Goes, Queued, Slotted
    <2> QED BY <2>1 DEF Queued, Slotted, TokensAreHeld
<1>15. ASSUME NEW c \in Calls, Mutate(c) PROVE TokensAreHeld'
    <2>1. Queued' = Queued /\ Slotted' = Slotted /\ queue' = queue /\ sem' = sem
        BY <1>15 DEF Mutate, Goes, Overtakes, Answering, Queued, Slotted
    <2> QED BY <2>1 DEF Queued, Slotted, TokensAreHeld
<1>16. ASSUME NEW c \in Calls, Refuse(c) PROVE TokensAreHeld'
    <2>1. Queued' = Queued /\ Slotted' = Slotted /\ queue' = queue /\ sem' = sem
        BY <1>16 DEF Refuse, Goes, Queued, Slotted
    <2> QED BY <2>1 DEF Queued, Slotted, TokensAreHeld
<1>17. ASSUME NEW e \in Keys, Expire(e) PROVE TokensAreHeld'
    BY <1>17 DEF Expire, TokensAreHeld
<1>18. CASE UNCHANGED vars
    BY <1>18 DEF TokensAreHeld
<1> QED BY <1>1, <1>2, <1>3, <1>4, <1>5, <1>6, <1>7, <1>8, <1>9, <1>10, <1>11, <1>12,
           <1>13, <1>14, <1>15, <1>16, <1>17, <1>18 DEF Next, Caller, Provider

(* Every step keeps the types. *)
LEMMA TypeStep ==
    ASSUME TypeOK, TokensAreHeld, CallInv, [Next]_vars
    PROVE  TypeOK'
<1> USE CallsAssumption DEF vars, cache, bulkhead, local, Calls, TypeOK, PCs, CallInv
<1>1. ASSUME NEW c \in Calls, Lookup(c) PROVE TypeOK'
    BY <1>1 DEF Lookup, Goes
<1>2. ASSUME NEW c \in Calls, EnterQueue(c) PROVE TypeOK'
    BY <1>2 DEF EnterQueue, Goes
<1>3. ASSUME NEW c \in Calls, TakeSlot(c) PROVE TypeOK'
    BY <1>3 DEF TakeSlot, Goes
<1>4. ASSUME NEW c \in Calls, LeaveQueue(c) PROVE TypeOK'
    <2>1. c \in Queued /\ queue' = queue - 1
        BY <1>4 DEF LeaveQueue, Goes, Queued
    <2>2. queue \in Nat \ {0}
        BY <2>1, OneLess DEF Queued, TokensAreHeld
    <2>3. queue' \in 0..MaxQueue
        BY <2>1, <2>2
    <2> QED BY <1>4, <2>3 DEF LeaveQueue, Goes
<1>5. ASSUME NEW c \in Calls, GiveUp(c) PROVE TypeOK'
    <2>1. c \in Queued /\ queue' = queue - 1
        BY <1>5 DEF GiveUp, Goes, Queued
    <2>2. queue \in Nat \ {0}
        BY <2>1, OneLess DEF Queued, TokensAreHeld
    <2>3. queue' \in 0..MaxQueue
        BY <2>1, <2>2
    <2> QED BY <1>5, <2>3 DEF GiveUp, Goes
<1>6. ASSUME NEW c \in Calls, LeaveSlot(c) PROVE TypeOK'
    <2>1. c \in Slotted /\ sem' = sem - 1
        BY <1>6 DEF LeaveSlot, Goes, Slotted
    <2>2. sem \in Nat \ {0}
        BY <2>1, OneLess DEF Slotted, TokensAreHeld
    <2>3. sem' \in 0..MaxConcurrent
        BY <2>1, <2>2
    <2> QED BY <1>6, <2>3 DEF LeaveSlot, AfterSlot, Goes
<1>7. ASSUME NEW c \in Calls, Set(c) PROVE TypeOK'
    BY <1>7 DEF Set, Goes
<1>8. ASSUME NEW c \in Calls, SetRefused(c) PROVE TypeOK'
    BY <1>8 DEF SetRefused, Goes
<1>9. ASSUME NEW c \in Calls, Register(c) PROVE TypeOK'
    BY <1>9 DEF Register, Goes
<1>10. ASSUME NEW c \in Calls, StoreKey(c) PROVE TypeOK'
    BY <1>10 DEF StoreKey, Goes, Swept
<1>11. ASSUME NEW c \in Calls, Detach(c) PROVE TypeOK'
    BY <1>11 DEF Detach, Goes, Overtakes
<1>12. ASSUME NEW c \in Calls, Delete(c) PROVE TypeOK'
    BY <1>12 DEF Delete, At
<1>13. ASSUME NEW c \in Calls, EndSweep(c) PROVE TypeOK'
    BY <1>13 DEF EndSweep, Goes
<1>14. ASSUME NEW c \in Calls, AnswerRead(c) PROVE TypeOK'
    BY <1>14 DEF AnswerRead, Goes
<1>15. ASSUME NEW c \in Calls, Mutate(c) PROVE TypeOK'
    BY <1>15 DEF Mutate, Goes, Overtakes, Answering
<1>16. ASSUME NEW c \in Calls, Refuse(c) PROVE TypeOK'
    BY <1>16 DEF Refuse, Goes
<1>17. ASSUME NEW e \in Keys, Expire(e) PROVE TypeOK'
    BY <1>17 DEF Expire
<1>18. CASE UNCHANGED vars
    BY <1>18
<1> QED BY <1>1, <1>2, <1>3, <1>4, <1>5, <1>6, <1>7, <1>8, <1>9, <1>10, <1>11, <1>12,
           <1>13, <1>14, <1>15, <1>16, <1>17, <1>18 DEF Next, Caller, Provider

(* Every step keeps what calls at work have to do with the data. *)
LEMMA CallStep ==
    ASSUME TypeOK, CallInv, [Next]_vars
    PROVE  CallInv'
<1> USE CallsAssumption DEF vars, cache, bulkhead, local, Calls, TypeOK, CallInv, Unanswered, Answering
<1>1. ASSUME NEW c \in Calls, Lookup(c) PROVE CallInv'
    BY <1>1 DEF Lookup, Goes
<1>2. ASSUME NEW c \in Calls, EnterQueue(c) PROVE CallInv'
    BY <1>2 DEF EnterQueue, Goes
<1>3. ASSUME NEW c \in Calls, TakeSlot(c) PROVE CallInv'
    BY <1>3 DEF TakeSlot, Goes
<1>4. ASSUME NEW c \in Calls, LeaveQueue(c) PROVE CallInv'
    BY <1>4 DEF LeaveQueue, Goes
<1>5. ASSUME NEW c \in Calls, GiveUp(c) PROVE CallInv'
    BY <1>5 DEF GiveUp, Goes
<1>6. ASSUME NEW c \in Calls, LeaveSlot(c) PROVE CallInv'
    BY <1>6 DEF LeaveSlot, Goes, AfterSlot
<1>7. ASSUME NEW c \in Calls, Set(c) PROVE CallInv'
    BY <1>7 DEF Set, Goes
<1>8. ASSUME NEW c \in Calls, SetRefused(c) PROVE CallInv'
    BY <1>8 DEF SetRefused, Goes
<1>9. ASSUME NEW c \in Calls, Register(c) PROVE CallInv'
    BY <1>9 DEF Register, Goes
<1>10. ASSUME NEW c \in Calls, StoreKey(c) PROVE CallInv'
    BY <1>10 DEF StoreKey, Goes, Swept
<1>11. ASSUME NEW c \in Calls, Detach(c) PROVE CallInv'
    BY <1>11 DEF Detach, Goes, Overtakes
<1>12. ASSUME NEW c \in Calls, Delete(c) PROVE CallInv'
    BY <1>12 DEF Delete, At
<1>13. ASSUME NEW c \in Calls, EndSweep(c) PROVE CallInv'
    BY <1>13 DEF EndSweep, Goes
<1>14. ASSUME NEW c \in Calls, AnswerRead(c) PROVE CallInv'
    BY <1>14 DEF AnswerRead, Goes
<1>15. ASSUME NEW c \in Calls, Mutate(c) PROVE CallInv'
    BY <1>15 DEF Mutate, Goes, Overtakes, Answering
<1>16. ASSUME NEW c \in Calls, Refuse(c) PROVE CallInv'
    BY <1>16 DEF Refuse, Goes
<1>17. ASSUME NEW e \in Keys, Expire(e) PROVE CallInv'
    BY <1>17 DEF Expire
<1>18. CASE UNCHANGED vars
    BY <1>18
<1> QED BY <1>1, <1>2, <1>3, <1>4, <1>5, <1>6, <1>7, <1>8, <1>9, <1>10, <1>11, <1>12,
           <1>13, <1>14, <1>15, <1>16, <1>17, <1>18 DEF Next, Caller, Provider

(* Every step keeps what an answer in the cache has to do with the rest. *)
LEMMA EntryStep ==
    ASSUME TypeOK, CallInv, NEW k \in Keys, EntryInv(k), [Next]_vars
    PROVE  EntryInv(k)'
<1> USE CallsAssumption DEF vars, cache, bulkhead, local, Calls, TypeOK, CallInv, EntryInv, Sweeping, Unanswered, Answering
<1>1. ASSUME NEW c \in Calls, Lookup(c) PROVE EntryInv(k)'
    BY <1>1 DEF Lookup, Goes
<1>2. ASSUME NEW c \in Calls, EnterQueue(c) PROVE EntryInv(k)'
    BY <1>2 DEF EnterQueue, Goes
<1>3. ASSUME NEW c \in Calls, TakeSlot(c) PROVE EntryInv(k)'
    BY <1>3 DEF TakeSlot, Goes
<1>4. ASSUME NEW c \in Calls, LeaveQueue(c) PROVE EntryInv(k)'
    BY <1>4 DEF LeaveQueue, Goes
<1>5. ASSUME NEW c \in Calls, GiveUp(c) PROVE EntryInv(k)'
    BY <1>5 DEF GiveUp, Goes
<1>6. ASSUME NEW c \in Calls, LeaveSlot(c) PROVE EntryInv(k)'
    BY <1>6 DEF LeaveSlot, Goes, AfterSlot
<1>7. ASSUME NEW c \in Calls, Set(c) PROVE EntryInv(k)'
    BY <1>7 DEF Set, Goes
<1>8. ASSUME NEW c \in Calls, SetRefused(c) PROVE EntryInv(k)'
    BY <1>8 DEF SetRefused, Goes
<1>9. ASSUME NEW c \in Calls, Register(c) PROVE EntryInv(k)'
    BY <1>9 DEF Register, Goes
<1>10. ASSUME NEW c \in Calls, StoreKey(c) PROVE EntryInv(k)'
    BY <1>10 DEF StoreKey, Goes, Swept
<1>11. ASSUME NEW c \in Calls, Detach(c) PROVE EntryInv(k)'
    BY <1>11 DEF Detach, Goes, Overtakes
<1>12. ASSUME NEW c \in Calls, Delete(c) PROVE EntryInv(k)'
    BY <1>12 DEF Delete, At
<1>13. ASSUME NEW c \in Calls, EndSweep(c) PROVE EntryInv(k)'
    BY <1>13 DEF EndSweep, Goes
<1>14. ASSUME NEW c \in Calls, AnswerRead(c) PROVE EntryInv(k)'
    BY <1>14 DEF AnswerRead, Goes
<1>15. ASSUME NEW c \in Calls, Mutate(c) PROVE EntryInv(k)'
    BY <1>15 DEF Mutate, Goes, Overtakes, Answering
<1>16. ASSUME NEW c \in Calls, Refuse(c) PROVE EntryInv(k)'
    BY <1>16 DEF Refuse, Goes
<1>17. ASSUME NEW e \in Keys, Expire(e) PROVE EntryInv(k)'
    BY <1>17 DEF Expire
<1>18. CASE UNCHANGED vars
    BY <1>18
<1> QED BY <1>1, <1>2, <1>3, <1>4, <1>5, <1>6, <1>7, <1>8, <1>9, <1>10, <1>11, <1>12,
           <1>13, <1>14, <1>15, <1>16, <1>17, <1>18 DEF Next, Caller, Provider

(* The invariant holds initially and every step keeps it.                  *)
LEMMA Invariant == Spec => []IInv
<1>1. Init => IInv
    <2> SUFFICES ASSUME Init PROVE IInv
        OBVIOUS
    <2> USE CallsAssumption DEF Init
    <2>1. TypeOK
        BY DEF TypeOK, PCs
    <2>2. CallInv /\ \A k \in Keys : EntryInv(k)
        BY DEF CallInv, EntryInv, Answering, Calls
    <2>3. Queued = {} /\ Slotted = {}
        BY DEF Queued, Slotted
    <2>4. TokensAreHeld
        BY <2>3, FS_EmptySet DEF TokensAreHeld, Queued, Slotted
    <2> QED BY <2>1, <2>2, <2>4 DEF IInv
<1>2. IInv /\ [Next]_vars => IInv'
    BY TypeStep, TokenStep, CallStep, EntryStep DEF IInv
<1> QED BY <1>1, <1>2, PTL DEF Spec

(* Data, cache, index, tokens and calls keep their types.                  *)
THEOREM CallsType == Spec => []TypeOK
<1>1. IInv => TypeOK
    BY DEF IInv
<1> QED BY <1>1, Invariant, PTL

(* No token of the bulkhead is lost or taken twice.                        *)
THEOREM NoTokenLeaks == Spec => []TokensAreHeld
<1>1. IInv => TokensAreHeld
    BY DEF IInv
<1> QED BY <1>1, Invariant, PTL

(* A mutation that has returned has removed the older answers, except those *)
(* of overtaken reads and those another mutation is about to delete.        *)
THEOREM OnlyOvertakenReadsLeaveStaleAnswers == Spec => []StaleIsPaidFor
<1>1. IInv => StaleIsPaidFor
    BY DEF IInv, EntryInv, StaleIsPaidFor, Sweeping, At
<1> QED BY <1>1, Invariant, PTL
=============================================================================
