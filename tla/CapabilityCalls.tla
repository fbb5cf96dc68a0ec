-------------------------- MODULE CapabilityCalls --------------------------
(***************************************************************************)
(* Calls of one capability (pkg/capability/invoke.go): reads are answered  *)
(* from a cache if they can be, every other call passes a bulkhead         *)
(* (pkg/bulkhead), and a mutation that succeeds throws the cached answers  *)
(* of its capability away, which it finds in an index of keys              *)
(* (pkg/cache/cache.go).                                                   *)
(*                                                                         *)
(* The data behind the provider is the number of the last mutation that    *)
(* took effect, an answer the number its read has seen.  Cache, index and  *)
(* bulkhead are shared by all callers; each access to one of them is a     *)
(* step.  A map of the index is named by the call that put it there.       *)
(***************************************************************************)
EXTENDS Naturals, FiniteSets

CONSTANTS
    Reads, Mutations,
    Keys,           \* cache keys: an operation with its parameters
    KeyOf,          \* KeyOf[c]: the key of a read
    MaxConcurrent, MaxQueue,
    None            \* no entry, no map

Calls == Reads \cup Mutations

ASSUME CallsAssumption ==
    /\ IsFiniteSet(Calls) /\ Reads \cap Mutations = {} /\ None \notin Calls
    /\ KeyOf \in [Reads -> Keys]
    /\ MaxConcurrent \in Nat \ {0} /\ MaxQueue \in Nat \ {0}

VARIABLES
    data,           \* the last mutation of the provider's data
    cached,         \* the cache: what a read has seen, and which read it was
    index,          \* the current map of the capability's keys
    members,        \* the keys in it
    sem, queue,     \* the channels of the bulkhead: tokens in them
    pc,             \* where each call is
    seen,           \* what a read has seen, or what a mutation has done
    ok,             \* whether the provider reported success
    map,            \* the map of the index a call has hold of
    left,           \* the keys of it a mutation has yet to delete
    raced           \* the reads a mutation has overtaken, see below

bulkhead == <<sem, queue>>
cache    == <<cached, index, members>>
local    == <<seen, ok, map, left, raced>>
vars     == <<data, cache, bulkhead, pc, local>>

PCs == {"new", "enter", "wait", "slot", "run", "leave", "set", "register", "store",
        "detach", "sweep", "done"}

TypeOK ==
    /\ data \in Nat
    /\ cached \in [Keys -> {None} \cup [seen : Nat, by : Reads]]
    /\ index \in Calls \cup {None} /\ members \subseteq Keys
    /\ sem \in 0..MaxConcurrent /\ queue \in 0..MaxQueue
    /\ pc \in [Calls -> PCs] /\ seen \in [Calls -> Nat] /\ ok \in [Calls -> BOOLEAN]
    /\ map \in [Calls -> Calls \cup {None}] /\ left \in [Calls -> SUBSET Keys]
    /\ raced \subseteq Reads

Init ==
    /\ data = 0 /\ cached = [k \in Keys |-> None] /\ index = None /\ members = {}
    /\ sem = 0 /\ queue = 0
    /\ pc = [c \in Calls |-> "new"] /\ seen = [c \in Calls |-> 0]
    /\ ok = [c \in Calls |-> FALSE] /\ map = [c \in Calls |-> None]
    /\ left = [c \in Calls |-> {}] /\ raced = {}

At(c, l)        == pc[c] = l
Goes(c, from, to) == pc[c] = from /\ pc' = [pc EXCEPT ![c] = to]

-----------------------------------------------------------------------------
(* The bulkhead.                                                           *)

\* A read whose answer is cached returns it.
Lookup(c) ==
    /\ Goes(c, "new", IF c \in Reads /\ cached[KeyOf[c]] # None THEN "done" ELSE "enter")
    /\ UNCHANGED <<data, cache, bulkhead, local>>

\* A full queue drops the call, even if a slot is free.
EnterQueue(c) ==
    /\ IF queue < MaxQueue THEN Goes(c, "enter", "wait") /\ queue' = queue + 1
                           ELSE Goes(c, "enter", "done") /\ UNCHANGED queue
    /\ UNCHANGED <<data, cache, sem, local>>

TakeSlot(c) ==
    /\ Goes(c, "wait", "slot") /\ sem < MaxConcurrent /\ sem' = sem + 1
    /\ UNCHANGED <<data, cache, queue, local>>

\* releaseQueue
LeaveQueue(c) ==
    /\ Goes(c, "slot", "run") /\ queue' = queue - 1
    /\ UNCHANGED <<data, cache, sem, local>>

\* Faulty: the token stays in the queue.
GiveUp_KeepsToken(c) ==
    /\ Goes(c, "wait", "done")
    /\ UNCHANGED <<data, cache, bulkhead, local>>

\* Faulty: a call waits without a limit.
GiveUp_Never(c) == FALSE /\ UNCHANGED vars

\* The timer or the context of the call ends the wait.
GiveUp(c) ==
    /\ Goes(c, "wait", "done") /\ queue' = queue - 1
    /\ UNCHANGED <<data, cache, sem, local>>

\* Do returns and frees the slot; an error returns to the caller at once.
AfterSlot(c) == IF ~ok[c] THEN "done" ELSE IF c \in Reads THEN "set" ELSE "detach"

LeaveSlot(c) ==
    /\ Goes(c, "leave", AfterSlot(c)) /\ sem' = sem - 1
    /\ UNCHANGED <<data, cache, queue, local>>

-----------------------------------------------------------------------------
(* The provider.                                                           *)

Answering == {"leave", "set", "register", "store"}

\* A read has been overtaken if the data changes between its look at them and
\* the registration of its answer, or if the index is thrown away between the
\* two writes of the answer and its key.
Overtakes(pcs) == raced' = raced \cup {r \in Reads : pc[r] \in pcs}

AnswerRead(c) ==
    /\ c \in Reads /\ Goes(c, "run", "leave")
    /\ seen' = [seen EXCEPT ![c] = data] /\ \E b \in BOOLEAN : ok' = [ok EXCEPT ![c] = b]
    /\ UNCHANGED <<data, cache, bulkhead, map, left, raced>>

\* A mutation may take effect although the caller gets an error.
Mutate(c) ==
    /\ c \in Mutations /\ Goes(c, "run", "leave")
    /\ data' = data + 1 /\ seen' = [seen EXCEPT ![c] = data + 1]
    /\ \E b \in BOOLEAN : ok' = [ok EXCEPT ![c] = b]
    /\ Overtakes(Answering)
    /\ UNCHANGED <<cache, bulkhead, map, left>>

\* It fails and has changed nothing.
Refuse(c) ==
    /\ c \in Mutations /\ Goes(c, "run", "leave")
    /\ UNCHANGED <<data, cache, bulkhead, local>>

-----------------------------------------------------------------------------
(* The cache.                                                              *)

\* Faulty: the key is not registered.
Set_Unregistered(c) ==
    /\ Goes(c, "set", "done")
    /\ cached' = [cached EXCEPT ![KeyOf[c]] = [seen |-> seen[c], by |-> c]]
    /\ UNCHANGED <<data, index, members, bulkhead, local>>

\* SetWithTTLCap: the answer is stored ...
Set(c) ==
    /\ Goes(c, "set", "register")
    /\ cached' = [cached EXCEPT ![KeyOf[c]] = [seen |-> seen[c], by |-> c]]
    /\ UNCHANGED <<data, index, members, bulkhead, local>>

\* ... unless the cache refuses it or there is nothing to store ...
SetRefused(c) ==
    /\ Goes(c, "set", "done")
    /\ UNCHANGED <<data, cache, bulkhead, local>>

\* ... and its key is put into the map that registerKey finds or creates ...
Register(c) ==
    /\ Goes(c, "register", "store")
    /\ index' = IF index = None THEN c ELSE index
    /\ map' = [map EXCEPT ![c] = index']
    /\ UNCHANGED <<data, cached, members, bulkhead, seen, ok, left, raced>>

\* ... which may have been taken out of the index since: whether the sweep
\* that goes over it meets the key is open.
Swept(m) == {d \in Mutations : pc[d] = "sweep" /\ map[d] = m}

StoreKey(c) ==
    /\ Goes(c, "store", "done")
    /\ IF map[c] = index THEN members' = members \cup {KeyOf[c]} /\ UNCHANGED left
       ELSE /\ \E D \in SUBSET Swept(map[c]) :
                 left' = [d \in Calls |-> IF d \in D THEN left[d] \cup {KeyOf[c]} ELSE left[d]]
            /\ UNCHANGED members
    /\ UNCHANGED <<data, cached, index, bulkhead, seen, ok, map, raced>>

\* DelByPrefix: the map leaves the index ...
Detach(c) ==
    /\ Goes(c, "detach", IF index = None THEN "done" ELSE "sweep")
    /\ map' = [map EXCEPT ![c] = index] /\ left' = [left EXCEPT ![c] = members]
    /\ index' = None /\ members' = {}
    /\ Overtakes({"register", "store"})
    /\ UNCHANGED <<data, cached, bulkhead, seen, ok>>

\* ... and then its keys leave the cache, one after the other.
Delete(c) ==
    /\ At(c, "sweep")
    /\ \E k \in left[c] :
          /\ cached' = [cached EXCEPT ![k] = None]
          /\ left' = [left EXCEPT ![c] = @ \ {k}]
    /\ UNCHANGED <<data, index, members, bulkhead, pc, seen, ok, map, raced>>

EndSweep(c) ==
    /\ left[c] = {} /\ Goes(c, "sweep", "done")
    /\ UNCHANGED <<data, cache, bulkhead, local>>

\* TTLShort, or the cache makes room.
Expire(k) ==
    /\ cached[k] # None /\ cached' = [cached EXCEPT ![k] = None]
    /\ UNCHANGED <<data, index, members, bulkhead, pc, local>>

-----------------------------------------------------------------------------
Provider(c) == AnswerRead(c) \/ Mutate(c) \/ Refuse(c)

Caller(c) ==
    \/ Lookup(c) \/ EnterQueue(c) \/ TakeSlot(c) \/ LeaveQueue(c) \/ GiveUp(c)
    \/ LeaveSlot(c) \/ Set(c) \/ SetRefused(c) \/ Register(c) \/ StoreKey(c)
    \/ Detach(c) \/ Delete(c) \/ EndSweep(c)

Next ==
    \/ \E c \in Calls : Caller(c) \/ Provider(c)
    \/ \E k \in Keys : Expire(k)

Spec == Init /\ [][Next]_vars

\* Callers run and the timers of the bulkhead fire; that a provider answers is
\* not assumed.
FairSpec == Spec /\ \A c \in Calls : WF_vars(EnterQueue(c) \/ LeaveQueue(c) \/ GiveUp(c))

-----------------------------------------------------------------------------
(* Properties.                                                             *)

\* Once a mutation has returned successfully, an answer that is older than it
\* is in the cache only if its read was overtaken, or as long as another
\* mutation is still deleting the keys it has taken out of the index
\* (invoke.go:318, cache.go:112).
StaleIsPaidFor ==
    \A k \in Keys, m \in Mutations :
       cached[k] # None /\ At(m, "done") /\ ok[m] /\ seen[m] > cached[k].seen
       => cached[k].by \in raced \/ \E d \in Mutations : At(d, "sweep") /\ k \in left[d]

\* Each token in the bulkhead belongs to a call that will take it out again,
\* on whichever way the call leaves (bulkhead.go:117).
TokensAreHeld ==
    /\ queue = Cardinality({c \in Calls : pc[c] \in {"wait", "slot"}})
    /\ sem = Cardinality({c \in Calls : pc[c] \in {"slot", "run", "leave"}})

\* A call reaches its provider or returns, even if the providers of all calls
\* before it never answer (bulkhead.go:138).
CallsGetThrough ==
    \A c \in Calls : pc[c] \in {"enter", "wait", "slot"} ~> pc[c] \notin {"enter", "wait", "slot"}
=============================================================================
