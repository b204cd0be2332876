------------------------------- MODULE IdList -------------------------------
(***************************************************************************)
(* The id list of the CRUD test (type idList of tests/crud/randlist.go):   *)
(* the slice ids, the map positions from an id to its index in ids, and    *)
(* the counter maxID, behind a sync.RWMutex.  Every method is modelled     *)
(* from its Lock to its deferred Unlock, one step for every statement that *)
(* reads or writes the fields, so that what the lock is for can be seen.   *)
(*                                                                         *)
(* The callers are not in the repository.  A thread calls the methods in   *)
(* any order and pushes only ids that allocID gave it, each once.  The     *)
(* body of popID is not in the file, and no thread calls it.               *)
(***************************************************************************)
EXTENDS Integers, Sequences, FiniteSets, SequencesExt

CONSTANTS
    Threads,    \* the goroutines that use the list
    MaxID       \* bound on the calls of allocID

ASSUME MaxID \in Nat

VARIABLES
    ids,        \* idList.ids
    positions,  \* idList.positions
    maxID,      \* idList.maxID
    writers,    \* the threads that hold the mutex after Lock
    readers,    \* the threads that hold the mutex after RLock
    pc,         \* pc[t]: the statement t is about to execute
    arg,        \* arg[t]: the id t passed to pushID
    held,       \* held[t]: the ids allocID returned to t, not yet pushed
    seen        \* seen[t]: what len last returned to t

vars == <<ids, positions, maxID, writers, readers, pc, arg, held, seen>>

Ids == 1 .. MaxID

Idle == "idle"
InLock == {"incr", "ret", "pos", "app"}     \* between Lock and Unlock
InRLock == {"len"}                          \* between RLock and RUnlock

TypeOK ==
    /\ ids \in Seq(Ids)
    /\ DOMAIN positions \subseteq Ids
    /\ \A id \in DOMAIN positions : positions[id] \in 0 .. MaxID
    /\ maxID \in 0 .. MaxID
    /\ pc \in [Threads -> {Idle} \cup InLock \cup InRLock]
    /\ writers = {t \in Threads : pc[t] \in InLock}
    /\ readers = {t \in Threads : pc[t] \in InRLock}
    /\ arg \in [Threads -> Ids \cup {0}]
    /\ held \in [Threads -> SUBSET Ids]
    /\ seen \in [Threads -> 0 .. MaxID]

\* newIDList.
Init ==
    /\ ids = <<>>
    /\ positions = <<>>
    /\ maxID = 0
    /\ writers = {} /\ readers = {}
    /\ pc = [t \in Threads |-> Idle]
    /\ arg = [t \in Threads |-> 0]
    /\ held = [t \in Threads |-> {}]
    /\ seen = [t \in Threads |-> 0]

-----------------------------------------------------------------------------
\* sync.RWMutex: Lock waits for every holder, RLock for the writers.
CanLock  == writers = {} /\ readers = {}
CanRLock == writers = {}

Goto(t, label) == pc' = [pc EXCEPT ![t] = label]

\* The deferred Unlock or RUnlock of t.
Unlock(t) ==
    /\ writers' = writers \ {t}
    /\ readers' = readers \ {t}
    /\ Goto(t, Idle)

-----------------------------------------------------------------------------
\* Mutated forms of the definitions below: allocID behind RLock, as len is;
\* a method that returns without its Unlock; pushID behind RLock.
AllocLock_Shared(t) ==
    /\ pc[t] = Idle /\ maxID < MaxID
    /\ CanRLock
    /\ readers' = readers \cup {t}
    /\ Goto(t, "incr")
    /\ UNCHANGED <<ids, positions, maxID, writers, arg, held, seen>>

PushAppend_NoUnlock(t) ==
    /\ pc[t] = "app"
    /\ ids' = Append(ids, arg[t])
    /\ held' = [held EXCEPT ![t] = @ \ {arg[t]}]
    /\ Goto(t, Idle)
    /\ UNCHANGED <<positions, maxID, writers, readers, arg, seen>>

PushLock_Shared(t) ==
    /\ pc[t] = Idle
    /\ CanRLock
    /\ \E id \in held[t] : arg' = [arg EXCEPT ![t] = id]
    /\ readers' = readers \cup {t}
    /\ Goto(t, "pos")
    /\ UNCHANGED <<ids, positions, maxID, writers, held, seen>>

-----------------------------------------------------------------------------
\* allocID: l.Lock().
AllocLock(t) ==
    /\ pc[t] = Idle /\ maxID < MaxID
    /\ CanLock
    /\ writers' = writers \cup {t}
    /\ Goto(t, "incr")
    /\ UNCHANGED <<ids, positions, maxID, readers, arg, held, seen>>

\* allocID: l.maxID++.
AllocIncrement(t) ==
    /\ pc[t] = "incr"
    /\ maxID' = maxID + 1
    /\ Goto(t, "ret")
    /\ UNCHANGED <<ids, positions, writers, readers, arg, held, seen>>

\* allocID: return l.maxID, and the deferred Unlock.
AllocReturn(t) ==
    /\ pc[t] = "ret"
    /\ held' = [held EXCEPT ![t] = @ \cup {maxID}]
    /\ Unlock(t)
    /\ UNCHANGED <<ids, positions, maxID, arg, seen>>

\* len: l.RLock().
LenLock(t) ==
    /\ pc[t] = Idle
    /\ CanRLock
    /\ readers' = readers \cup {t}
    /\ Goto(t, "len")
    /\ UNCHANGED <<ids, positions, maxID, writers, arg, held, seen>>

\* len: return len(l.ids), and the deferred RUnlock.
LenReturn(t) ==
    /\ pc[t] = "len"
    /\ seen' = [seen EXCEPT ![t] = Len(ids)]
    /\ Unlock(t)
    /\ UNCHANGED <<ids, positions, maxID, arg, held>>

\* pushID(id): l.Lock().
PushLock(t) ==
    /\ pc[t] = Idle
    /\ CanLock
    /\ \E id \in held[t] : arg' = [arg EXCEPT ![t] = id]
    /\ writers' = writers \cup {t}
    /\ Goto(t, "pos")
    /\ UNCHANGED <<ids, positions, maxID, readers, held, seen>>

\* The index pushID records for the id: where append will put it.
NextPosition == Len(ids)

\* pushID: l.positions[id] = len(l.ids).
PushPosition(t) ==
    /\ pc[t] = "pos"
    /\ positions' = [id \in DOMAIN positions \cup {arg[t]} |->
                        IF id = arg[t] THEN NextPosition ELSE positions[id]]
    /\ Goto(t, "app")
    /\ UNCHANGED <<ids, maxID, writers, readers, arg, held, seen>>

\* pushID: l.ids = append(l.ids, id), and the deferred Unlock.
PushAppend(t) ==
    /\ pc[t] = "app"
    /\ ids' = Append(ids, arg[t])
    /\ held' = [held EXCEPT ![t] = @ \ {arg[t]}]
    /\ Unlock(t)
    /\ UNCHANGED <<positions, maxID, arg, seen>>

Next ==
    \E t \in Threads :
        \/ AllocLock(t) \/ AllocIncrement(t) \/ AllocReturn(t)
        \/ LenLock(t) \/ LenReturn(t)
        \/ PushLock(t) \/ PushPosition(t) \/ PushAppend(t)

Spec == Init /\ [][Next]_vars

-----------------------------------------------------------------------------
(***************************************************************************)
(* Whoever gets the mutex finds positions the inverse of ids: the ids in   *)
(* the map are the ids in the slice, and positions[id] is the index of id  *)
(* in ids, counted from zero as Go does.  pushID writes the two fields in  *)
(* two statements; the index it records is the length before the append.   *)
(***************************************************************************)
PositionsIndexIds ==
    writers = {} =>
        /\ DOMAIN positions = ToSet(ids)
        /\ \A i \in DOMAIN ids : positions[ids[i]] = i - 1

(***************************************************************************)
(* The list implements the pool: allocID never returns an id that was      *)
(* returned before, although two threads call it at once and it reads      *)
(* maxID again after the increment; pushID adds exactly its id; len        *)
(* returns the number of ids in the list.                                  *)
(***************************************************************************)
Pool == INSTANCE IdPool WITH members <- ToSet(ids)

ImplementsIdPool == Pool!Spec
=============================================================================
