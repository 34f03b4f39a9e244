------------------------------ MODULE KeyedLocks ------------------------------
(***************************************************************************)
(* keyed_locks.rs: one async mutex per key, made on demand.  A map, under  *)
(* a mutex of its own, holds the mutex of each key in use; every task that *)
(* waits for it or holds it keeps a counted reference (Arc) to it, and the *)
(* guard takes the key out of the map when nobody else has one.            *)
(*                                                                         *)
(* Looking a key up and taking it out are steps under the map's mutex.     *)
(* Waiting, letting the key's mutex go and dropping a reference are not.   *)
(***************************************************************************)
EXTENDS Integers, FiniteSets

CONSTANTS
  Tasks, Keys,
  Mutexes,      \* the allocations a mutex can live in, reused once free
  NoMutex, NoKey, NoTask

ASSUME NamesAssumption ==
  /\ NoMutex \notin Mutexes /\ NoKey \notin Keys /\ NoTask \notin Tasks
  /\ IsFiniteSet(Tasks) /\ IsFiniteSet(Keys)

VARIABLES
  map,      \* the mutex of each key that has one
  owner,    \* of each mutex: the task that has it locked, or NoTask
  pc, key,  \* each task's progress and the key it asked for
  arc       \* the mutex each task has a reference to

locksVars == <<map, owner, pc, key, arc>>

(* Arc::strong_count: the references in the map and in the tasks.          *)
InMap(m) == {k \in Keys : map[k] = m}
InTasks(m) == {t \in Tasks : arc[t] = m}
StrongCount(m) == Cardinality(InMap(m)) + Cardinality(InTasks(m))

LocksInit ==
  /\ map = [k \in Keys |-> NoMutex]
  /\ owner = [m \in Mutexes |-> NoTask]
  /\ pc = [t \in Tasks |-> "idle"]
  /\ key = [t \in Tasks |-> NoKey]
  /\ arc = [t \in Tasks |-> NoMutex]

(* The key's mutex, or a new one, which nothing refers to yet.             *)
Entry(k, m) ==
  IF map[k] # NoMutex THEN m = map[k] ELSE InMap(m) = {} /\ InTasks(m) = {}

Lookup(t, k) ==
  /\ pc[t] = "idle"
  /\ \E m \in Mutexes :
       /\ Entry(k, m)
       /\ map' = [map EXCEPT ![k] = m]
       /\ arc' = [arc EXCEPT ![t] = m]
  /\ key' = [key EXCEPT ![t] = k]
  /\ pc' = [pc EXCEPT ![t] = "asking"]
  /\ UNCHANGED owner

Asking == {"asking", "waiting"}

Acquire(t) ==
  /\ pc[t] \in Asking /\ owner[arc[t]] = NoTask
  /\ owner' = [owner EXCEPT ![arc[t]] = t]
  /\ pc' = [pc EXCEPT ![t] = "holding"]
  /\ UNCHANGED <<map, key, arc>>

(* Somebody has it locked: the task sleeps.                                *)
Queue(t) ==
  /\ pc[t] = "asking" /\ owner[arc[t]] # NoTask
  /\ pc' = [pc EXCEPT ![t] = "waiting"]
  /\ UNCHANGED <<map, owner, key, arc>>

(* The task has no reference to the mutex any more.                        *)
Forget(t) ==
  /\ pc' = [pc EXCEPT ![t] = "idle"]
  /\ key' = [key EXCEPT ![t] = NoKey]
  /\ arc' = [arc EXCEPT ![t] = NoMutex]
  /\ UNCHANGED <<map, owner>>

(* The request goes away while it sleeps.                                  *)
Cancel(t) == pc[t] = "waiting" /\ Forget(t)

(* Mutant: the last but one holder removes the key.                        *)
LastByOne(t) == StrongCount(arc[t]) <= 3

(* Two references are the map's and the guard's own.                       *)
LastHolder(t) == StrongCount(arc[t]) = 2

(* Drop: under the map's mutex, the key goes if nobody else refers to it.  *)
DropGuard(t) ==
  /\ pc[t] = "holding"
  /\ map' = IF LastHolder(t) THEN [map EXCEPT ![key[t]] = NoMutex] ELSE map
  /\ pc' = [pc EXCEPT ![t] = "dropping"]
  /\ UNCHANGED <<owner, key, arc>>

(* Mutant: the mutex stays locked.                                         *)
StayLocked(t) == UNCHANGED owner

Unlocked(t) == owner' = [owner EXCEPT ![arc[t]] = NoTask]

(* Only then do the guard's fields go: the lock first ...                  *)
Unlock(t) ==
  /\ pc[t] = "dropping"
  /\ Unlocked(t)
  /\ pc' = [pc EXCEPT ![t] = "unlocked"]
  /\ UNCHANGED <<map, key, arc>>

(* ... and the reference last.                                             *)
DropArc(t) == pc[t] = "unlocked" /\ Forget(t)

LocksNext ==
  \E t \in Tasks :
    \/ \E k \in Keys : Lookup(t, k)
    \/ Acquire(t) \/ Queue(t) \/ Cancel(t)
    \/ DropGuard(t) \/ Unlock(t) \/ DropArc(t)

LocksSpec == LocksInit /\ [][LocksNext]_locksVars

(* The runtime goes on with every task, what a holder does ends, and the   *)
(* mutex serves its waiters in turn.                                       *)
LocksFairness ==
  \A t \in Tasks :
    /\ SF_locksVars(Acquire(t))
    /\ WF_locksVars(DropGuard(t)) /\ WF_locksVars(Unlock(t)) /\ WF_locksVars(DropArc(t))

LocksFairSpec == LocksSpec /\ LocksFairness

--------------------------------------------------------------------------------
(* Correctness.                                                            *)

LocksTypeOK ==
  /\ map \in [Keys -> Mutexes \cup {NoMutex}]
  /\ owner \in [Mutexes -> Tasks \cup {NoTask}]
  /\ pc \in [Tasks -> {"idle", "asking", "waiting", "holding", "dropping", "unlocked"}]
  /\ key \in [Tasks -> Keys \cup {NoKey}]
  /\ arc \in [Tasks -> Mutexes \cup {NoMutex}]
  /\ \A t \in Tasks : pc[t] # "idle" => key[t] \in Keys /\ arc[t] \in Mutexes

(* Seen from its users, a key's mutex is one mutex, although its entry is  *)
(* made and removed all the time and a removed one may still be locked.    *)
Promise ==
  INSTANCE KeyedMutex WITH
    wants <- [t \in Tasks |-> IF pc[t] \in Asking THEN key[t] ELSE NoKey],
    has <- [t \in Tasks |-> IF pc[t] = "holding" THEN key[t] ELSE NoKey]

(* "Two request paths need 'at most one of these per account' or 'per      *)
(* (account, asset)'" (keyed_locks.rs): the map implements KeyedMutex.     *)
ImplementsMutex == Promise!Spec

(* A task that waits gets the key or goes away: no waiter is left with a   *)
(* mutex that nobody unlocks.                                              *)
WaiterServed == \A t \in Tasks : pc[t] \in Asking ~> pc[t] \notin Asking

--------------------------------------------------------------------------------
(* What the documentation says and the code does not keep; the README      *)
(* names the instances that show it.                                       *)

(* "Forgotten when the last holder leaves": with no task about, the map    *)
(* is empty (keyed_locks.rs, module documentation).                        *)
ForgottenWhenLeft ==
  (\A t \in Tasks : pc[t] = "idle") => \A k \in Keys : map[k] = NoMutex

===============================================================================
