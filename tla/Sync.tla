-------------------------------- MODULE Sync --------------------------------
(***************************************************************************)
(* Mutexes and semaphores as the programs of shell.c meet them: one list   *)
(* of each in the kernel, identifiers counted from 0, nothing destroyed.   *)
(* Modules Mutex and Semaphore look at one object and any use of it; here  *)
(* the programs decide.  A thread in blockedThreads takes no step of its   *)
(* program: module Scheduler says when the scheduler keeps that promise.   *)
(***************************************************************************)
EXTENDS Integers, FiniteSets

VARIABLES
  mutexStatus,       \* identifier -> "MUTEX_LOCKED", "MUTEX_UNLOCKED"
  semaphoreStatus,   \* identifier -> value
  blockedThreads     \* <<kind, identifier, thread>>

syncVars == <<mutexStatus, semaphoreStatus, blockedThreads>>

NoObject == [id \in {} |-> 0]

SyncInit ==
  /\ mutexStatus = NoObject
  /\ semaphoreStatus = NoObject
  /\ blockedThreads = {}

Blocked(t) == \E b \in blockedThreads : b[3] = t

\* counter++: the identifier the next object gets.
counter(objects) == Cardinality(DOMAIN objects)

\* A new object in a list of them.
withObject(objects, id, status) ==
  [i \in DOMAIN objects \cup {id} |-> IF i = id THEN status ELSE objects[i]]

Waiting(kind, id) == {b \in blockedThreads : b[1] = kind /\ b[2] = id}

mutexDown(t, id) ==
  /\ IF mutexStatus[id] = "MUTEX_LOCKED"
     THEN /\ blockedThreads' = blockedThreads \cup {<<"mutex", id, t>>}
          /\ UNCHANGED mutexStatus
     ELSE /\ mutexStatus' = [mutexStatus EXCEPT ![id] = "MUTEX_LOCKED"]
          /\ UNCHANGED blockedThreads
  /\ UNCHANGED semaphoreStatus

\* Every waiter is woken and does not look at the status again.
mutexUp(id) ==
  /\ mutexStatus' = [mutexStatus EXCEPT ![id] = "MUTEX_UNLOCKED"]
  /\ blockedThreads' = blockedThreads \ Waiting("mutex", id)
  /\ UNCHANGED semaphoreStatus

semaphoreDown(t, id) ==
  /\ semaphoreStatus' = [semaphoreStatus EXCEPT ![id] = @ - 1]
  /\ blockedThreads' = IF semaphoreStatus'[id] < 0
                       THEN blockedThreads \cup {<<"semaphore", id, t>>}
                       ELSE blockedThreads
  /\ UNCHANGED mutexStatus

\* Mutant: the waiters of a semaphore that comes up to zero stay.
semaphoreUpLate(id) ==
  /\ semaphoreStatus' = [semaphoreStatus EXCEPT ![id] = @ + 1]
  /\ blockedThreads' = IF semaphoreStatus'[id] <= 0 THEN blockedThreads
                       ELSE blockedThreads \ Waiting("semaphore", id)
  /\ UNCHANGED mutexStatus

semaphoreUp(id) ==
  /\ semaphoreStatus' = [semaphoreStatus EXCEPT ![id] = @ + 1]
  /\ blockedThreads' = IF semaphoreStatus'[id] < 0 THEN blockedThreads
                       ELSE blockedThreads \ Waiting("semaphore", id)
  /\ UNCHANGED mutexStatus
============================================================================
