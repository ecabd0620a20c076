----------------------------- MODULE Semaphore -----------------------------
(***************************************************************************)
(* A semaphore of semaphores.c.  Any thread may call semaphoreUp; a thread *)
(* that calls semaphoreDown passes when the call returns, at once or when  *)
(* an up wakes it.  One semaphore of the list is enough, as for Mutex.     *)
(***************************************************************************)
EXTENDS BlockedThreads, Integers

CONSTANTS
  Starts,      \* values createSemaphore is called with
  MaxUps       \* bound: calls of semaphoreUp

ASSUME SemaphoreAssumption == Starts \subseteq Nat /\ MaxUps \in Nat

VARIABLES
  semaphore,           \* "absent", "present", "destroyed": its node in the list
  value,               \* its status
  waitingThreads,      \* its blockedThreadList, last one blocked first
  semaphoreAt,         \* "running", "waiting": each thread
  start, ups, passes   \* first value; calls of up; downs that have returned

counts == <<start, ups, passes>>
semaphoreVars == <<semaphore, value, waitingThreads, semaphoreAt, counts, kernel>>

SemaphoreInit ==
  /\ semaphore = "absent"
  /\ value = 0
  /\ waitingThreads = <<>>
  /\ semaphoreAt = [t \in Thread |-> "running"]
  /\ start = 0 /\ ups = 0 /\ passes = 0
  /\ kernel = "running"

SemaphoreTypeOK ==
  /\ semaphore \in {"absent", "present", "destroyed"}
  /\ value \in Int
  /\ waitingThreads \in Seq(Thread)
  /\ semaphoreAt \in [Thread -> {"running", "waiting"}]
  /\ start \in Nat /\ ups \in 0..MaxUps /\ passes \in Nat
  /\ kernel \in {"running", "corrupt"}

----------------------------------------------------------------------------
createSemaphore(v) ==
  /\ kernel = "running" /\ semaphore = "absent"
  /\ semaphore' = "present"
  /\ value' = v
  /\ start' = v
  /\ UNCHANGED <<waitingThreads, semaphoreAt, ups, passes, kernel>>

\* Mutant: the first who finds nothing is let through.
isSemaphoreLockedLate(v) == v < -1

isSemaphoreLocked(v) == v < 0

addThreadToSemaphoreList(t) == <<t>> \o waitingThreads

semaphoreRequestAccess(t) ==
  IF isSemaphoreLocked(value')
  THEN /\ waitingThreads' = addThreadToSemaphoreList(t)
       /\ semaphoreAt' = [semaphoreAt EXCEPT ![t] = "waiting"]
       /\ UNCHANGED passes
  ELSE /\ passes' = passes + 1
       /\ UNCHANGED <<waitingThreads, semaphoreAt>>

semaphoreDown(t) ==
  /\ kernel = "running" /\ semaphoreAt[t] = "running" /\ semaphore = "present"
  /\ value' = value - 1
  /\ semaphoreRequestAccess(t)
  /\ UNCHANGED <<semaphore, start, ups, kernel>>

\* Every thread of the list returns from its semaphoreDown.
unlockSemaphoreProcess ==
  /\ semaphoreAt' = [t \in Thread |->
                      IF t \in Range(waitingThreads) THEN "running" ELSE semaphoreAt[t]]
  /\ passes' = passes + Len(waitingThreads)
  /\ waitingThreads' = <<>>

semaphoreUp(t) ==
  /\ kernel = "running" /\ semaphoreAt[t] = "running" /\ semaphore = "present"
  /\ ups < MaxUps
  /\ ups' = ups + 1
  /\ value' = value + 1
  /\ IF isSemaphoreLocked(value')
     THEN UNCHANGED <<waitingThreads, semaphoreAt, passes>>
     ELSE unlockSemaphoreProcess
  /\ UNCHANGED <<semaphore, start, kernel>>

\* The node leaves the list and its memory is free; nobody is woken.
semaphoreDestroy ==
  /\ kernel = "running" /\ semaphore = "present"
  /\ semaphore' = "destroyed"
  /\ UNCHANGED <<value, waitingThreads, semaphoreAt, counts, kernel>>

\* isSemaphoreLocked answers -1, which is true, for a semaphore that is not
\* there: semaphoreDown writes a list head at address 16, in the IDT, and blocks
\* its caller; semaphoreUp does nothing.
DownOfNoSemaphore(t) ==
  /\ kernel = "running" /\ semaphoreAt[t] = "running" /\ semaphore # "present"
  /\ kernel' = "corrupt"
  /\ semaphoreAt' = [semaphoreAt EXCEPT ![t] = "waiting"]
  /\ UNCHANGED <<semaphore, value, waitingThreads, counts>>

SemaphoreNext ==
  \/ \E v \in Starts : createSemaphore(v)
  \/ semaphoreDestroy
  \/ \E t \in Thread : semaphoreDown(t) \/ semaphoreUp(t) \/ DownOfNoSemaphore(t)

SemaphoreSpec == SemaphoreInit /\ [][SemaphoreNext]_semaphoreVars

----------------------------------------------------------------------------
\* The value and the list, which different functions change, stay consistent:
\* nobody waits while the value is not negative, and at least as many wait as it
\* is below zero (semaphores.c:30-40, :111-122).
WaitersCoverDeficit ==
  IF value >= 0 THEN waitingThreads = <<>>
               ELSE Len(waitingThreads) >= -value

\* No more threads pass than the start value and the ups allow, although one
\* up may wake several (semaphores.c:32-34).
PassesBounded == passes <= start + ups

\* Value, list and passes agree, in whichever order ups and downs come
\* (semaphores.c:32-34, :42-54).
SemaphoreConsistent == WaitersCoverDeficit /\ PassesBounded

============================================================================
