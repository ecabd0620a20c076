------------------------------- MODULE Mutex -------------------------------
(***************************************************************************)
(* A mutex of mutex.c and the threads that use it.  A thread calls         *)
(* mutexDown, is inside once the call has returned, and calls mutexUp, as  *)
(* producer and consumer do with itemMutex (shell.c).                      *)
(* The mutexes of the list share nothing but the list, so that one is      *)
(* enough; its identifier is never given again (counter only grows).       *)
(***************************************************************************)
EXTENDS BlockedThreads

VARIABLES
  list,                \* "absent", "present", "destroyed": the mutex in the list
  status,
  blockedThreadList,   \* last one blocked first
  at                   \* where each thread is: "out", "waiting", "inside"

mutexVars == <<list, status, blockedThreadList, at, kernel>>

MutexInit ==
  /\ list = "absent"
  /\ status = "MUTEX_UNLOCKED"
  /\ blockedThreadList = <<>>
  /\ at = [t \in Thread |-> "out"]
  /\ kernel = "running"

MutexTypeOK ==
  /\ list \in {"absent", "present", "destroyed"}
  /\ status \in {"MUTEX_LOCKED", "MUTEX_UNLOCKED"}
  /\ blockedThreadList \in Seq(Thread)
  /\ at \in [Thread -> {"out", "waiting", "inside"}]
  /\ kernel \in {"running", "corrupt"}

----------------------------------------------------------------------------
createMutex ==
  /\ kernel = "running" /\ list = "absent"
  /\ list' = "present"
  /\ status' = "MUTEX_UNLOCKED"
  /\ blockedThreadList' = <<>>
  /\ UNCHANGED <<at, kernel>>

isLocked == status = "MUTEX_LOCKED"

addThreadToMutexList(t) == <<t>> \o blockedThreadList

\* The caller finds the mutex locked: it is queued and blocked.
mutexRequestAccess(t) ==
  /\ blockedThreadList' = addThreadToMutexList(t)
  /\ at' = [at EXCEPT ![t] = "waiting"]
  /\ UNCHANGED status

mutexDown(t) ==
  /\ kernel = "running" /\ at[t] = "out" /\ list = "present"
  /\ \/ isLocked /\ mutexRequestAccess(t)
     \/ /\ ~isLocked
        /\ status' = "MUTEX_LOCKED"
        /\ at' = [at EXCEPT ![t] = "inside"]
        /\ UNCHANGED blockedThreadList
  /\ UNCHANGED <<list, kernel>>

\* Every thread of the list is woken; each returns from mutexDown and goes on
\* without a second look at the status.
unlockProcesses(awake) ==
  /\ at' = [t \in Thread |->
              IF t \in Range(blockedThreadList) THEN "inside" ELSE awake[t]]
  /\ blockedThreadList' = <<>>

\* Mutants: the status is left alone; the list is.
mutexUpStaysLocked(t) ==
  /\ kernel = "running" /\ at[t] = "inside" /\ list = "present"
  /\ unlockProcesses([at EXCEPT ![t] = "out"])
  /\ UNCHANGED <<list, status, kernel>>

mutexUpWakesNone(t) ==
  /\ kernel = "running" /\ at[t] = "inside" /\ list = "present"
  /\ status' = "MUTEX_UNLOCKED"
  /\ at' = [at EXCEPT ![t] = "out"]
  /\ UNCHANGED <<list, blockedThreadList, kernel>>

mutexUp(t) ==
  /\ kernel = "running" /\ at[t] = "inside" /\ list = "present"
  /\ status' = "MUTEX_UNLOCKED"
  /\ unlockProcesses([at EXCEPT ![t] = "out"])
  /\ UNCHANGED <<list, kernel>>

\* The node leaves the list and its memory is free; nobody is woken.
mutexDestroy ==
  /\ kernel = "running" /\ list = "present"
  /\ list' = "destroyed"
  /\ UNCHANGED <<status, blockedThreadList, at, kernel>>

\* findID returns NULL and is not looked at: mutexDown writes a list head, and
\* mutexUp follows one, at address 16, in the middle of the IDT.
UseOfNoMutex(t) ==
  /\ kernel = "running" /\ at[t] \in {"out", "inside"} /\ list # "present"
  /\ kernel' = "corrupt"
  /\ UNCHANGED <<list, status, blockedThreadList, at>>

MutexNext ==
  \/ createMutex \/ mutexDestroy
  \/ \E t \in Thread : mutexDown(t) \/ mutexUp(t) \/ UseOfNoMutex(t)

MutexSpec == MutexInit /\ [][MutexNext]_mutexVars

\* A thread that is inside is run again and comes to its mutexUp.
MutexFair == \A t \in Thread : WF_mutexVars(mutexUp(t))

----------------------------------------------------------------------------
\* Nobody waits at an unlocked mutex, for whom no mutexUp would come: status and
\* list, changed by different functions, agree (mutex.c:28-37, :102-113).
UnlockedHasNoWaiters ==
  status = "MUTEX_UNLOCKED" => blockedThreadList = <<>>

\* A locked mutex has somebody inside who will unlock it, although threads
\* that were woken are inside without having locked it (mutex.c:33-37).
LockedHasOwner ==
  status = "MUTEX_LOCKED" => \E t \in Thread : at[t] = "inside"

\* The list is the threads that wait, each of them once (mutex.c:94-113).
ListIsWaiters ==
  /\ Range(blockedThreadList) = {t \in Thread : at[t] = "waiting"}
  /\ \A i, j \in DOMAIN blockedThreadList :
       blockedThreadList[i] = blockedThreadList[j] => i = j

\* Status, list and threads agree, whoever was woken into the unlocked mutex and
\* whoever came after (mutex.c:33-37, :72-88, :94-113).
MutexConsistent == UnlockedHasNoWaiters /\ LockedHasOwner /\ ListIsWaiters

\* Every waiting thread is let in, unless the mutex is destroyed.
WaiterComesIn ==
  \A t \in Thread :
    at[t] = "waiting" ~> (at[t] # "waiting" \/ list # "present" \/ kernel # "running")
============================================================================
