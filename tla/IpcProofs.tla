----------------------------- MODULE IpcProofs -----------------------------
(***************************************************************************)
(* Proofs about the objects that threads wait at: Mutex for any set of     *)
(* threads, Semaphore for any threads, start values and number of calls,   *)
(* and Pipe for a ring of any size and any messages: the marks and the     *)
(* pointers of the ring agree, no wake-up is lost, and the ring implements *)
(* the Channel.                                                            *)
(***************************************************************************)
EXTENDS Mutex, Semaphore, Pipe, TLAPS

(***************************************************************************)
(* Mutex                                                                   *)
(***************************************************************************)
Waiters == {t \in Thread : at[t] = "waiting"}

\* A thread put at the head of the list is the only one that joins it.
LEMMA ListGrows ==
  ASSUME NEW t \in Thread, NEW s \in Seq(Thread)
  PROVE  /\ <<t>> \o s \in Seq(Thread)
         /\ DOMAIN (<<t>> \o s) = 1..(Len(s) + 1)
         /\ (<<t>> \o s)[1] = t
         /\ \A i \in 2..(Len(s) + 1) : (<<t>> \o s)[i] = s[i - 1]
         /\ Range(<<t>> \o s) = Range(s) \cup {t}
<1> DEFINE u == <<t>> \o s
<1>1. /\ u \in Seq(Thread)
      /\ DOMAIN u = 1..(Len(s) + 1)
      /\ u[1] = t
      /\ \A i \in 2..(Len(s) + 1) : u[i] = s[i - 1]
  OBVIOUS
<1>2. Range(u) \subseteq Range(s) \cup {t}
  <2> SUFFICES ASSUME NEW i \in 1..(Len(s) + 1) PROVE u[i] \in Range(s) \cup {t}
    BY <1>1 DEF Range
  <2>1. CASE i = 1
    BY <1>1, <2>1
  <2>2. CASE i # 1
    <3>1. i - 1 \in DOMAIN s /\ u[i] = s[i - 1]
      BY <1>1, <2>2
    <3> QED
      BY <3>1 DEF Range
  <2> QED
    BY <2>1, <2>2
<1>3. t \in Range(u)
  BY <1>1 DEF Range
<1>4. Range(s) \subseteq Range(u)
  <2> SUFFICES ASSUME NEW i \in DOMAIN s PROVE s[i] \in Range(u)
    BY DEF Range
  <2>1. i + 1 \in DOMAIN u /\ u[i + 1] = s[i]
    BY <1>1
  <2> QED
    BY <2>1 DEF Range
<1> QED
  BY <1>1, <1>2, <1>3, <1>4

\* The invariants of the runs are inductive together with the types.
MutexIInv == MutexTypeOK /\ UnlockedHasNoWaiters /\ LockedHasOwner /\ ListIsWaiters

LEMMA MutexStarts == MutexInit => MutexIInv
BY DEF MutexInit, MutexIInv, MutexTypeOK, UnlockedHasNoWaiters, LockedHasOwner, ListIsWaiters, Range

\* mutexDown on a locked mutex: the caller joins the list.
LEMMA MutexRequestKeeps ==
  ASSUME MutexIInv, NEW t \in Thread, mutexDown(t), isLocked
  PROVE  MutexIInv'
<1> USE DEF MutexIInv
<1>1. /\ blockedThreadList' = <<t>> \o blockedThreadList
      /\ at' = [at EXCEPT ![t] = "waiting"]
      /\ status' = status /\ list' = list /\ kernel' = kernel
      /\ at[t] = "out"
  BY DEF mutexDown, mutexRequestAccess, addThreadToMutexList
<1>2. blockedThreadList \in Seq(Thread) /\ at \in [Thread -> {"out", "waiting", "inside"}]
  BY DEF MutexTypeOK
<1>3. MutexTypeOK'
  BY <1>1, <1>2, ListGrows DEF MutexTypeOK
<1>4. UnlockedHasNoWaiters'
  BY <1>1 DEF UnlockedHasNoWaiters, isLocked
<1>5. LockedHasOwner'
  <2>1. PICK o \in Thread : at[o] = "inside"
    BY DEF LockedHasOwner, isLocked
  <2>2. at'[o] = "inside"
    BY <1>1, <1>2, <2>1
  <2> QED
    BY <2>2 DEF LockedHasOwner
<1>6. ListIsWaiters'
  <2> DEFINE s == blockedThreadList
  <2>1. Range(s) = Waiters
    BY DEF ListIsWaiters, Waiters
  <2>2. Waiters' = Waiters \cup {t}
    BY <1>1, <1>2 DEF Waiters
  <2>3. Range(<<t>> \o s) = Range(s) \cup {t}
    BY <1>2, ListGrows
  <2>4. Range(blockedThreadList') = {v \in Thread : at'[v] = "waiting"}
    BY <1>1, <2>1, <2>2, <2>3 DEF Waiters
  <2>5. t \notin Range(s)
    BY <1>1, <2>1 DEF Waiters
  <2>6. ASSUME NEW i \in 1..(Len(s) + 1), NEW j \in 1..(Len(s) + 1),
               (<<t>> \o s)[i] = (<<t>> \o s)[j]
        PROVE  i = j
    <3>1. \A k \in 2..(Len(s) + 1) : /\ (<<t>> \o s)[k] = s[k - 1]
                                     /\ k - 1 \in DOMAIN s
      BY <1>2, ListGrows
    <3>2. \A k \in 2..(Len(s) + 1) : (<<t>> \o s)[k] # t
      BY <2>5, <3>1 DEF Range
    <3>3. (<<t>> \o s)[1] = t
      BY <1>2, ListGrows
    <3>4. CASE i = 1 \/ j = 1
      BY <1>2, <2>6, <3>2, <3>3, <3>4
    <3>5. CASE i # 1 /\ j # 1
      <4>1. i \in 2..(Len(s) + 1) /\ j \in 2..(Len(s) + 1)
        BY <1>2, <3>5
      <4>2. s[i - 1] = s[j - 1] /\ i - 1 \in DOMAIN s /\ j - 1 \in DOMAIN s
        BY <2>6, <3>1, <4>1
      <4>3. i - 1 = j - 1
        BY <4>2 DEF ListIsWaiters
      <4> QED
        BY <4>3, <4>1
    <3> QED
      BY <3>4, <3>5
  <2>7. DOMAIN (blockedThreadList') = 1..(Len(s) + 1)
    BY <1>1, <1>2, ListGrows
  <2> QED
    BY <1>1, <2>4, <2>6, <2>7 DEF ListIsWaiters
<1> QED
  BY <1>3, <1>4, <1>5, <1>6

\* mutexDown on an unlocked mutex: the caller locks it and goes in.
LEMMA MutexLockKeeps ==
  ASSUME MutexIInv, NEW t \in Thread, mutexDown(t), ~isLocked
  PROVE  MutexIInv'
<1> USE DEF MutexIInv
<1>1. /\ blockedThreadList' = blockedThreadList
      /\ at' = [at EXCEPT ![t] = "inside"]
      /\ status' = "MUTEX_LOCKED" /\ list' = list /\ kernel' = kernel
      /\ at[t] = "out"
  BY DEF mutexDown
<1>2. at \in [Thread -> {"out", "waiting", "inside"}]
  BY DEF MutexTypeOK
<1>3. Waiters' = Waiters
  BY <1>1, <1>2 DEF Waiters
<1>4. MutexTypeOK' /\ UnlockedHasNoWaiters'
  BY <1>1, <1>2 DEF MutexTypeOK, UnlockedHasNoWaiters
<1>5. LockedHasOwner'
  BY <1>1, <1>2 DEF LockedHasOwner
<1>6. ListIsWaiters'
  BY <1>1, <1>3 DEF ListIsWaiters, Waiters
<1> QED
  BY <1>4, <1>5, <1>6

\* mutexUp: nobody waits any longer.
LEMMA MutexUpKeeps ==
  ASSUME MutexIInv, NEW t \in Thread, mutexUp(t)
  PROVE  MutexIInv'
<1> USE DEF MutexIInv
<1>1. /\ blockedThreadList' = <<>>
      /\ status' = "MUTEX_UNLOCKED" /\ list' = list /\ kernel' = kernel
      /\ at' = [v \in Thread |->
                  IF v \in Range(blockedThreadList) THEN "inside"
                  ELSE [at EXCEPT ![t] = "out"][v]]
  BY DEF mutexUp, unlockProcesses
<1>2. at \in [Thread -> {"out", "waiting", "inside"}]
  BY DEF MutexTypeOK
<1>3. \A v \in Thread : at'[v] \in {"out", "inside"}
  <2> SUFFICES ASSUME NEW v \in Thread PROVE at'[v] \in {"out", "inside"}
    OBVIOUS
  <2>1. v \in Range(blockedThreadList) <=> at[v] = "waiting"
    BY DEF ListIsWaiters
  <2> QED
    BY <1>1, <1>2, <2>1
<1>4. MutexTypeOK'
  BY <1>1, <1>2, <1>3 DEF MutexTypeOK
<1>5. UnlockedHasNoWaiters' /\ LockedHasOwner'
  BY <1>1 DEF UnlockedHasNoWaiters, LockedHasOwner
<1>6. ListIsWaiters'
  <2>1. {v \in Thread : at'[v] = "waiting"} = {}
    BY <1>3
  <2>2. Range(blockedThreadList') = {}
    BY <1>1 DEF Range
  <2> QED
    BY <1>1, <2>1, <2>2 DEF ListIsWaiters
<1> QED
  BY <1>4, <1>5, <1>6

\* createMutex: nobody can have used the mutex, so nobody waits for it.
\* MutexIInv does not say so; FreshMutex does.
FreshMutex == list = "absent" => blockedThreadList = <<>> /\ status = "MUTEX_UNLOCKED"

LEMMA NextMutexKeeps == MutexIInv /\ FreshMutex /\ [MutexNext]_mutexVars => MutexIInv' /\ FreshMutex'
<1> SUFFICES ASSUME MutexIInv, FreshMutex, [MutexNext]_mutexVars PROVE MutexIInv' /\ FreshMutex'
  OBVIOUS
<1>1. CASE createMutex
  <2>1. UNCHANGED <<at, status, blockedThreadList, kernel>> /\ list' = "present"
    BY <1>1 DEF createMutex, FreshMutex
  <2> QED
    BY <2>1 DEF MutexIInv, MutexTypeOK, UnlockedHasNoWaiters, LockedHasOwner, ListIsWaiters, FreshMutex
<1>2. CASE mutexDestroy
  BY <1>2 DEF mutexDestroy, MutexIInv, MutexTypeOK, UnlockedHasNoWaiters, LockedHasOwner,
              ListIsWaiters, FreshMutex
<1>3. ASSUME NEW t \in Thread, mutexDown(t) PROVE MutexIInv' /\ FreshMutex'
  <2>1. FreshMutex'
    BY <1>3 DEF mutexDown, FreshMutex
  <2> QED
    BY <1>3, <2>1, MutexRequestKeeps, MutexLockKeeps
<1>4. ASSUME NEW t \in Thread, mutexUp(t) PROVE MutexIInv' /\ FreshMutex'
  <2>1. FreshMutex'
    BY <1>4 DEF mutexUp, unlockProcesses, FreshMutex
  <2> QED
    BY <1>4, <2>1, MutexUpKeeps
<1>5. ASSUME NEW t \in Thread, UseOfNoMutex(t) PROVE MutexIInv' /\ FreshMutex'
  BY <1>5 DEF UseOfNoMutex, MutexIInv, MutexTypeOK, UnlockedHasNoWaiters, LockedHasOwner,
              ListIsWaiters, FreshMutex
<1>6. CASE UNCHANGED mutexVars
  BY <1>6 DEF mutexVars, MutexIInv, MutexTypeOK, UnlockedHasNoWaiters, LockedHasOwner,
              ListIsWaiters, FreshMutex
<1> QED
  BY <1>1, <1>2, <1>3, <1>4, <1>5, <1>6 DEF MutexNext

LEMMA MutexInvHolds == MutexSpec => [](MutexIInv /\ FreshMutex)
<1>1. MutexInit => MutexIInv /\ FreshMutex
  BY MutexStarts DEF MutexInit, FreshMutex
<1> QED
  BY <1>1, NextMutexKeeps, PTL DEF MutexSpec

\* Whatever threads do with the mutex, and however many they are, nobody waits
\* while it is unlocked: mutexUp empties the list in the same step.
THEOREM NobodyWaitsInVain == MutexSpec => []UnlockedHasNoWaiters
<1>1. MutexIInv => UnlockedHasNoWaiters
  BY DEF MutexIInv
<1> QED
  BY <1>1, MutexInvHolds, PTL

\* While the mutex is locked somebody is inside whose mutexUp will unlock it.
THEOREM LockedMutexHasOwner == MutexSpec => []LockedHasOwner
<1>1. MutexIInv => LockedHasOwner
  BY DEF MutexIInv
<1> QED
  BY <1>1, MutexInvHolds, PTL

\* The list of the mutex holds the waiting threads, each of them once, so that
\* the next mutexUp wakes all of them and nobody else.
THEOREM ListHoldsWaiters == MutexSpec => []ListIsWaiters
<1>1. MutexIInv => ListIsWaiters
  BY DEF MutexIInv
<1> QED
  BY <1>1, MutexInvHolds, PTL

\* Status, list and threads agree, for any number of threads.
THEOREM MutexStaysConsistent == MutexSpec => []MutexConsistent
<1>1. UnlockedHasNoWaiters /\ LockedHasOwner /\ ListIsWaiters => MutexConsistent
  BY DEF MutexConsistent
<1> QED
  BY <1>1, NobodyWaitsInVain, LockedMutexHasOwner, ListHoldsWaiters, PTL

(***************************************************************************)
(* Semaphore                                                               *)
(***************************************************************************)
\* Every call of down has lowered the value by one and either has passed or
\* waits; every call of up has raised it.
Conservation == passes + Len(waitingThreads) + value = start + ups

\* Before it is created the semaphore has no caller.
Untouched == semaphore = "absent" => value = 0 /\ waitingThreads = <<>> /\ ups = 0 /\ passes = 0

SemaphoreIInv == SemaphoreTypeOK /\ Conservation /\ Untouched /\ WaitersCoverDeficit

LEMMA SemaphoreStarts == SemaphoreInit => SemaphoreIInv
BY SemaphoreAssumption
   DEF SemaphoreInit, SemaphoreIInv, SemaphoreTypeOK, Conservation, Untouched, WaitersCoverDeficit

LEMMA SemaphoreCreateKeeps ==
  ASSUME SemaphoreIInv, NEW v \in Starts, createSemaphore(v)
  PROVE  SemaphoreIInv'
<1>1. v \in Nat
  BY SemaphoreAssumption
<1>2. waitingThreads = <<>> /\ ups = 0 /\ passes = 0
  BY DEF SemaphoreIInv, Untouched, createSemaphore
<1>3. SemaphoreTypeOK'
  BY <1>1 DEF SemaphoreIInv, SemaphoreTypeOK, createSemaphore
<1>4. Conservation' /\ Untouched' /\ WaitersCoverDeficit'
  BY <1>1, <1>2 DEF Conservation, Untouched, WaitersCoverDeficit, createSemaphore
<1> QED
  BY <1>3, <1>4 DEF SemaphoreIInv

LEMMA SemaphoreDownKeeps ==
  ASSUME SemaphoreIInv, NEW t \in Thread, semaphoreDown(t)
  PROVE  SemaphoreIInv'
<1>1. /\ value' = value - 1 /\ semaphore = "present"
      /\ semaphore' = semaphore /\ start' = start /\ ups' = ups /\ kernel' = kernel
  BY DEF semaphoreDown
<1>2. SemaphoreTypeOK /\ Conservation /\ WaitersCoverDeficit
  BY DEF SemaphoreIInv
<1>3. Untouched'
  BY <1>1 DEF Untouched
<1>4. CASE value' < 0
  <2>1. /\ waitingThreads' = <<t>> \o waitingThreads
        /\ semaphoreAt' = [semaphoreAt EXCEPT ![t] = "waiting"] /\ passes' = passes
    BY <1>4 DEF semaphoreDown, semaphoreRequestAccess, isSemaphoreLocked,
                addThreadToSemaphoreList
  <2>2. /\ waitingThreads' \in Seq(Thread)
        /\ Len(waitingThreads') = Len(waitingThreads) + 1
    BY <1>2, <2>1 DEF SemaphoreTypeOK
  <2>3. SemaphoreTypeOK'
    BY <1>1, <1>2, <2>1, <2>2 DEF SemaphoreTypeOK
  <2>4. Conservation'
    BY <1>1, <1>2, <2>1, <2>2 DEF Conservation, SemaphoreTypeOK
  <2>5. Len(waitingThreads) >= -value
    BY <1>2 DEF WaitersCoverDeficit, SemaphoreTypeOK
  <2>6. WaitersCoverDeficit'
    BY <1>1, <1>2, <1>4, <2>2, <2>5 DEF WaitersCoverDeficit, SemaphoreTypeOK
  <2> QED
    BY <1>3, <2>3, <2>4, <2>6 DEF SemaphoreIInv
<1>5. CASE ~(value' < 0)
  <2>1. UNCHANGED <<waitingThreads, semaphoreAt>> /\ passes' = passes + 1
    BY <1>5 DEF semaphoreDown, semaphoreRequestAccess, isSemaphoreLocked
  <2>2. value >= 0 /\ waitingThreads = <<>>
    BY <1>1, <1>2, <1>5 DEF SemaphoreTypeOK, WaitersCoverDeficit
  <2>3. SemaphoreTypeOK'
    BY <1>1, <1>2, <2>1 DEF SemaphoreTypeOK
  <2>4. Conservation' /\ WaitersCoverDeficit'
    BY <1>1, <1>2, <1>5, <2>1, <2>2 DEF Conservation, WaitersCoverDeficit, SemaphoreTypeOK
  <2> QED
    BY <1>3, <2>3, <2>4 DEF SemaphoreIInv
<1> QED
  BY <1>4, <1>5

LEMMA SemaphoreUpKeeps ==
  ASSUME SemaphoreIInv, NEW t \in Thread, semaphoreUp(t)
  PROVE  SemaphoreIInv'
<1>1. /\ value' = value + 1 /\ ups' = ups + 1 /\ ups < MaxUps /\ semaphore = "present"
      /\ semaphore' = semaphore /\ start' = start /\ kernel' = kernel
  BY DEF semaphoreUp
<1>2. SemaphoreTypeOK /\ Conservation /\ WaitersCoverDeficit
  BY DEF SemaphoreIInv
<1>3. Untouched' /\ ups' \in 0..MaxUps
  BY <1>1, <1>2, SemaphoreAssumption DEF Untouched, SemaphoreTypeOK
<1>4. CASE value' < 0
  <2>1. UNCHANGED <<waitingThreads, semaphoreAt, passes>>
    BY <1>4 DEF semaphoreUp, isSemaphoreLocked
  <2>2. SemaphoreTypeOK'
    BY <1>1, <1>2, <1>3, <2>1 DEF SemaphoreTypeOK
  <2>3. Conservation' /\ WaitersCoverDeficit'
    BY <1>1, <1>2, <1>4, <2>1 DEF Conservation, WaitersCoverDeficit, SemaphoreTypeOK
  <2> QED
    BY <1>3, <2>2, <2>3 DEF SemaphoreIInv
<1>5. CASE ~(value' < 0)
  <2>1. /\ waitingThreads' = <<>>
        /\ passes' = passes + Len(waitingThreads)
        /\ semaphoreAt' \in [Thread -> {"running", "waiting"}]
    BY <1>2, <1>5 DEF semaphoreUp, unlockSemaphoreProcess, isSemaphoreLocked, SemaphoreTypeOK
  <2>2. SemaphoreTypeOK'
    BY <1>1, <1>2, <1>3, <2>1 DEF SemaphoreTypeOK
  <2>3. Conservation' /\ WaitersCoverDeficit'
    BY <1>1, <1>2, <1>5, <2>1 DEF Conservation, WaitersCoverDeficit, SemaphoreTypeOK
  <2> QED
    BY <1>3, <2>2, <2>3 DEF SemaphoreIInv
<1> QED
  BY <1>4, <1>5

LEMMA NextSemaphoreKeeps == SemaphoreIInv /\ [SemaphoreNext]_semaphoreVars => SemaphoreIInv'
<1> SUFFICES ASSUME SemaphoreIInv, [SemaphoreNext]_semaphoreVars PROVE SemaphoreIInv'
  OBVIOUS
<1>1. CASE semaphoreDestroy
  BY <1>1 DEF semaphoreDestroy, counts, SemaphoreIInv, SemaphoreTypeOK, Conservation, Untouched,
              WaitersCoverDeficit
<1>2. ASSUME NEW t \in Thread, DownOfNoSemaphore(t) PROVE SemaphoreIInv'
  BY <1>2 DEF DownOfNoSemaphore, counts, SemaphoreIInv, SemaphoreTypeOK, Conservation, Untouched,
              WaitersCoverDeficit
<1>3. CASE UNCHANGED semaphoreVars
  BY <1>3 DEF semaphoreVars, counts, SemaphoreIInv, SemaphoreTypeOK, Conservation, Untouched, WaitersCoverDeficit
<1> QED
  BY <1>1, <1>2, <1>3, SemaphoreCreateKeeps, SemaphoreDownKeeps, SemaphoreUpKeeps DEF SemaphoreNext

LEMMA SemaphoreInvHolds == SemaphoreSpec => []SemaphoreIInv
BY SemaphoreStarts, NextSemaphoreKeeps, PTL DEF SemaphoreSpec

\* The value and the list of a semaphore agree: with a value that is not negative
\* nobody waits, and below zero at least as many wait as it is below.
THEOREM WaitersMatchValue == SemaphoreSpec => []WaitersCoverDeficit
<1>1. SemaphoreIInv => WaitersCoverDeficit
  BY DEF SemaphoreIInv
<1> QED
  BY <1>1, SemaphoreInvHolds, PTL

\* Never do more threads pass than the start value and the calls of up allow,
\* whoever is woken when.
THEOREM SemaphoreIsSafe == SemaphoreSpec => []PassesBounded
<1>1. SemaphoreIInv => PassesBounded
  <2> SUFFICES ASSUME SemaphoreIInv PROVE PassesBounded
    OBVIOUS
  <2>1. Len(waitingThreads) + value >= 0
    BY DEF SemaphoreIInv, WaitersCoverDeficit, SemaphoreTypeOK
  <2>2. /\ passes \in Int /\ value \in Int /\ start \in Int /\ ups \in Int
        /\ Len(waitingThreads) \in Int
        /\ passes + Len(waitingThreads) + value = start + ups
    BY DEF SemaphoreIInv, SemaphoreTypeOK, Conservation
  <2> QED
    BY <2>1, <2>2 DEF PassesBounded
<1> QED
  BY <1>1, SemaphoreInvHolds, PTL

\* Value, list and passes agree, for any threads, start value and number of ups.
THEOREM SemaphoreStaysConsistent == SemaphoreSpec => []SemaphoreConsistent
<1>1. WaitersCoverDeficit /\ PassesBounded => SemaphoreConsistent
  BY DEF SemaphoreConsistent
<1> QED
  BY <1>1, WaitersMatchValue, SemaphoreIsSafe, PTL

(***************************************************************************)
(* Pipe                                                                    *)
(***************************************************************************)
N == PIPE_BUF_SIZE

\* SlotAt and Count with the pointers as arguments.
Around(r, n) == IF r + n < N THEN r + n ELSE r + n - N
Between(r, w) == IF w > r THEN w - r ELSE N - r + w

\* A receiver that is reading is running, and there is something to read; one
\* that waits has nothing to read, also while something is being sent.
ReaderHasChar == call = "readFromPipe" => receiver = "running" /\ buffer[readPointer] # 0
WaitsAtEmpty == receiver = "waiting" => buffer[readPointer] = 0

PipeIInv == TypeOK /\ RingConsistent /\ ReaderHasChar /\ WaitsAtEmpty

\* Going around the ring from r reaches every slot once.
LEMMA AroundFacts ==
  ASSUME NEW r \in Slot
  PROVE  /\ \A n \in 0..N : Around(r, n) \in Slot
         /\ \A m, n \in Slot : Around(r, m) = Around(r, n) => m = n
         /\ \A s \in Slot : \E n \in Slot : Around(r, n) = s
         /\ Around(r, 0) = r /\ Around(r, N) = r
<1> USE PipeAssumption DEF Slot, N, Around
<1>1. \A s \in Slot : \E n \in Slot : Around(r, n) = s
  <2> SUFFICES ASSUME NEW s \in Slot PROVE \E n \in Slot : Around(r, n) = s
    OBVIOUS
  <2>1. CASE s >= r
    <3>1. s - r \in Slot /\ Around(r, s - r) = s
      BY <2>1
    <3> QED
      BY <3>1
  <2>2. CASE s < r
    <3>1. N - r + s \in Slot /\ Around(r, N - r + s) = s
      BY <2>2
    <3> QED
      BY <3>1
  <2> QED
    BY <2>1, <2>2
<1> QED
  BY <1>1

\* The pointers k slots apart.
LEMMA BetweenFacts ==
  ASSUME NEW r \in Slot, NEW k \in 1..N
  PROVE  Between(r, Around(r, k)) = k
BY PipeAssumption DEF Slot, N, Around, Between

\* One slot further for the write pointer, one slot less for the read pointer.
LEMMA StepFacts ==
  ASSUME NEW r \in Slot, NEW k \in 0..(N - 1)
  PROVE  /\ pointerPosition(Around(r, k) + 1) = Around(r, k + 1)
         /\ pointerPosition(r + 1) \in Slot
         /\ Around(r, k + 1) = Around(pointerPosition(r + 1), k)
BY PipeAssumption DEF Slot, N, Around, pointerPosition

\* The invariant in terms of a number k of taken slots.
Ring(b, r, w, k) ==
  /\ \A n \in Slot : b[Around(r, n)] # 0 <=> n < k
  /\ w = Around(r, k)

\* Where such a k is, it is Count.
LEMMA RingCount ==
  ASSUME NEW b, NEW r \in Slot, NEW w \in Slot, NEW k \in 0..N, Ring(b, r, w, k)
  PROVE  (IF b[r] = 0 THEN 0 ELSE Between(r, w)) = k
<1>1. b[r] # 0 <=> 0 < k
  <2>1. 0 \in Slot
    BY PipeAssumption DEF Slot
  <2>2. Around(r, 0) = r
    BY AroundFacts
  <2> QED
    BY <2>1, <2>2 DEF Ring
<1>2. CASE k = 0
  BY <1>1, <1>2
<1>3. CASE k \in 1..N
  BY <1>1, <1>3, BetweenFacts DEF Ring
<1> QED
  BY <1>2, <1>3, PipeAssumption DEF N

LEMMA ConsistentIsRing ==
  ASSUME TypeOK
  PROVE  /\ Count \in 0..N
         /\ RingConsistent <=> Ring(buffer, readPointer, writePointer, Count)
<1>1. readPointer \in Slot /\ writePointer \in Slot
  BY DEF TypeOK
<1>2. Count \in 0..N
  BY <1>1, PipeAssumption DEF Count, Slot, N
<1>3. \A n : SlotAt(n) = Around(readPointer, n)
  BY DEF SlotAt, Around, N
<1> QED
  BY <1>2, <1>3 DEF RingConsistent, Ring

\* One taken slot more.
LEMMA RingPut ==
  ASSUME NEW b \in [Slot -> Char \cup {0}], NEW r \in Slot, NEW w \in Slot,
         NEW k \in 0..N, NEW c \in Char, Ring(b, r, w, k), b[w] = 0
  PROVE  /\ k < N
         /\ Ring([b EXCEPT ![w] = c], r, pointerPosition(w + 1), k + 1)
<1>1. k < N
  <2> SUFFICES ASSUME k = N PROVE FALSE
    BY PipeAssumption DEF N
  <2>1. 0 \in Slot /\ Around(r, 0) = w
    BY AroundFacts, PipeAssumption DEF Ring, Slot, N
  <2> QED
    BY <2>1, PipeAssumption DEF Ring, N
<1>2. k \in Slot /\ k \in 0..(N - 1) /\ w = Around(r, k)
  BY <1>1, PipeAssumption DEF Ring, Slot, N
<1>3. pointerPosition(w + 1) = Around(r, k + 1)
  BY <1>2, StepFacts
<1>4. ASSUME NEW n \in Slot
      PROVE  [b EXCEPT ![w] = c][Around(r, n)] # 0 <=> n < k + 1
  <2>1. Around(r, n) \in Slot
    <3>1. n \in 0..N
      BY PipeAssumption DEF Slot, N
    <3> QED
      BY <3>1, AroundFacts
  <2>2. CASE n = k
    <3>1. [b EXCEPT ![w] = c][Around(r, n)] = c
      BY <1>2, <2>2
    <3> QED
      BY <2>2, <3>1, <1>2, PipeAssumption DEF Slot
  <2>3. CASE n # k
    <3>1. Around(r, n) # w
      BY <1>2, <2>3, AroundFacts
    <3>2. [b EXCEPT ![w] = c][Around(r, n)] = b[Around(r, n)]
      BY <2>1, <3>1
    <3>3. b[Around(r, n)] # 0 <=> n < k
      BY DEF Ring
    <3> QED
      BY <1>2, <2>3, <3>2, <3>3 DEF Slot
  <2> QED
    BY <2>2, <2>3
<1> QED
  BY <1>1, <1>3, <1>4 DEF Ring

\* One taken slot less.
LEMMA RingTake ==
  ASSUME NEW b \in [Slot -> Char \cup {0}], NEW r \in Slot, NEW w \in Slot,
         NEW k \in 1..N, Ring(b, r, w, k)
  PROVE  /\ pointerPosition(r + 1) \in Slot
         /\ Ring([b EXCEPT ![r] = 0], pointerPosition(r + 1), w, k - 1)
<1> DEFINE q == pointerPosition(r + 1)
<1>1. k - 1 \in 0..(N - 1) /\ 0 \in 0..(N - 1)
  BY PipeAssumption DEF N
<1>2. q \in Slot
  BY <1>1, StepFacts
<1>3. w = Around(q, k - 1)
  <2>1. Around(r, (k - 1) + 1) = Around(q, k - 1)
    BY <1>1, StepFacts
  <2> QED
    BY <2>1 DEF Ring
<1>4. ASSUME NEW n \in Slot
      PROVE  [b EXCEPT ![r] = 0][Around(q, n)] # 0 <=> n < k - 1
  <2>1. n \in 0..(N - 1) /\ n + 1 \in 0..N
    BY PipeAssumption DEF Slot, N
  <2>2. Around(q, n) = Around(r, n + 1) /\ Around(q, n) \in Slot
    BY <2>1, <1>2, StepFacts, AroundFacts
  <2>3. CASE n + 1 = N
    <3>1. Around(q, n) = r
      BY <2>2, <2>3, AroundFacts
    <3>2. [b EXCEPT ![r] = 0][Around(q, n)] = 0
      BY <3>1
    <3> QED
      BY <2>3, <3>2, PipeAssumption DEF N
  <2>4. CASE n + 1 # N
    <3>1. n + 1 \in Slot /\ 0 \in Slot /\ n + 1 # 0
      BY <2>1, <2>4, PipeAssumption DEF Slot, N
    <3>2. Around(r, n + 1) # r
      BY <3>1, AroundFacts
    <3>3. [b EXCEPT ![r] = 0][Around(q, n)] = b[Around(r, n + 1)]
      BY <2>2, <3>2
    <3>4. b[Around(r, n + 1)] # 0 <=> n + 1 < k
      BY <3>1 DEF Ring
    <3> QED
      BY <2>1, <3>3, <3>4
  <2> QED
    BY <2>3, <2>4
<1> QED
  BY <1>2, <1>3, <1>4 DEF Ring

----------------------------------------------------------------------------
LEMMA EmptyString == <<>> \in Seq(Char)
OBVIOUS

LEMMA PipeStarts == Init => PipeIInv
<1> SUFFICES ASSUME Init PROVE PipeIInv
  OBVIOUS
<1>0. 0 \in Slot
  BY PipeAssumption DEF Slot
<1>1. TypeOK
  BY <1>0, EmptyString DEF Init, createPipe, TypeOK
<1>2. Count = 0
  BY <1>0 DEF Init, createPipe, Count
<1>3. Ring(buffer, readPointer, writePointer, 0)
  <2>1. \A n \in Slot : buffer[Around(0, n)] = 0
    <3> SUFFICES ASSUME NEW n \in Slot PROVE buffer[Around(0, n)] = 0
      OBVIOUS
    <3>1. 0 \in Slot /\ n \in 0..N
      BY PipeAssumption DEF Slot, N
    <3>2. Around(0, n) \in Slot
      BY <3>1, AroundFacts
    <3> QED
      BY <3>2 DEF Init, createPipe
  <2>2. Around(0, 0) = 0 /\ \A n \in Slot : ~(n < 0)
    BY PipeAssumption DEF Around, N, Slot
  <2> QED
    BY <2>1, <2>2 DEF Init, createPipe, Ring
<1>4. RingConsistent
  BY <1>1, <1>2, <1>3, ConsistentIsRing
<1> QED
  BY <1>1, <1>4 DEF Init, PipeIInv, ReaderHasChar, WaitsAtEmpty

\* What WriteChar does to the ring.
LEMMA WriteCharRing ==
  ASSUME PipeIInv, WriteChar
  PROVE  /\ TypeOK' /\ RingConsistent'
         /\ Count < N /\ Count' = Count + 1
         /\ buffer'[readPointer] # 0
<1> DEFINE k == Count
           c == Head(buff)
<1>1. /\ TypeOK
      /\ buffer \in [Slot -> Char \cup {0}] /\ readPointer \in Slot
      /\ writePointer \in Slot
  BY DEF PipeIInv, TypeOK
<1>2. k \in 0..N /\ Ring(buffer, readPointer, writePointer, k)
  BY <1>1, ConsistentIsRing DEF PipeIInv
<1>3. c \in Char /\ Tail(buff) \in Seq(Char)
  <2>1. buff \in Seq(Char) /\ buff # <<>>
    BY <1>1 DEF WriteChar, TypeOK
  <2> QED
    BY <2>1
<1>4. /\ buffer' = [buffer EXCEPT ![writePointer] = c]
      /\ writePointer' = pointerPosition(writePointer + 1)
      /\ readPointer' = readPointer /\ buffer[writePointer] = 0
  BY DEF WriteChar, slotIsFree
<1>5. k < N /\ Ring(buffer', readPointer', writePointer', k + 1)
  BY <1>1, <1>2, <1>3, <1>4, RingPut
<1>6. writePointer' \in Slot
  BY <1>1, <1>4, PipeAssumption DEF pointerPosition, Slot
<1>7. TypeOK'
  BY <1>1, <1>3, <1>4, <1>6 DEF WriteChar, wakeReceiver, TypeOK
<1>8. k + 1 \in 0..N /\ 0 \in Slot /\ 0 < k + 1
  BY <1>2, <1>5, PipeAssumption DEF N, Slot
<1>9. Count' = k + 1
  <2>1. (IF buffer'[readPointer'] = 0 THEN 0 ELSE Between(readPointer', writePointer'))
          = k + 1
    BY <1>1, <1>4, <1>5, <1>6, <1>8, RingCount
  <2> QED
    BY <2>1 DEF Count, Between, N
<1>10. RingConsistent'
  <2>1. \A n : SlotAt(n)' = Around(readPointer', n)
    BY DEF SlotAt, Around, N
  <2> QED
    BY <1>5, <1>9, <2>1 DEF RingConsistent, Ring
<1>11. buffer'[readPointer] # 0
  <2>1. Around(readPointer, 0) = readPointer
    BY <1>1, AroundFacts
  <2> QED
    BY <1>4, <1>5, <1>8, <2>1 DEF Ring
<1> QED
  BY <1>5, <1>7, <1>9, <1>10, <1>11

\* What ReadChar does to the ring; it ends when the ring is empty.
LEMMA ReadCharRing ==
  ASSUME PipeIInv, ReadChar
  PROVE  /\ TypeOK' /\ RingConsistent'
         /\ Count \in 1..N /\ Count' = Count - 1
         /\ readPointer' = pointerPosition(readPointer + 1)
         /\ buffer' = [buffer EXCEPT ![readPointer] = 0]
         /\ call' = "readFromPipe" => buffer'[readPointer'] # 0
<1> DEFINE k == Count
           q == pointerPosition(readPointer + 1)
           b == [buffer EXCEPT ![readPointer] = 0]
<1>1. /\ TypeOK
      /\ buffer \in [Slot -> Char \cup {0}] /\ readPointer \in Slot
      /\ writePointer \in Slot
  BY DEF PipeIInv, TypeOK
<1>2. k \in 0..N /\ Ring(buffer, readPointer, writePointer, k)
  BY <1>1, ConsistentIsRing DEF PipeIInv
<1>3. buffer[readPointer] # 0 /\ buffer[readPointer] \in Char
  BY <1>1 DEF PipeIInv, ReaderHasChar, ReadChar
<1>4. k \in 1..N
  BY <1>1, <1>2, <1>3, PipeAssumption DEF Count, Slot, N
<1>5. q \in Slot /\ Ring(b, q, writePointer, k - 1)
  BY <1>1, <1>2, <1>4, RingTake
<1>6. b[q] # 0 <=> 0 < k - 1
  <2>1. Around(q, 0) = q /\ 0 \in Slot
    BY <1>5, AroundFacts, PipeAssumption DEF Slot
  <2> QED
    BY <1>5, <2>1 DEF Ring
<1>7. q = writePointer <=> k - 1 = 0
  <2>1. Around(q, 0) = q /\ 0 \in Slot /\ k - 1 \in Slot
    BY <1>4, <1>5, AroundFacts, PipeAssumption DEF Slot, N
  <2>2. writePointer = Around(q, k - 1)
    BY <1>5 DEF Ring
  <2>3. Around(q, k - 1) = Around(q, 0) => k - 1 = 0
    <3>1. \A m, n \in Slot : Around(q, m) = Around(q, n) => m = n
      BY <1>5, AroundFacts
    <3> HIDE DEF q, k
    <3> QED
      BY <2>1, <3>1
  <2> QED
    BY <2>1, <2>2, <2>3
<1>8. /\ readPointer' = q /\ writePointer' = writePointer
      /\ got' = Append(got, buffer[readPointer])
      /\ call' = IF q = writePointer THEN "none" ELSE call
  BY DEF ReadChar
<1>9. buffer' = b
  <2>1. CASE q = writePointer
    <3>1. b[q] = 0 /\ b \in [Slot -> Char \cup {0}]
      BY <1>1, <1>4, <1>6, <1>7, <2>1
    <3>2. buffer' = [b EXCEPT ![q] = 0]
      BY <2>1 DEF ReadChar, takeSlot
    <3> QED
      BY <1>5, <3>1, <3>2
  <2>2. CASE q # writePointer
    BY <2>2 DEF ReadChar, takeSlot
  <2> QED
    BY <2>1, <2>2
<1>10. TypeOK'
  <2>1. b \in [Slot -> Char \cup {0}]
    BY <1>1
  <2>2. got' \in Seq(Char)
    <3>1. got \in Seq(Char)
      BY <1>1 DEF TypeOK
    <3> QED
      BY <1>3, <1>8, <3>1
  <2> QED
    BY <1>1, <1>5, <1>8, <1>9, <2>1, <2>2 DEF ReadChar, TypeOK
<1>11. Count' = k - 1
  <2>1. k - 1 \in 0..N
    BY <1>4, PipeAssumption DEF N
  <2>2. (IF b[q] = 0 THEN 0 ELSE Between(q, writePointer)) = k - 1
    BY <1>1, <1>5, <2>1, RingCount
  <2> QED
    BY <1>8, <1>9, <2>2 DEF Count, Between, N
<1>12. RingConsistent'
  <2>1. \A n : SlotAt(n)' = Around(readPointer', n)
    BY DEF SlotAt, Around, N
  <2> QED
    BY <1>5, <1>8, <1>9, <1>11, <2>1 DEF RingConsistent, Ring
<1>13. call' = "readFromPipe" => buffer'[readPointer'] # 0
  BY <1>4, <1>6, <1>7, <1>8, <1>9
<1> QED
  BY <1>4, <1>8, <1>9, <1>10, <1>11, <1>12, <1>13

LEMMA NextPipeKeeps == PipeIInv /\ [Next]_vars => PipeIInv'
<1> SUFFICES ASSUME PipeIInv, [Next]_vars PROVE PipeIInv'
  OBVIOUS
<1>1. CASE WriteChar
  <2>1. ReaderHasChar' /\ WaitsAtEmpty'
    BY <1>1 DEF WriteChar, wakeReceiver, ReaderHasChar, WaitsAtEmpty
  <2> QED
    BY <1>1, <2>1, WriteCharRing DEF PipeIInv
<1>2. CASE ReadChar
  <2>1. receiver = "running" /\ receiver' = receiver
    BY <1>2 DEF ReadChar, PipeIInv, ReaderHasChar
  <2>2. ReaderHasChar' /\ WaitsAtEmpty'
    BY <1>2, <2>1, ReadCharRing DEF ReaderHasChar, WaitsAtEmpty
  <2> QED
    BY <1>2, <2>2, ReadCharRing DEF PipeIInv
<1>3. ASSUME NEW m \in Messages, Send(m) PROVE PipeIInv'
  <2>1. m \in Seq(Char)
    BY PipeAssumption
  <2> QED
    BY <1>3, <2>1 DEF Send, PipeIInv, TypeOK, RingConsistent, Count, SlotAt,
                      ReaderHasChar, WaitsAtEmpty
<1>4. CASE WriteEnd
  BY <1>4, EmptyString DEF WriteEnd, PipeIInv, TypeOK, RingConsistent, Count, SlotAt,
              ReaderHasChar, WaitsAtEmpty
<1>5. CASE ReceiveBlocks
  BY <1>5, EmptyString DEF ReceiveBlocks, PipeIInv, TypeOK, RingConsistent, Count, SlotAt,
              ReaderHasChar, WaitsAtEmpty
<1>6. CASE Receive
  BY <1>6, EmptyString DEF Receive, PipeIInv, TypeOK, RingConsistent, Count, SlotAt,
              ReaderHasChar, WaitsAtEmpty
<1>7. CASE UNCHANGED vars
  BY <1>7 DEF vars, PipeIInv, TypeOK, RingConsistent, Count, SlotAt,
              ReaderHasChar, WaitsAtEmpty
<1> QED
  BY <1>1, <1>2, <1>3, <1>4, <1>5, <1>6, <1>7 DEF Next, Loop

LEMMA PipeInvHolds == Spec => []PipeIInv
BY PipeStarts, NextPipeKeeps, PTL DEF Spec

\* The pointers stay inside a ring of any size, for any alphabet and messages:
\* pointerPosition wraps them before they are used again.
THEOREM PipeTypeCorrect == Spec => []TypeOK
<1>1. PipeIInv => TypeOK
  BY DEF PipeIInv
<1> QED
  BY <1>1, PipeInvHolds, PTL

\* For every size of the ring the zero marks and the two pointers agree on
\* which slots hold a character that has not been read.
THEOREM PipeRing == Spec => []RingConsistent
<1>1. PipeIInv => RingConsistent
  BY DEF PipeIInv
<1> QED
  BY <1>1, PipeInvHolds, PTL

\* No wake-up of the receiver is lost.
THEOREM NoLostWakeUp == Spec => []WaitingMeansEmpty
<1>1. PipeIInv => WaitingMeansEmpty
  <2> SUFFICES ASSUME PipeIInv, receiver = "waiting", NEW s \in Slot PROVE buffer[s] = 0
    BY DEF WaitingMeansEmpty
  <2>1. readPointer \in Slot /\ TypeOK
    BY DEF PipeIInv, TypeOK
  <2>2. Count = 0
    BY DEF PipeIInv, WaitsAtEmpty, Count
  <2>3. Ring(buffer, readPointer, writePointer, 0)
    BY <2>1, <2>2, ConsistentIsRing DEF PipeIInv
  <2>4. PICK n \in Slot : Around(readPointer, n) = s
    BY <2>1, AroundFacts
  <2>5. ~(n < 0)
    BY PipeAssumption DEF Slot
  <2> QED
    BY <2>3, <2>4, <2>5 DEF Ring
<1> QED
  BY <1>1, PipeInvHolds, PTL

\* The ring, its pointers and its receiver agree, for every size of the ring.
THEOREM PipeStaysConsistent == Spec => []PipeConsistent
<1>1. RingConsistent /\ WaitingMeansEmpty => PipeConsistent
  BY DEF PipeConsistent
<1> QED
  BY <1>1, PipeRing, NoLostWakeUp, PTL

\* A receive that had to wait is followed by one that brings the message.
THEOREM OneMoreReceive == Spec => []SecondReceiveSucceeds
<1>1. Init => SecondReceiveSucceeds
  BY DEF Init, SecondReceiveSucceeds
<1>2. PipeIInv /\ SecondReceiveSucceeds /\ [Next]_vars => SecondReceiveSucceeds'
  <2> SUFFICES ASSUME PipeIInv, SecondReceiveSucceeds, [Next]_vars
               PROVE  SecondReceiveSucceeds'
    OBVIOUS
  <2>1. CASE WriteChar
    <3>1. readPointer' = readPointer
      BY <2>1 DEF WriteChar
    <3> QED
      BY <2>1, <3>1, WriteCharRing DEF SecondReceiveSucceeds
  <2>2. CASE ReadChar
    <3>1. answer' = "nothing" => call' = "readFromPipe"
      BY <2>2 DEF ReadChar
    <3> QED
      BY <2>2, <3>1, ReadCharRing DEF SecondReceiveSucceeds
  <2>3. ASSUME NEW m \in Messages, Send(m) PROVE SecondReceiveSucceeds'
    BY <2>3 DEF Send, SecondReceiveSucceeds
  <2>4. CASE WriteEnd
    BY <2>4 DEF WriteEnd, SecondReceiveSucceeds
  <2>5. CASE ReceiveBlocks \/ Receive
    BY <2>5 DEF ReceiveBlocks, Receive, SecondReceiveSucceeds
  <2>6. CASE UNCHANGED vars
    BY <2>6 DEF vars, SecondReceiveSucceeds
  <2> QED
    BY <2>1, <2>2, <2>3, <2>4, <2>5, <2>6 DEF Next, Loop
<1> QED
  BY <1>1, <1>2, PipeInvHolds, PTL DEF Spec

----------------------------------------------------------------------------
(* The ring is a channel.                                                  *)

\* What the channel has pending.
Pending == [n \in 1..Count |-> buffer[SlotAt(n - 1)]]

LEMMA AppendFacts ==
  ASSUME NEW S, NEW k \in Nat, NEW f \in [1..k -> S], NEW g \in [1..(k + 1) -> S],
         \A n \in 1..k : g[n] = f[n]
  PROVE  f \in Seq(S) /\ Len(f) = k /\ g = Append(f, g[k + 1])
<1>1. f \in Seq(S) /\ Len(f) = k
  OBVIOUS
<1>2. g \in Seq(S) /\ Len(g) = k + 1 /\ g[k + 1] \in S
  OBVIOUS
<1>3. /\ Append(f, g[k + 1]) \in Seq(S)
      /\ Len(Append(f, g[k + 1])) = k + 1
      /\ \A n \in 1..(k + 1) : Append(f, g[k + 1])[n] = g[n]
  BY <1>1, <1>2
<1> QED
  BY <1>1, <1>2, <1>3

LEMMA TailFacts ==
  ASSUME NEW S, NEW k \in Nat \ {0}, NEW f \in [1..k -> S], NEW g \in [1..(k - 1) -> S],
         \A n \in 1..(k - 1) : g[n] = f[n + 1]
  PROVE  f # <<>> /\ Head(f) = f[1] /\ g = Tail(f)
<1>1. f \in Seq(S) /\ Len(f) = k
  OBVIOUS
<1>2. g \in Seq(S) /\ Len(g) = k - 1
  OBVIOUS
<1>3. f # <<>> /\ Head(f) = f[1]
  BY <1>1
<1>4. /\ Tail(f) \in Seq(S) /\ Len(Tail(f)) = k - 1
      /\ \A n \in 1..(k - 1) : Tail(f)[n] = f[n + 1]
  BY <1>1, <1>3
<1> QED
  BY <1>2, <1>3, <1>4

\* What is pending are characters.
LEMMA PendingType ==
  ASSUME PipeIInv
  PROVE  /\ Count \in 0..N
         /\ Pending \in [1..Count -> Char]
         /\ \A n \in 0..(Count - 1) : SlotAt(n) \in Slot /\ buffer[SlotAt(n)] \in Char
<1>1. TypeOK /\ readPointer \in Slot /\ buffer \in [Slot -> Char \cup {0}]
  BY DEF PipeIInv, TypeOK
<1>2. Count \in 0..N
  BY <1>1, ConsistentIsRing
<1>3. ASSUME NEW n \in 0..(Count - 1)
      PROVE  SlotAt(n) \in Slot /\ buffer[SlotAt(n)] \in Char
  <2>1. n \in Slot /\ n < Count /\ n \in 0..N
    BY <1>2, PipeAssumption DEF Slot, N
  <2>2. SlotAt(n) \in Slot
    BY <1>1, <2>1, AroundFacts DEF SlotAt, Around, N
  <2>3. buffer[SlotAt(n)] # 0
    BY <2>1 DEF PipeIInv, RingConsistent
  <2> QED
    BY <1>1, <2>2, <2>3
<1>4. \A n \in 1..Count : n - 1 \in 0..(Count - 1)
  BY <1>2
<1> QED
  BY <1>2, <1>3, <1>4 DEF Pending

LEMMA PendingIsString == PipeIInv => Pending \in [1..Count -> Char]
BY PendingType

\* A character written is the last one pending.
LEMMA WriteCharAppends ==
  ASSUME PipeIInv, PipeIInv', WriteChar
  PROVE  /\ Len(Pending) < N
         /\ Pending' = Append(Pending, Head(buff))
<1> DEFINE k == Count
<1>1. k \in Nat /\ k < N /\ Count' = k + 1
  BY WriteCharRing, PendingType
<1>2. Pending \in [1..k -> Char] /\ Pending' \in [1..(k + 1) -> Char]
  <2>1. (Pending \in [1..Count -> Char])'
    BY PendingIsString, PTL
  <2> QED
    BY <1>1, <2>1, PendingType
<1>3. /\ buffer' = [buffer EXCEPT ![writePointer] = Head(buff)]
      /\ readPointer' = readPointer
  BY DEF WriteChar
<1>4. buffer \in [Slot -> Char \cup {0}] /\ writePointer \in Slot /\ readPointer \in Slot
  BY DEF PipeIInv, TypeOK
<1>5. \A n : SlotAt(n)' = SlotAt(n)
  BY <1>3 DEF SlotAt
<1>6. writePointer = SlotAt(k)
  BY DEF PipeIInv, RingConsistent
<1>7. ASSUME NEW n \in 1..k PROVE Pending'[n] = Pending[n]
  <2>1. n \in 1..(k + 1) /\ n - 1 \in 0..(k - 1) /\ n - 1 \in Slot /\ k \in Slot
    BY <1>1, PipeAssumption DEF Slot, N
  <2>2. SlotAt(n - 1) # SlotAt(k)
    <3>1. Around(readPointer, n - 1) = Around(readPointer, k) => n - 1 = k
      BY <1>4, <2>1, AroundFacts
    <3> QED
      BY <2>1, <3>1 DEF SlotAt, Around, N
  <2>3. SlotAt(n - 1) \in Slot
    BY <2>1, PendingType
  <2>4. buffer'[SlotAt(n - 1)] = buffer[SlotAt(n - 1)]
    BY <1>3, <1>4, <1>6, <2>2, <2>3
  <2> QED
    BY <1>1, <1>5, <2>1, <2>4 DEF Pending
<1>8. Pending'[k + 1] = Head(buff)
  <2>1. k + 1 \in 1..(k + 1) /\ (k + 1) - 1 = k
    BY <1>1
  <2>2. buffer'[SlotAt(k)] = Head(buff)
    BY <1>3, <1>4, <1>6
  <2> QED
    BY <1>1, <1>5, <2>1, <2>2 DEF Pending
<1>9. Len(Pending) = k /\ Pending' = Append(Pending, Pending'[k + 1])
  BY <1>1, <1>2, <1>7, AppendFacts
<1> QED
  BY <1>1, <1>8, <1>9

\* A character read is the first one pending.
LEMMA ReadCharTakes ==
  ASSUME PipeIInv, PipeIInv', ReadChar
  PROVE  /\ Pending # <<>>
         /\ buffer[readPointer] = Head(Pending)
         /\ Pending' = Tail(Pending)
<1> DEFINE k == Count
           q == pointerPosition(readPointer + 1)
<1>1. /\ k \in Nat \ {0} /\ k \in 1..N /\ Count' = k - 1
      /\ readPointer' = q /\ buffer' = [buffer EXCEPT ![readPointer] = 0]
  BY ReadCharRing, PipeAssumption DEF N
<1>2. Pending \in [1..k -> Char] /\ Pending' \in [1..(k - 1) -> Char]
  <2>1. (Pending \in [1..Count -> Char])'
    BY PendingIsString, PTL
  <2> QED
    BY <1>1, <2>1, PendingType
<1>3. buffer \in [Slot -> Char \cup {0}] /\ readPointer \in Slot
  BY DEF PipeIInv, TypeOK
<1>4. Pending[1] = buffer[readPointer]
  <2>1. SlotAt(0) = readPointer /\ 1 \in 1..k /\ 1 - 1 = 0
    BY <1>1, <1>3, PipeAssumption DEF SlotAt, Slot
  <2> QED
    BY <2>1 DEF Pending
<1>5. ASSUME NEW n \in 1..(k - 1) PROVE Pending'[n] = Pending[n + 1]
  <2>1. /\ n - 1 \in 0..(N - 1) /\ n \in Slot /\ 0 \in Slot /\ n # 0
        /\ n + 1 \in 1..k /\ (n + 1) - 1 = n /\ n \in 0..(k - 1) /\ (n - 1) + 1 = n
    BY <1>1, PipeAssumption DEF Slot, N
  <2>2. Around(readPointer, n) = Around(q, n - 1)
    <3>1. Around(readPointer, (n - 1) + 1) = Around(q, n - 1)
      BY <1>3, <2>1, StepFacts
    <3> QED
      BY <2>1, <3>1
  <2>3. SlotAt(n - 1)' = Around(q, n - 1) /\ SlotAt(n) = Around(readPointer, n)
    BY <1>1 DEF SlotAt, Around, N
  <2>4. Around(readPointer, n) # readPointer
    <3>1. Around(readPointer, 0) = readPointer
      BY <1>3, AroundFacts
    <3>2. Around(readPointer, n) = Around(readPointer, 0) => n = 0
      BY <1>3, <2>1, AroundFacts
    <3> QED
      BY <2>1, <3>1, <3>2
  <2>5. SlotAt(n) \in Slot
    BY <2>1, PendingType
  <2>6. buffer'[SlotAt(n)] = buffer[SlotAt(n)]
    BY <1>1, <1>3, <2>3, <2>4, <2>5
  <2>7. Pending'[n] = buffer'[SlotAt(n - 1)']
    BY <1>1 DEF Pending
  <2>8. Pending[n + 1] = buffer[SlotAt(n)]
    BY <2>1 DEF Pending
  <2> QED
    BY <2>2, <2>3, <2>6, <2>7, <2>8
<1>6. Pending # <<>> /\ Head(Pending) = Pending[1] /\ Pending' = Tail(Pending)
  BY <1>1, <1>2, <1>5, TailFacts
<1> QED
  BY <1>4, <1>6

\* Every step of the ring is a step of the channel or leaves it as it is.
LEMMA StepIsChannelStep ==
  PipeIInv /\ PipeIInv' /\ [Next]_vars => [Implements!Next]_(Implements!vars)
<1> SUFFICES ASSUME PipeIInv, PipeIInv', [Next]_vars
             PROVE  Implements!Next \/ UNCHANGED <<Pending, got, receiver>>
  BY DEF Implements!vars, Pending
<1>1. CASE WriteChar
  <2>1. Head(buff) \in Char
    <3>1. buff \in Seq(Char) /\ buff # <<>>
      BY <1>1 DEF WriteChar, PipeIInv, TypeOK
    <3> QED
      BY <3>1
  <2>2. /\ Len(Pending) < N /\ Pending' = Append(Pending, Head(buff))
        /\ receiver' = "running" /\ got' = got
    BY <1>1, WriteCharAppends DEF WriteChar, wakeReceiver
  <2>3. Implements!Put(Head(buff))
    BY <2>2 DEF Implements!Put, Pending, N
  <2> QED
    BY <2>1, <2>3 DEF Implements!Next
<1>2. CASE ReadChar
  <2>1. /\ Pending # <<>> /\ got' = Append(got, Head(Pending))
        /\ Pending' = Tail(Pending) /\ receiver' = receiver
    BY <1>2, ReadCharTakes DEF ReadChar
  <2>2. Implements!Take
    BY <2>1 DEF Implements!Take, Pending
  <2> QED
    BY <2>2 DEF Implements!Next
<1>3. CASE Receive
  <2>1. Pending' = Pending
    BY <1>3 DEF Receive, Pending, Count, SlotAt
  <2>2. Pending # <<>>
    <3>1. buffer[readPointer] # 0 /\ readPointer \in Slot /\ writePointer \in Slot
      BY <1>3 DEF Receive, PipeIInv, TypeOK
    <3>2. Count # 0 /\ Count \in Nat
      BY <3>1, PipeAssumption DEF Count, Slot
    <3>3. Pending \in Seq(Char) /\ Len(Pending) = Count
      BY <3>2, PendingType
    <3> QED
      BY <3>2, <3>3
  <2>3. Implements!StartTaking
    BY <1>3, <2>1, <2>2 DEF Receive, Implements!StartTaking, Pending
  <2> QED
    BY <2>3 DEF Implements!Next
<1>4. CASE ReceiveBlocks
  <2>1. Pending' = Pending
    BY <1>4 DEF ReceiveBlocks, Pending, Count, SlotAt
  <2>2. Pending = <<>>
    <3>1. Count = 0
      BY <1>4 DEF ReceiveBlocks, Count
    <3> QED
      BY <3>1 DEF Pending
  <2>3. Implements!Wait
    BY <1>4, <2>1, <2>2 DEF ReceiveBlocks, Implements!Wait, Pending
  <2> QED
    BY <2>3 DEF Implements!Next
<1>5. ASSUME NEW m \in Messages, Send(m) PROVE UNCHANGED <<Pending, got, receiver>>
  BY <1>5 DEF Send, Pending, Count, SlotAt
<1>6. CASE WriteEnd
  BY <1>6 DEF WriteEnd, Pending, Count, SlotAt
<1>7. CASE UNCHANGED vars
  BY <1>7 DEF vars, Pending, Count, SlotAt
<1> QED
  BY <1>1, <1>2, <1>3, <1>4, <1>5, <1>6, <1>7 DEF Next, Loop

\* A pipe of any size hands the characters it took in out in their order, each
\* once, and its receiver waits only at an empty pipe: the ring implements
\* the channel.
THEOREM PipeImplementsChannel == Spec => PipeIsChannel
<1>1. Init => Implements!Init
  <2> SUFFICES ASSUME Init PROVE Implements!Init
    OBVIOUS
  <2>1. Count = 0
    <3>1. 0 \in Slot
      BY PipeAssumption DEF Slot
    <3> QED
      BY <3>1 DEF Init, createPipe, Count
  <2>2. Pending = <<>>
    BY <2>1 DEF Pending
  <2> QED
    BY <2>2 DEF Init, Implements!Init, Pending
<1> QED
  BY <1>1, PipeInvHolds, StepIsChannelStep, PTL
     DEF Spec, PipeIsChannel, Implements!Spec
=============================================================================
