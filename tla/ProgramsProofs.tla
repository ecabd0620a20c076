--------------------------- MODULE ProgramsProofs ---------------------------
(***************************************************************************)
(* Proofs about the programs of the shell, under every interleaving of     *)
(* their statements: the philosophers, for any number of them; the line of *)
(* the shell, for a buffer of any size; and the dialogue over two pipes,   *)
(* for any two pids.  The pids become digits and numbers again by          *)
(* recursion, so that part begins with induction and recursion over a      *)
(* measure.                                                                *)
(***************************************************************************)
EXTENDS Shell, FiniteSetTheorems, SequenceTheorems, TLAPS

----------------------------------------------------------------------------
\* The philosophers.
N == PHILOSOPHERS_COUNT

Counting == {"readId", "readCounter", "writeCounter"}
Checking == {"checkForks", "checkLeft", "checkRight", "setEating", "upPhilosopher"}
PhiloStatement ==
  {"none", "downMain", "setState", "downPhilosopher"} \cup Counting \cup Checking

\* The philosophers that have a mutex, and the highest identifier of one.
Made(p) == p < setUp[1] \/ (p = setUp[1] /\ setUp[2] # "createMutex")
LastMutex == IF setUp[2] = "createMutex" THEN setUp[1] ELSE setUp[1] + 1

\* How far the main thread is: mutex 0 is the one around the states, mutex p + 1 that
\* of philosopher p; until that is made its identifier is 0.
SetUpInv ==
  /\ setUp \in (0..N) \X {"createMutex", "mutexDown", "setState", "tcreate"}
  /\ setUp[1] = N => setUp[2] = "createMutex"
  /\ mainMutexId = 0
  /\ philoMutexId = [p \in Philosopher |-> IF Made(p) THEN p + 1 ELSE 0]
  /\ mutexStatus \in [0..LastMutex -> {"MUTEX_LOCKED", "MUTEX_UNLOCKED"}]

PhiloTypes ==
  /\ philoState \in [Philosopher -> {"HUNGRY", "THINKING", "EATING"}]
  /\ philoAt \in [Philosopher -> PhiloStatement]
  /\ call \in [Philosopher -> {"takeForks", "putForks"}]
  /\ philoId \in [Philosopher -> Nat]
  /\ counterRead \in [Philosopher -> Nat]
  /\ auxCounter \in Nat
  /\ toCheck \in [Philosopher -> Seq(Philosopher)]

\* A thread that was started, and what it still has to do.
ThreadInv ==
  \A t \in Philosopher :
    /\ philoAt[t] # "none" <=> t < setUp[1]
    /\ philoAt[t] \in Checking \ {"checkForks"} => toCheck[t] # <<>>
    /\ philoAt[t] = "downPhilosopher" => call[t] = "takeForks"

\* The threads that have counted themselves: the counter, which a thread may set back,
\* and the numbers of the others are below what the counting can have reached.
Numbered == {t \in Philosopher : philoAt[t] \notin {"none"} \cup Counting}
CounterInv ==
  /\ auxCounter <= Cardinality(Numbered)
  /\ \A t \in Philosopher : counterRead[t] <= Cardinality(Numbered)
  /\ \A t \in Philosopher : philoId[t] <= Cardinality(Numbered \ {t})

\* Who waits does it at a locked mutex, the main one or its own.
WaitInv ==
  \A b \in blockedThreads :
    /\ b[1] = "mutex" /\ b[2] \in 0..LastMutex
    /\ mutexStatus[b[2]] = "MUTEX_LOCKED"
    /\ b[3] \in Philosopher =>
         \/ b[2] = 0 /\ philoAt[b[3]] = "setState"
         \/ b[2] = philoId[b[3]] + 1 /\ philoAt[b[3]] = "downMain"

\* While the main mutex is locked somebody is inside who will unlock it.
MainInv ==
  mutexStatus[0] = "MUTEX_LOCKED" =>
    \E t \in Philosopher : philoAt[t] \in Checking \cup {"setState"} /\ ~Blocked(t)

\* From its state HUNGRY to the end of takeForks, or of its wait.
Hungering(t) ==
  \/ philoAt[t] \in Checking \cup {"downPhilosopher"} /\ call[t] = "takeForks"
  \/ \E b \in blockedThreads : b[2] = philoId[t] + 1 /\ b[3] = t

\* Nobody else has read the number of t.
HasNumber(t) ==
  /\ philoAt[t] \notin {"none", "readId"}
  /\ \A u \in Philosopher : u # t /\ philoId[u] = philoId[t] => philoAt[u] \in {"none", "readId"}

Serves(c, p) == philoAt[c] = "upPhilosopher" /\ Head(toCheck[c]) = p

\* A hungry philosopher that was let eat finds its mutex unlocked, or will.
ServedInv ==
  \A t \in Philosopher : HasNumber(t) /\ Hungering(t) =>
    /\ philoState[philoId[t]] # "THINKING"
    /\ philoState[philoId[t]] = "EATING" /\ mutexStatus[philoId[t] + 1] = "MUTEX_LOCKED"
         => \E c \in Philosopher : Serves(c, philoId[t])

Checks(c) == philoAt[c] \in Checking \ {"upPhilosopher"} /\ toCheck[c] # <<>>

\* Once all are set up, somebody is about to check a hungry philosopher while all are.
HungryInv ==
  /\ setUp[1] = N \/ setUp = <<N - 1, "tcreate">>
  /\ \A p \in Philosopher : philoState[p] = "HUNGRY"
  => \E c \in Philosopher : Checks(c)

DiningInv ==
  /\ SetUpInv /\ PhiloTypes /\ ThreadInv /\ CounterInv
  /\ WaitInv /\ MainInv /\ ServedInv /\ HungryInv

----------------------------------------------------------------------------
\* An identifier that was never handed out.
LEMMA NextIdentifier ==
  ASSUME NEW n \in Nat, NEW S, NEW s \in S, NEW f \in [0..n -> S], NEW id, id = n + 1
  PROVE  /\ counter(f) = id
         /\ withObject(f, id, s) \in [0..id -> S]
         /\ withObject(f, id, s)[id] = s
         /\ \A i \in 0..n : withObject(f, id, s)[i] = f[i]
<1>1. Cardinality(0..n) = n + 1
  BY FS_Interval
<1>2. 0..n \cup {n + 1} = 0..(n + 1) /\ DOMAIN f = 0..n
  OBVIOUS
<1>3. withObject(f, n + 1, s) = [i \in 0..(n + 1) |-> IF i = n + 1 THEN s ELSE f[i]]
  BY <1>2 DEF withObject
<1>4. counter(f) = n + 1
  <2>1. counter(f) = Cardinality(DOMAIN f)
    BY Zenon DEF counter
  <2> QED BY <1>1, <1>2, <2>1, Zenon
<1>5. n + 1 \in 0..(n + 1) /\ \A i \in 0..n : i \in 0..(n + 1) /\ i # n + 1
  OBVIOUS
<1>6. \A i \in 0..(n + 1) : (IF i = n + 1 THEN s ELSE f[i]) \in S
  <2> SUFFICES ASSUME NEW i \in 0..(n + 1), i # n + 1 PROVE f[i] \in S
    OBVIOUS
  <2>1. i \in 0..n
    OBVIOUS
  <2> QED BY <2>1
<1> QED BY <1>3, <1>4, <1>5, <1>6

LEMMA Neighbours ==
  \A p \in Philosopher : left(p) \in Philosopher /\ right(p) \in Philosopher
BY PhilosophersAssumption DEF Philosopher, left, right

\* The threads are finitely many, and those that have a number at most the started ones.
LEMMA NumberedFinite ==
  ASSUME SetUpInv, ThreadInv, NEW t \in Philosopher
  PROVE  /\ IsFiniteSet(Numbered) /\ Cardinality(Numbered) \in Nat
         /\ IsFiniteSet(Numbered \ {t}) /\ Cardinality(Numbered \ {t}) \in Nat
         /\ Cardinality(Numbered \ {t}) <= Cardinality(Numbered)
         /\ t \notin Numbered => Cardinality(Numbered \ {t}) = Cardinality(Numbered)
         /\ Cardinality(Numbered) <= setUp[1]
         /\ philoAt[t] # "none" => Cardinality(Numbered \ {t}) < setUp[1]
<1>1. setUp[1] \in Nat /\ setUp[1] <= N
  BY PhilosophersAssumption DEF SetUpInv, N
<1> DEFINE Started == 0..(setUp[1] - 1)
<1>2. IsFiniteSet(Started) /\ Cardinality(Started) = setUp[1]
  <2>1. PICK last \in Int : last = setUp[1] - 1 /\ 0 - 1 <= last
    BY <1>1
  <2>2. IsFiniteSet(0..last) /\ Cardinality(0..last) = IF 0 > last THEN 0 ELSE last - 0 + 1
    BY FS_Interval
  <2> QED BY <1>1, <2>1, <2>2
<1>3. Numbered \subseteq Started
  BY <1>1, PhilosophersAssumption DEF ThreadInv, Numbered, Philosopher
<1>4. /\ IsFiniteSet(Numbered) /\ Cardinality(Numbered) <= setUp[1]
      /\ Cardinality(Numbered) \in Nat
  BY <1>2, <1>3, FS_Subset, FS_CardinalityType
<1>5. /\ IsFiniteSet(Numbered \ {t}) /\ Cardinality(Numbered \ {t}) \in Nat
      /\ Cardinality(Numbered \ {t}) <= Cardinality(Numbered)
  <2>1. Numbered \ {t} \in SUBSET Numbered
    OBVIOUS
  <2> QED BY <1>4, <2>1, FS_Subset, FS_CardinalityType
<1>6. t \notin Numbered => Numbered \ {t} = Numbered
  OBVIOUS
<1>7. ASSUME philoAt[t] # "none" PROVE Cardinality(Numbered \ {t}) < setUp[1]
  <2>1. t \in Started
    BY <1>1, <1>7, PhilosophersAssumption DEF ThreadInv, Philosopher
  <2>2. IsFiniteSet(Started \ {t}) /\ Cardinality(Started \ {t}) = setUp[1] - 1
    BY <1>2, <2>1, FS_RemoveElement
  <2>3. Numbered \ {t} \in SUBSET (Started \ {t})
    BY <1>3
  <2>4. Cardinality(Numbered \ {t}) <= setUp[1] - 1
    BY <2>2, <2>3, FS_Subset
  <2> QED BY <1>1, <1>5, <2>4
<1> QED BY <1>4, <1>5, <1>6, <1>7

\* A thread with a number has the mutex of a philosopher.
LEMMA NumberIsPhilosopher ==
  ASSUME SetUpInv, PhiloTypes, ThreadInv, CounterInv,
         NEW t \in Philosopher, philoAt[t] # "none"
  PROVE  /\ philoId[t] \in Philosopher /\ philoId[t] < setUp[1]
         /\ philoMutexId[philoId[t]] = philoId[t] + 1
         /\ philoId[t] + 1 \in 1..LastMutex
<1>1. philoId[t] <= Cardinality(Numbered \ {t}) /\ philoId[t] \in Nat
  BY DEF CounterInv, PhiloTypes
<1>2. setUp[1] \in 0..N
  BY DEF SetUpInv
<1>3. philoId[t] < setUp[1]
  BY <1>1, <1>2, NumberedFinite, PhilosophersAssumption DEF N
<1>4. philoId[t] \in Philosopher
  BY <1>1, <1>2, <1>3, PhilosophersAssumption DEF Philosopher, N
<1>5. philoMutexId[philoId[t]] = philoId[t] + 1
  BY <1>3, <1>4 DEF SetUpInv, Made
<1> QED BY <1>1, <1>2, <1>3, <1>4, <1>5, PhilosophersAssumption DEF LastMutex, N

----------------------------------------------------------------------------
LEMMA StartDines ==
  ASSUME PhilosophersInit, SyncInit, StartPhilosophers
  PROVE  DiningInv'
<1> DEFINE none == [i \in {} |-> 0]
<1>1. counter(none) = 0
  <2>1. DOMAIN none = {}
    OBVIOUS
  <2>2. counter(none) = Cardinality(DOMAIN none)
    BY Zenon DEF counter
  <2> QED BY <2>1, <2>2, FS_EmptySet, Zenon
<1>2. createMutex = [i \in {0} |-> "MUTEX_UNLOCKED"]
  <2>1. mutexStatus = none
    BY DEF SyncInit, NoObject
  <2>2. createMutex = [i \in DOMAIN none \cup {0} |-> IF i = 0 THEN "MUTEX_UNLOCKED" ELSE none[i]]
    BY <1>1, <2>1 DEF createMutex, withObject
  <2>3. DOMAIN none = {}
    OBVIOUS
  <2> QED BY <2>2, <2>3
<1> HIDE DEF none
<1>3. /\ mainMutexId' = 0 /\ setUp' = <<0, "createMutex">>
      /\ mutexStatus' = [i \in {0} |-> "MUTEX_UNLOCKED"]
      /\ blockedThreads' = {}
      /\ UNCHANGED <<auxCounter, philoMutexId, philoState, philoAt, call, philoId, counterRead, toCheck>>
  BY <1>1, <1>2 DEF StartPhilosophers, SyncInit, NoObject, none
<1>4. N \in Nat \ {0}
  BY PhilosophersAssumption DEF N
<1>5. LastMutex' = 0 /\ 0..0 = {0}
  BY <1>3 DEF LastMutex
<1>6. \A p \in Philosopher : ~Made(p)' /\ p \in Nat
  BY <1>3 DEF Made, Philosopher
<1>7. SetUpInv'
  <2>1. philoMutexId' = [p \in Philosopher |-> IF Made(p)' THEN p + 1 ELSE 0]
    BY <1>3, <1>6 DEF PhilosophersInit
  <2> QED BY <1>3, <1>4, <1>5, <2>1 DEF SetUpInv
<1>8. PhiloTypes'
  BY <1>3 DEF PhilosophersInit, PhiloTypes, PhiloStatement
<1>9. ThreadInv'
  BY <1>3, <1>6 DEF PhilosophersInit, ThreadInv, Checking
<1>10. CounterInv'
  <2>1. Numbered' = {} /\ \A t \in Philosopher : (Numbered \ {t})' = {}
    BY <1>3 DEF PhilosophersInit, Numbered
  <2>2. Cardinality(Numbered)' = 0 /\ \A t \in Philosopher : Cardinality(Numbered \ {t})' = 0
    BY <2>1, FS_EmptySet
  <2> QED BY <1>3, <2>2 DEF PhilosophersInit, CounterInv
<1>11. WaitInv' /\ MainInv'
  BY <1>3 DEF WaitInv, MainInv
<1>12. ServedInv' /\ HungryInv'
  BY <1>3, <1>4 DEF ServedInv, HungryInv, HasNumber, PhilosophersInit
<1> QED BY <1>7, <1>8, <1>9, <1>10, <1>11, <1>12 DEF DiningInv

\* A step that numbers nobody leaves the counting as it is.
LEMMA CounterStays ==
  ASSUME CounterInv, Numbered' = Numbered,
         UNCHANGED <<auxCounter, philoId, counterRead>>
  PROVE  CounterInv'
BY DEF CounterInv

LEMMA SetUpMutexDines ==
  ASSUME DiningInv, NEW p \in Philosopher, SetUpMutex(p)
  PROVE  DiningInv'
<1> USE DEF DiningInv
<1>1. /\ setUp = <<p, "createMutex">> /\ setUp' = <<p, "mutexDown">>
      /\ UNCHANGED <<auxCounter, mainMutexId, call, philoId, counterRead, toCheck>>
      /\ UNCHANGED <<blockedThreads, philoState, philoAt>>
  BY DEF SetUpMutex, SetUp
<1>2. p \in Nat /\ N \in Nat \ {0} /\ p < N /\ p \in 0..N
  BY PhilosophersAssumption DEF N, Philosopher
<1>3. LastMutex = p /\ LastMutex' = p + 1
  BY <1>1 DEF LastMutex
<1> DEFINE S == {"MUTEX_LOCKED", "MUTEX_UNLOCKED"}
<1>4. mutexStatus \in [0..p -> S]
  BY <1>3 DEF SetUpInv
<1>5. /\ counter(mutexStatus) = p + 1
      /\ mutexStatus' \in [0..(p + 1) -> S]
      /\ mutexStatus'[p + 1] = "MUTEX_UNLOCKED"
      /\ \A i \in 0..p : mutexStatus'[i] = mutexStatus[i]
  <2>1. mutexStatus' = withObject(mutexStatus, counter(mutexStatus), "MUTEX_UNLOCKED")
    BY DEF SetUpMutex, createMutex
  <2>2. "MUTEX_UNLOCKED" \in S
    OBVIOUS
  <2>3. counter(mutexStatus) = p + 1
    BY <1>2, <1>4, <2>2, NextIdentifier
  <2>4. mutexStatus' = withObject(mutexStatus, p + 1, "MUTEX_UNLOCKED")
    BY <2>1, <2>3
  <2>5. p \in Nat
    BY <1>2
  <2> HIDE DEF S
  <2>6. PICK id : id = p + 1
    OBVIOUS
  <2>7. mutexStatus' = withObject(mutexStatus, id, "MUTEX_UNLOCKED")
    BY <2>4, <2>6
  <2>8. mutexStatus' \in [0..id -> S]
    BY <1>4, <2>2, <2>5, <2>6, <2>7, NextIdentifier
  <2>9. mutexStatus'[id] = "MUTEX_UNLOCKED"
    BY <1>4, <2>2, <2>5, <2>6, <2>7, NextIdentifier
  <2>10. \A i \in 0..p : mutexStatus'[i] = mutexStatus[i]
    BY <1>4, <2>2, <2>5, <2>6, <2>7, NextIdentifier
  <2> QED BY <2>3, <2>6, <2>8, <2>9, <2>10
<1>6. \A q \in Philosopher : (Made(q) <=> q < p) /\ (Made(q)' <=> q <= p)
  BY <1>1, <1>2 DEF Made, Philosopher
<1>7. SetUpInv'
  <2>1. philoMutexId' = [philoMutexId EXCEPT ![p] = p + 1]
    BY <1>5 DEF SetUpMutex
  <2>2. philoMutexId' = [q \in Philosopher |-> IF Made(q)' THEN q + 1 ELSE 0]
    <3>1. philoMutexId = [q \in Philosopher |-> IF q < p THEN q + 1 ELSE 0]
      BY <1>6 DEF SetUpInv
    <3>2. philoMutexId' = [q \in Philosopher |-> IF q <= p THEN q + 1 ELSE 0]
      <4>1. \A q \in Philosopher : q # p => (q <= p <=> q < p)
        BY <1>2 DEF Philosopher
      <4>2. philoMutexId' = [q \in Philosopher |-> IF q = p THEN p + 1 ELSE philoMutexId[q]]
        BY <2>1, <3>1
      <4>3. \A q \in Philosopher :
              (IF q = p THEN p + 1 ELSE philoMutexId[q]) = (IF q <= p THEN q + 1 ELSE 0)
        BY <1>2, <3>1, <4>1
      <4> QED BY <4>2, <4>3
    <3> QED BY <1>6, <3>2
  <2>3. setUp' \in (0..N) \X {"createMutex", "mutexDown", "setState", "tcreate"}
    BY <1>1, <1>2
  <2> QED BY <1>1, <1>2, <1>3, <1>5, <2>2, <2>3 DEF SetUpInv
<1>8. PhiloTypes' /\ ThreadInv'
  BY <1>1 DEF PhiloTypes, ThreadInv
<1>9. CounterInv'
  BY <1>1, CounterStays DEF Numbered
<1>10. WaitInv'
  BY <1>1, <1>2, <1>3, <1>5 DEF WaitInv
<1>11. MainInv'
  BY <1>1, <1>2, <1>5 DEF MainInv, Blocked
<1>12. ServedInv'
  <2> SUFFICES ASSUME NEW t \in Philosopher, HasNumber(t)', Hungering(t)'
               PROVE  /\ philoState[philoId[t]] # "THINKING"
                      /\ philoState[philoId[t]] = "EATING" /\ mutexStatus'[philoId[t] + 1] = "MUTEX_LOCKED"
                           => \E c \in Philosopher : Serves(c, philoId[t])'
    BY <1>1 DEF ServedInv
  <2>1. HasNumber(t) /\ Hungering(t)
    BY <1>1 DEF HasNumber, Hungering
  <2>2. philoId[t] + 1 \in 0..p
    <3>1. philoId[t] + 1 \in 1..LastMutex
      BY <2>1, NumberIsPhilosopher DEF HasNumber
    <3> QED BY <1>2, <1>3, <3>1
  <2> QED BY <1>1, <1>5, <2>1, <2>2 DEF ServedInv, Serves
<1>13. HungryInv'
  BY <1>1, <1>2 DEF HungryInv
<1> QED BY <1>7, <1>8, <1>9, <1>10, <1>11, <1>12, <1>13

LEMMA SetUpLockDines ==
  ASSUME DiningInv, NEW p \in Philosopher, SetUpLock(p)
  PROVE  DiningInv'
<1> USE DEF DiningInv
<1>1. /\ setUp = <<p, "mutexDown">> /\ setUp' = <<p, "setState">>
      /\ UNCHANGED <<auxCounter, mainMutexId, call, philoId, counterRead, toCheck>>
      /\ UNCHANGED <<philoMutexId, philoState, philoAt>>
  BY DEF SetUpLock, SetUp
<1>2. p \in Nat /\ N \in Nat \ {0} /\ p < N /\ p \in 0..N /\ Main \notin Philosopher
  BY PhilosophersAssumption DEF N, Philosopher, Main
<1>3. LastMutex = p + 1 /\ LastMutex' = p + 1
  BY <1>1 DEF LastMutex
<1>4. philoMutexId[p] = p + 1
  BY <1>1, <1>2 DEF SetUpInv, Made
<1>5. /\ mutexStatus' \in [0..(p + 1) -> {"MUTEX_LOCKED", "MUTEX_UNLOCKED"}]
      /\ \A i \in 0..p : mutexStatus'[i] = mutexStatus[i]
      /\ \A i \in 0..(p + 1) : mutexStatus[i] = "MUTEX_LOCKED" => mutexStatus'[i] = "MUTEX_LOCKED"
      /\ \/ blockedThreads' = blockedThreads
         \/ /\ blockedThreads' = blockedThreads \cup {<<"mutex", p + 1, Main>>}
            /\ mutexStatus'[p + 1] = "MUTEX_LOCKED"
  <2>1. mutexStatus \in [0..(p + 1) -> {"MUTEX_LOCKED", "MUTEX_UNLOCKED"}]
    BY <1>3 DEF SetUpInv
  <2>2. mutexDown(Main, p + 1)
    BY <1>4 DEF SetUpLock
  <2>3. p + 1 \in 0..(p + 1) /\ \A i \in 0..p : i # p + 1 /\ i \in 0..(p + 1)
    BY <1>2
  <2> QED BY <2>1, <2>2, <2>3 DEF mutexDown
<1>6. \A b \in blockedThreads' : b \in blockedThreads \/ b = <<"mutex", p + 1, Main>>
  BY <1>5
<1>7. \A t \in Philosopher : Blocked(t)' = Blocked(t)
  BY <1>2, <1>5 DEF Blocked
<1>8. \A q \in Philosopher : Made(q)' <=> Made(q)
  BY <1>1 DEF Made
<1>9. SetUpInv'
  <2>1. setUp' \in (0..N) \X {"createMutex", "mutexDown", "setState", "tcreate"}
    BY <1>1, <1>2
  <2>2. philoMutexId' = [q \in Philosopher |-> IF Made(q)' THEN q + 1 ELSE 0]
    BY <1>1, <1>8 DEF SetUpInv
  <2> QED BY <1>1, <1>2, <1>3, <1>5, <2>1, <2>2 DEF SetUpInv
<1>10. PhiloTypes' /\ ThreadInv'
  BY <1>1 DEF PhiloTypes, ThreadInv
<1>11. CounterInv'
  BY <1>1, CounterStays DEF Numbered
<1>12. WaitInv'
  BY <1>1, <1>2, <1>3, <1>5 DEF WaitInv
<1>13. MainInv'
  BY <1>1, <1>2, <1>5, <1>7 DEF MainInv
<1>14. ServedInv'
  <2> SUFFICES ASSUME NEW t \in Philosopher, HasNumber(t)', Hungering(t)'
               PROVE  /\ philoState[philoId[t]] # "THINKING"
                      /\ philoState[philoId[t]] = "EATING" /\ mutexStatus'[philoId[t] + 1] = "MUTEX_LOCKED"
                           => \E c \in Philosopher : Serves(c, philoId[t])'
    BY <1>1 DEF ServedInv
  <2>1. HasNumber(t) /\ Hungering(t)
    BY <1>1, <1>2, <1>6 DEF HasNumber, Hungering
  <2>2. philoId[t] + 1 \in 0..p
    <3>1. philoId[t] < p /\ philoId[t] \in Nat
      BY <1>1, <2>1, NumberIsPhilosopher DEF HasNumber, PhiloTypes
    <3> QED BY <1>2, <3>1
  <2> QED BY <1>1, <1>5, <2>1, <2>2 DEF ServedInv, Serves
<1>15. HungryInv'
  BY <1>1, <1>2 DEF HungryInv
<1> QED BY <1>9, <1>10, <1>11, <1>12, <1>13, <1>14, <1>15

LEMMA SetUpStateDines ==
  ASSUME DiningInv, NEW p \in Philosopher, SetUpState(p)
  PROVE  DiningInv'
<1> USE DEF DiningInv
<1>1. /\ setUp = <<p, "setState">> /\ setUp' = <<p, "tcreate">>
      /\ philoState' = [philoState EXCEPT ![p] = "THINKING"]
      /\ UNCHANGED <<auxCounter, mainMutexId, call, philoId, counterRead, toCheck>>
      /\ UNCHANGED <<mutexStatus, blockedThreads, philoMutexId, philoAt>>
  BY DEF SetUpState, SetUp, syncVars
<1>2. p \in Nat /\ N \in Nat \ {0} /\ p < N /\ p \in 0..N
  BY PhilosophersAssumption DEF N, Philosopher
<1>3. LastMutex' = LastMutex
  BY <1>1 DEF LastMutex
<1>4. \A q \in Philosopher : Made(q)' <=> Made(q)
  BY <1>1 DEF Made
<1>5. SetUpInv'
  <2>1. setUp' \in (0..N) \X {"createMutex", "mutexDown", "setState", "tcreate"}
    BY <1>1, <1>2
  <2>2. philoMutexId' = [q \in Philosopher |-> IF Made(q)' THEN q + 1 ELSE 0]
    BY <1>1, <1>4 DEF SetUpInv
  <2> QED BY <1>1, <1>2, <1>3, <2>1, <2>2 DEF SetUpInv
<1>6. PhiloTypes' /\ ThreadInv'
  BY <1>1 DEF PhiloTypes, ThreadInv
<1>7. CounterInv'
  BY <1>1, CounterStays DEF Numbered
<1>8. WaitInv' /\ MainInv'
  BY <1>1, <1>3 DEF WaitInv, MainInv, Blocked
<1>9. ServedInv'
  <2> SUFFICES ASSUME NEW t \in Philosopher, HasNumber(t)', Hungering(t)'
               PROVE  /\ philoState'[philoId[t]] # "THINKING"
                      /\ philoState'[philoId[t]] = "EATING" /\ mutexStatus[philoId[t] + 1] = "MUTEX_LOCKED"
                           => \E c \in Philosopher : Serves(c, philoId[t])'
    BY <1>1 DEF ServedInv
  <2>1. HasNumber(t) /\ Hungering(t)
    BY <1>1 DEF HasNumber, Hungering
  <2>2. philoId[t] # p /\ philoId[t] \in Philosopher
    <3>1. philoId[t] < p /\ philoId[t] \in Philosopher /\ philoId[t] \in Nat
      BY <1>1, <2>1, NumberIsPhilosopher DEF HasNumber, PhiloTypes
    <3> QED BY <1>2, <3>1
  <2>3. philoState'[philoId[t]] = philoState[philoId[t]]
    BY <1>1, <2>2 DEF PhiloTypes
  <2> QED BY <1>1, <2>1, <2>3 DEF ServedInv, Serves
<1>10. HungryInv'
  <2>1. philoState'[p] = "THINKING"
    BY <1>1 DEF PhiloTypes
  <2> QED BY <2>1 DEF HungryInv
<1> QED BY <1>5, <1>6, <1>7, <1>8, <1>9, <1>10

LEMMA SetUpThreadDines ==
  ASSUME DiningInv, NEW p \in Philosopher, SetUpThread(p)
  PROVE  DiningInv'
<1> USE DEF DiningInv
<1>1. /\ setUp = <<p, "tcreate">> /\ setUp' = <<p + 1, "createMutex">>
      /\ philoAt' = [philoAt EXCEPT ![p] = "readId"]
      /\ UNCHANGED <<auxCounter, mainMutexId, call, philoId, counterRead, toCheck>>
      /\ UNCHANGED <<mutexStatus, blockedThreads, philoMutexId, philoState>>
  BY DEF SetUpThread, SetUp, syncVars
<1>2. p \in Nat /\ N \in Nat \ {0} /\ p < N /\ p + 1 \in 0..N
  BY PhilosophersAssumption DEF N, Philosopher
<1>3. LastMutex' = LastMutex
  BY <1>1 DEF LastMutex
<1>4. \A q \in Philosopher : Made(q)' <=> Made(q)
  BY <1>1, <1>2 DEF Made, Philosopher
<1>5. philoAt[p] = "none"
  BY <1>1, <1>2 DEF ThreadInv
<1>6. /\ philoAt'[p] = "readId"
      /\ \A t \in Philosopher : t # p => philoAt'[t] = philoAt[t]
  BY <1>1 DEF PhiloTypes
<1>7. SetUpInv'
  <2>1. setUp' \in (0..N) \X {"createMutex", "mutexDown", "setState", "tcreate"}
    BY <1>1, <1>2
  <2>2. philoMutexId' = [q \in Philosopher |-> IF Made(q)' THEN q + 1 ELSE 0]
    BY <1>1, <1>4 DEF SetUpInv
  <2> QED BY <1>1, <1>2, <1>3, <2>1, <2>2 DEF SetUpInv
<1>8. PhiloTypes'
  BY <1>1 DEF PhiloTypes, PhiloStatement, Counting
<1>9. ThreadInv'
  <2>1. \A t \in Philosopher : t # p => (t < p + 1 <=> t < p)
    BY <1>2 DEF Philosopher
  <2> QED BY <1>1, <1>2, <1>6, <2>1 DEF ThreadInv, Checking
<1>10. CounterInv'
  <2>1. Numbered' = Numbered
    BY <1>5, <1>6 DEF Numbered, Counting
  <2> QED BY <1>1, <2>1, CounterStays
<1>11. WaitInv' /\ MainInv'
  BY <1>1, <1>3, <1>5, <1>6 DEF WaitInv, MainInv, Blocked, Checking
<1>12. ServedInv'
  <2> SUFFICES ASSUME NEW t \in Philosopher, HasNumber(t)', Hungering(t)'
               PROVE  /\ philoState[philoId[t]] # "THINKING"
                      /\ philoState[philoId[t]] = "EATING" /\ mutexStatus[philoId[t] + 1] = "MUTEX_LOCKED"
                           => \E c \in Philosopher : Serves(c, philoId[t])'
    BY <1>1 DEF ServedInv
  <2>1. HasNumber(t) /\ Hungering(t)
    BY <1>1, <1>5, <1>6 DEF HasNumber, Hungering
  <2>2. \A c \in Philosopher : Serves(c, philoId[t]) => Serves(c, philoId[t])'
    BY <1>1, <1>5, <1>6 DEF Serves
  <2> QED BY <2>1, <2>2 DEF ServedInv
<1>13. HungryInv'
  <2>1. \A c \in Philosopher : Checks(c) => Checks(c)'
    BY <1>1, <1>5, <1>6 DEF Checks, Checking
  <2>2. p + 1 = N => setUp = <<N - 1, "tcreate">>
    BY <1>1, <1>2
  <2>3. setUp'[1] = N \/ setUp' = <<N - 1, "tcreate">> => p + 1 = N
    BY <1>1
  <2> QED BY <1>1, <2>1, <2>2, <2>3 DEF HungryInv
<1> QED BY <1>7, <1>8, <1>9, <1>10, <1>11, <1>12, <1>13

----------------------------------------------------------------------------
\* What a statement of a philosopher moves.
LEMMA PhiloMoves ==
  ASSUME DiningInv, NEW t \in Philosopher, NEW from \in PhiloStatement \ {"none"}, NEW to,
         PhiloGoes(t, from, to)
  PROVE  /\ philoAt[t] = from /\ philoAt'[t] = to
         /\ \A u \in Philosopher : u # t => philoAt'[u] = philoAt[u]
         /\ \A b \in blockedThreads : b[3] # t
         /\ UNCHANGED <<mainMutexId, philoMutexId, setUp, LastMutex>>
         /\ setUp[1] \in Nat /\ LastMutex \in Nat
         /\ philoId[t] \in Philosopher /\ philoId[t] < setUp[1]
         /\ philoMutexId[philoId[t]] = philoId[t] + 1
         /\ philoId[t] + 1 \in 1..LastMutex
<1>1. /\ philoAt[t] = from /\ philoAt' = [philoAt EXCEPT ![t] = to]
      /\ UNCHANGED <<mainMutexId, philoMutexId, setUp>>
      /\ \A b \in blockedThreads : b[3] # t
  BY DEF PhiloGoes, Blocked
<1>2. philoAt[t] # "none"
  BY <1>1
<1>3. /\ philoId[t] \in Philosopher /\ philoId[t] < setUp[1]
      /\ philoMutexId[philoId[t]] = philoId[t] + 1
      /\ philoId[t] + 1 \in 1..LastMutex
  BY <1>2, NumberIsPhilosopher DEF DiningInv
<1>4. setUp[1] \in Nat /\ LastMutex \in Nat
  BY PhilosophersAssumption DEF DiningInv, SetUpInv, LastMutex, N
<1>5. LastMutex' = LastMutex
  BY <1>1 DEF LastMutex
<1> QED BY <1>1, <1>3, <1>4, <1>5 DEF DiningInv, PhiloTypes

LEMMA SetUpStays ==
  ASSUME SetUpInv, UNCHANGED <<mainMutexId, philoMutexId, setUp>>,
         mutexStatus' \in [0..LastMutex -> {"MUTEX_LOCKED", "MUTEX_UNLOCKED"}]
  PROVE  SetUpInv'
<1>1. LastMutex' = LastMutex /\ \A q \in Philosopher : Made(q)' <=> Made(q)
  BY DEF LastMutex, Made
<1> QED BY <1>1 DEF SetUpInv

\* The statements that read and write the counter.
LEMMA CountingDines ==
  ASSUME DiningInv, NEW t \in Philosopher, NEW from \in Counting,
         NEW to \in {"readCounter", "writeCounter", "downMain"}, PhiloGoes(t, from, to),
         from = "readId" \/ philoId' = philoId,
         \A u \in Philosopher : u # t => philoId'[u] = philoId[u],
         UNCHANGED <<syncVars, philoState, call, toCheck>>
  PROVE  SetUpInv' /\ ThreadInv' /\ WaitInv' /\ MainInv' /\ ServedInv' /\ HungryInv'
<1> USE DEF DiningInv
<1>1. from \in PhiloStatement \ {"none"}
  BY DEF Counting, PhiloStatement
<1>2. /\ philoAt[t] = from /\ philoAt'[t] = to
      /\ \A u \in Philosopher : u # t => philoAt'[u] = philoAt[u]
      /\ \A b \in blockedThreads : b[3] # t
      /\ UNCHANGED <<mainMutexId, philoMutexId, setUp, LastMutex>>
  BY <1>1, PhiloMoves
<1>3. UNCHANGED <<mutexStatus, blockedThreads>>
  BY DEF syncVars
<1>4. SetUpInv'
  BY <1>2, <1>3, SetUpStays DEF SetUpInv
<1>5. ThreadInv'
  BY <1>2 DEF ThreadInv, Checking, Counting
<1>6. WaitInv' /\ MainInv'
  BY <1>2, <1>3 DEF WaitInv, MainInv, Blocked, Counting, Checking
<1>7. ServedInv'
  <2> SUFFICES ASSUME NEW u \in Philosopher, HasNumber(u)', Hungering(u)'
               PROVE  /\ philoState[philoId'[u]] # "THINKING"
                      /\ philoState[philoId'[u]] = "EATING" /\ mutexStatus[philoId'[u] + 1] = "MUTEX_LOCKED"
                           => \E c \in Philosopher : Serves(c, philoId[u])'
    BY <1>3 DEF ServedInv
  <2>1. u # t
    BY <1>2, <1>3 DEF Hungering, Checking
  <2>2. philoId'[u] = philoId[u] /\ Hungering(u)
    BY <1>2, <1>3, <2>1 DEF Hungering
  <2>3. HasNumber(u)
    BY <1>2, <2>1, <2>2 DEF HasNumber, Counting
  <2>4. \A c \in Philosopher : Serves(c, philoId[u]) => Serves(c, philoId[u])'
    BY <1>2, <2>2 DEF Serves, Counting
  <2> QED BY <2>2, <2>3, <2>4 DEF ServedInv
<1>8. HungryInv'
  <2>1. \A c \in Philosopher : Checks(c) => Checks(c)'
    BY <1>2 DEF Checks, Counting, Checking
  <2> QED BY <1>2, <2>1 DEF HungryInv
<1> QED BY <1>4, <1>5, <1>6, <1>7, <1>8

LEMMA ReadIdDines ==
  ASSUME DiningInv, NEW t \in Philosopher, ReadId(t)
  PROVE  DiningInv'
<1> USE DEF DiningInv
<1>1. /\ PhiloGoes(t, "readId", "readCounter")
      /\ philoId' = [philoId EXCEPT ![t] = auxCounter]
      /\ UNCHANGED <<syncVars, auxCounter, philoState, call, counterRead, toCheck>>
  BY DEF ReadId
<1>2. SetUpInv' /\ ThreadInv' /\ WaitInv' /\ MainInv' /\ ServedInv' /\ HungryInv'
  BY <1>1, CountingDines DEF Counting, PhiloTypes
<1>3. PhiloTypes'
  BY <1>1 DEF PhiloTypes, PhiloGoes, PhiloStatement, Counting
<1>4. philoAt[t] = "readId" /\ philoAt' = [philoAt EXCEPT ![t] = "readCounter"]
  BY <1>1 DEF PhiloGoes
<1>5. Numbered' = Numbered /\ t \notin Numbered
  BY <1>4 DEF Numbered, Counting, PhiloTypes
<1>6. auxCounter <= Cardinality(Numbered \ {t})
  BY <1>5, NumberedFinite DEF CounterInv
<1> HIDE DEF DiningInv
<1>7. CounterInv'
  BY <1>1, <1>5, <1>6 DEF CounterInv, DiningInv, PhiloTypes
<1> QED BY <1>2, <1>3, <1>7 DEF DiningInv

LEMMA ReadCounterDines ==
  ASSUME DiningInv, NEW t \in Philosopher, ReadCounter(t)
  PROVE  DiningInv'
<1> USE DEF DiningInv
<1>1. /\ PhiloGoes(t, "readCounter", "writeCounter")
      /\ counterRead' = [counterRead EXCEPT ![t] = auxCounter]
      /\ UNCHANGED <<syncVars, auxCounter, philoState, call, philoId, toCheck>>
  BY DEF ReadCounter
<1>2. SetUpInv' /\ ThreadInv' /\ WaitInv' /\ MainInv' /\ ServedInv' /\ HungryInv'
  BY <1>1, CountingDines DEF Counting
<1>3. PhiloTypes'
  BY <1>1 DEF PhiloTypes, PhiloGoes, PhiloStatement, Counting
<1>4. Numbered' = Numbered
  BY <1>1 DEF PhiloGoes, Numbered, Counting, PhiloTypes
<1>5. CounterInv'
  BY <1>1, <1>4 DEF CounterInv, PhiloTypes
<1> QED BY <1>2, <1>3, <1>5

LEMMA WriteCounterDines ==
  ASSUME DiningInv, NEW t \in Philosopher, WriteCounter(t)
  PROVE  DiningInv'
<1> USE DEF DiningInv
<1>1. /\ PhiloGoes(t, "writeCounter", "downMain")
      /\ auxCounter' = counterRead[t] + 1
      /\ counterRead' = [counterRead EXCEPT ![t] = 0]
      /\ UNCHANGED <<syncVars, philoState, call, philoId, toCheck>>
  BY DEF WriteCounter
<1>2. SetUpInv' /\ ThreadInv' /\ WaitInv' /\ MainInv' /\ ServedInv' /\ HungryInv'
  BY <1>1, CountingDines DEF Counting
<1>3. PhiloTypes'
  BY <1>1 DEF PhiloTypes, PhiloGoes, PhiloStatement
<1>4. Numbered' = Numbered \cup {t} /\ t \notin Numbered
  BY <1>1 DEF PhiloGoes, Numbered, Counting, PhiloTypes
<1>5. IsFiniteSet(Numbered) /\ Cardinality(Numbered) \in Nat
  BY NumberedFinite
<1>6. IsFiniteSet(Numbered') /\ Cardinality(Numbered') = Cardinality(Numbered) + 1
  BY <1>4, <1>5, FS_AddElement
<1>7. CounterInv'
  <2>1. auxCounter' <= Cardinality(Numbered)'
    BY <1>1, <1>5, <1>6 DEF CounterInv, PhiloTypes
  <2>2. \A u \in Philosopher : counterRead'[u] <= Cardinality(Numbered)'
    <3> SUFFICES ASSUME NEW u \in Philosopher PROVE counterRead'[u] <= Cardinality(Numbered')
      OBVIOUS
    <3>1. counterRead'[u] = 0 \/ counterRead'[u] = counterRead[u]
      BY <1>1 DEF PhiloTypes
    <3>2. counterRead[u] <= Cardinality(Numbered) /\ counterRead[u] \in Nat
      BY DEF CounterInv, PhiloTypes
    <3> QED BY <1>5, <1>6, <3>1, <3>2
  <2>3. ASSUME NEW u \in Philosopher PROVE philoId'[u] <= Cardinality(Numbered \ {u})'
    <3>1. Numbered \ {u} \in SUBSET (Numbered' \ {u}) /\ Numbered' \ {u} \in SUBSET Numbered'
      BY <1>4
    <3>2. IsFiniteSet(Numbered' \ {u})
      BY <1>6, <3>1, FS_Subset
    <3>3. /\ Cardinality(Numbered \ {u}) <= Cardinality(Numbered' \ {u})
          /\ Cardinality(Numbered' \ {u}) \in Nat
      BY <3>1, <3>2, FS_Subset, FS_CardinalityType
    <3>4. philoId[u] <= Cardinality(Numbered \ {u}) /\ philoId[u] \in Nat
      BY DEF CounterInv, PhiloTypes
    <3>5. Cardinality(Numbered \ {u}) \in Nat
      BY NumberedFinite
    <3> QED BY <1>1, <3>3, <3>4, <3>5
  <2> QED BY <2>1, <2>2, <2>3 DEF CounterInv
<1> QED BY <1>2, <1>3, <1>7

LEMMA CheckDines ==
  ASSUME DiningInv, NEW t \in Philosopher,
         NEW from \in Checking \ {"setEating", "upPhilosopher"},
         NEW to \in Checking \ {"checkForks", "upPhilosopher"}, NEW good \in BOOLEAN,
         Check(t, from, to, good),
         (\A p \in Philosopher : philoState[p] = "HUNGRY") => good
  PROVE  DiningInv'
<1> USE DEF DiningInv
<1> DEFINE next == IF good THEN to ELSE "checkForks"
<1>1. /\ toCheck[t] # <<>> /\ PhiloGoes(t, from, next)
      /\ toCheck' = IF good THEN toCheck ELSE [toCheck EXCEPT ![t] = Tail(@)]
      /\ UNCHANGED <<mutexStatus, blockedThreads, auxCounter, philoState, call, philoId, counterRead>>
  BY DEF Check, syncVars
<1>2. from \in PhiloStatement \ {"none"} /\ next \in Checking \ {"upPhilosopher"}
  BY DEF PhiloStatement, Checking
<1>3. /\ philoAt[t] = from /\ philoAt'[t] = next
      /\ \A u \in Philosopher : u # t => philoAt'[u] = philoAt[u]
      /\ \A b \in blockedThreads : b[3] # t
      /\ UNCHANGED <<mainMutexId, philoMutexId, setUp, LastMutex>>
  BY <1>1, <1>2, PhiloMoves
<1>4. /\ \A u \in Philosopher : u # t => toCheck'[u] = toCheck[u]
      /\ good => toCheck'[t] = toCheck[t]
      /\ toCheck' \in [Philosopher -> Seq(Philosopher)]
  BY <1>1 DEF PhiloTypes
<1>5. SetUpInv'
  BY <1>1, <1>3, SetUpStays DEF SetUpInv
<1>6. PhiloTypes'
  BY <1>1, <1>2, <1>4 DEF PhiloTypes, PhiloGoes, PhiloStatement
<1>7. ThreadInv'
  BY <1>1, <1>2, <1>3, <1>4 DEF ThreadInv, Checking
<1>8. CounterInv'
  <2>1. Numbered' = Numbered
    BY <1>2, <1>3 DEF Numbered, Counting, Checking
  <2> QED BY <1>1, <2>1, CounterStays
<1>9. WaitInv' /\ MainInv'
  BY <1>1, <1>2, <1>3 DEF WaitInv, MainInv, Blocked, Checking
<1>10. ServedInv'
  <2> SUFFICES ASSUME NEW u \in Philosopher, HasNumber(u)', Hungering(u)'
               PROVE  /\ philoState[philoId[u]] # "THINKING"
                      /\ philoState[philoId[u]] = "EATING" /\ mutexStatus[philoId[u] + 1] = "MUTEX_LOCKED"
                           => \E c \in Philosopher : Serves(c, philoId[u])'
    BY <1>1 DEF ServedInv
  <2>1. HasNumber(u) /\ Hungering(u)
    BY <1>1, <1>2, <1>3 DEF HasNumber, Hungering, Checking
  <2>2. \A c \in Philosopher : Serves(c, philoId[u]) => Serves(c, philoId[u])'
    BY <1>1, <1>3, <1>4 DEF Serves
  <2> QED BY <2>1, <2>2 DEF ServedInv
<1>11. HungryInv'
  <2> SUFFICES ASSUME setUp[1] = N \/ setUp = <<N - 1, "tcreate">>,
                      \A p \in Philosopher : philoState[p] = "HUNGRY"
               PROVE  \E c \in Philosopher : Checks(c)'
    BY <1>1, <1>3 DEF HungryInv
  <2>1. PICK c \in Philosopher : Checks(c)
    BY DEF HungryInv
  <2>2. Checks(c)'
    BY <1>1, <1>2, <1>3, <1>4, <2>1 DEF Checks
  <2> QED BY <2>2
<1> QED BY <1>5, <1>6, <1>7, <1>8, <1>9, <1>10, <1>11

LEMMA CheckForksDines ==
  ASSUME DiningInv, NEW t \in Philosopher, CheckForks(t)
  PROVE  DiningInv'
<1> DEFINE p == Head(toCheck[t])
<1>1. p \in Philosopher
  <2>1. toCheck[t] # <<>>
    BY DEF CheckForks, Check
  <2> QED BY <2>1 DEF DiningInv, PhiloTypes
<1>2. left(p) \in Philosopher /\ right(p) \in Philosopher
  BY <1>1, Neighbours
<1>3. \/ Check(t, "checkForks", "checkLeft", philoState[p] = "HUNGRY")
      \/ Check(t, "checkLeft", "checkRight", philoState[left(p)] # "EATING")
      \/ Check(t, "checkRight", "setEating", philoState[right(p)] # "EATING")
  BY DEF CheckForks
<1> HIDE DEF p
<1>4. CASE Check(t, "checkForks", "checkLeft", philoState[p] = "HUNGRY")
  BY <1>1, <1>4, CheckDines DEF Checking
<1>5. CASE Check(t, "checkLeft", "checkRight", philoState[left(p)] # "EATING")
  BY <1>2, <1>5, CheckDines DEF Checking
<1>6. CASE Check(t, "checkRight", "setEating", philoState[right(p)] # "EATING")
  BY <1>2, <1>6, CheckDines DEF Checking
<1> QED BY <1>3, <1>4, <1>5, <1>6

LEMMA SetStateDines ==
  ASSUME DiningInv, NEW t \in Philosopher, SetState(t)
  PROVE  DiningInv'
<1> USE DEF DiningInv
<1> DEFINE new == IF call[t] = "takeForks" THEN "HUNGRY" ELSE "THINKING"
<1>1. /\ PhiloGoes(t, "setState", "checkForks")
      /\ philoState' = [philoState EXCEPT ![philoId[t]] = new]
      /\ toCheck' = [toCheck EXCEPT ![t] = afterSetting(t)]
      /\ UNCHANGED <<mutexStatus, blockedThreads, auxCounter, call, philoId, counterRead>>
  BY DEF SetState, syncVars
<1>2. "setState" \in PhiloStatement \ {"none"}
  BY DEF PhiloStatement
<1>3. /\ philoAt[t] = "setState" /\ philoAt'[t] = "checkForks"
      /\ \A u \in Philosopher : u # t => philoAt'[u] = philoAt[u]
      /\ \A b \in blockedThreads : b[3] # t
      /\ UNCHANGED <<mainMutexId, philoMutexId, setUp, LastMutex>>
      /\ philoId[t] \in Philosopher
  BY <1>1, <1>2, PhiloMoves
<1>4. /\ philoState'[philoId[t]] = new
      /\ \A p \in Philosopher : p # philoId[t] => philoState'[p] = philoState[p]
      /\ philoState' \in [Philosopher -> {"HUNGRY", "THINKING", "EATING"}]
  BY <1>1, <1>3 DEF PhiloTypes
<1>5. afterSetting(t) \in Seq(Philosopher) /\ afterSetting(t) # <<>>
  <2>1. left(philoId[t]) \in Philosopher /\ right(philoId[t]) \in Philosopher
    BY <1>3, Neighbours
  <2> QED BY <1>3, <2>1 DEF afterSetting
<1>6. /\ toCheck'[t] # <<>> /\ toCheck' \in [Philosopher -> Seq(Philosopher)]
      /\ \A u \in Philosopher : u # t => toCheck'[u] = toCheck[u]
  BY <1>1, <1>5 DEF PhiloTypes
<1>7. SetUpInv'
  BY <1>1, <1>3, SetUpStays DEF SetUpInv
<1>8. PhiloTypes'
  BY <1>1, <1>4, <1>6 DEF PhiloTypes, PhiloGoes, PhiloStatement, Checking
<1>9. ThreadInv'
  BY <1>1, <1>3, <1>6 DEF ThreadInv, Checking
<1>10. CounterInv'
  <2>1. Numbered' = Numbered
    BY <1>3 DEF Numbered, Counting
  <2> QED BY <1>1, <2>1, CounterStays
<1>11. WaitInv' /\ MainInv'
  BY <1>1, <1>3 DEF WaitInv, MainInv, Blocked, Checking
<1>12. ServedInv'
  <2> SUFFICES ASSUME NEW u \in Philosopher, HasNumber(u)', Hungering(u)'
               PROVE  /\ philoState'[philoId[u]] # "THINKING"
                      /\ philoState'[philoId[u]] = "EATING" /\ mutexStatus[philoId[u] + 1] = "MUTEX_LOCKED"
                           => \E c \in Philosopher : Serves(c, philoId[u])'
    BY <1>1 DEF ServedInv
  <2>1. HasNumber(u)
    BY <1>1, <1>3 DEF HasNumber
  <2>2. CASE u = t
    <3>1. call[t] = "takeForks"
      BY <1>1, <1>3, <2>2 DEF Hungering
    <3> QED BY <1>4, <2>2, <3>1
  <2>3. CASE u # t
    <3>1. Hungering(u)
      BY <1>1, <1>3, <2>3 DEF Hungering
    <3>2. philoId[u] # philoId[t] /\ philoId[u] \in Philosopher
      BY <1>3, <2>1, <2>3, NumberIsPhilosopher DEF HasNumber
    <3>3. \A c \in Philosopher : Serves(c, philoId[u]) => Serves(c, philoId[u])'
      BY <1>1, <1>3, <1>6 DEF Serves
    <3> QED BY <1>4, <2>1, <3>1, <3>2, <3>3 DEF ServedInv
  <2> QED BY <2>2, <2>3
<1>13. HungryInv'
  <2>1. Checks(t)'
    BY <1>3, <1>6 DEF Checks, Checking
  <2> QED BY <2>1 DEF HungryInv
<1> QED BY <1>7, <1>8, <1>9, <1>10, <1>11, <1>12, <1>13

LEMMA SetEatingDines ==
  ASSUME DiningInv, NEW t \in Philosopher, SetEating(t)
  PROVE  DiningInv'
<1> USE DEF DiningInv
<1> DEFINE h == Head(toCheck[t])
<1>1. /\ PhiloGoes(t, "setEating", "upPhilosopher")
      /\ philoState' = [philoState EXCEPT ![h] = "EATING"]
      /\ UNCHANGED <<mutexStatus, blockedThreads, auxCounter, call, philoId, counterRead, toCheck>>
  BY DEF SetEating, syncVars
<1>2. "setEating" \in PhiloStatement \ {"none"}
  BY DEF PhiloStatement, Checking
<1>3. /\ philoAt[t] = "setEating" /\ philoAt'[t] = "upPhilosopher"
      /\ \A u \in Philosopher : u # t => philoAt'[u] = philoAt[u]
      /\ \A b \in blockedThreads : b[3] # t
      /\ UNCHANGED <<mainMutexId, philoMutexId, setUp, LastMutex>>
  BY <1>1, <1>2, PhiloMoves
<1>4. toCheck[t] # <<>> /\ h \in Philosopher
  <2>1. toCheck[t] # <<>>
    BY <1>3 DEF ThreadInv, Checking
  <2> QED BY <2>1 DEF PhiloTypes
<1>5. /\ philoState'[h] = "EATING"
      /\ \A p \in Philosopher : p # h => philoState'[p] = philoState[p]
      /\ philoState' \in [Philosopher -> {"HUNGRY", "THINKING", "EATING"}]
  BY <1>1, <1>4 DEF PhiloTypes
<1>6. SetUpInv'
  BY <1>1, <1>3, SetUpStays DEF SetUpInv
<1>7. PhiloTypes'
  BY <1>1, <1>5 DEF PhiloTypes, PhiloGoes, PhiloStatement, Checking
<1>8. ThreadInv'
  BY <1>1, <1>3, <1>4 DEF ThreadInv, Checking
<1>9. CounterInv'
  <2>1. Numbered' = Numbered
    BY <1>3 DEF Numbered, Counting
  <2> QED BY <1>1, <2>1, CounterStays
<1>10. WaitInv' /\ MainInv'
  BY <1>1, <1>3 DEF WaitInv, MainInv, Blocked, Checking
<1>11. ServedInv'
  <2> SUFFICES ASSUME NEW u \in Philosopher, HasNumber(u)', Hungering(u)'
               PROVE  /\ philoState'[philoId[u]] # "THINKING"
                      /\ philoState'[philoId[u]] = "EATING" /\ mutexStatus[philoId[u] + 1] = "MUTEX_LOCKED"
                           => \E c \in Philosopher : Serves(c, philoId[u])'
    BY <1>1 DEF ServedInv
  <2>1. HasNumber(u) /\ Hungering(u)
    BY <1>1, <1>3 DEF HasNumber, Hungering, Checking
  <2>2. philoId[u] \in Philosopher
    BY <2>1, NumberIsPhilosopher DEF HasNumber
  <2>3. \A c \in Philosopher : Serves(c, philoId[u]) => Serves(c, philoId[u])'
    BY <1>1, <1>3 DEF Serves
  <2>4. philoId[u] = h => Serves(t, philoId[u])'
    BY <1>1, <1>3 DEF Serves
  <2> HIDE DEF h
  <2> QED BY <1>5, <2>1, <2>2, <2>3, <2>4 DEF ServedInv
<1>12. HungryInv'
  BY <1>4, <1>5 DEF HungryInv
<1> QED BY <1>6, <1>7, <1>8, <1>9, <1>10, <1>11, <1>12

\* The two system calls on a mutex.
LEMMA MutexUpFacts ==
  ASSUME SetUpInv, WaitInv, NEW id \in 0..LastMutex, mutexUp(id)
  PROVE  /\ mutexStatus' \in [0..LastMutex -> {"MUTEX_LOCKED", "MUTEX_UNLOCKED"}]
         /\ mutexStatus'[id] = "MUTEX_UNLOCKED"
         /\ \A i \in 0..LastMutex : i # id => mutexStatus'[i] = mutexStatus[i]
         /\ \A b : b \in blockedThreads' <=> b \in blockedThreads /\ b[2] # id
         /\ \A t : Blocked(t)' => Blocked(t)
<1>1. /\ mutexStatus' = [mutexStatus EXCEPT ![id] = "MUTEX_UNLOCKED"]
      /\ blockedThreads' = blockedThreads \ Waiting("mutex", id)
  BY DEF mutexUp
<1>2. \A b : b \in blockedThreads' <=> b \in blockedThreads /\ b[2] # id
  BY <1>1 DEF WaitInv, Waiting
<1> QED BY <1>1, <1>2 DEF SetUpInv, Blocked

LEMMA MutexDownFacts ==
  ASSUME SetUpInv, NEW id \in 0..LastMutex, NEW t \in Philosopher, mutexDown(t, id)
  PROVE  /\ mutexStatus' \in [0..LastMutex -> {"MUTEX_LOCKED", "MUTEX_UNLOCKED"}]
         /\ mutexStatus'[id] = "MUTEX_LOCKED"
         /\ \A i \in 0..LastMutex : i # id => mutexStatus'[i] = mutexStatus[i]
         /\ mutexStatus[id] = "MUTEX_LOCKED" => blockedThreads' = blockedThreads \cup {<<"mutex", id, t>>}
         /\ mutexStatus[id] # "MUTEX_LOCKED" => blockedThreads' = blockedThreads
         /\ \A u : u # t => Blocked(u)' = Blocked(u)
<1>1. /\ IF mutexStatus[id] = "MUTEX_LOCKED"
         THEN /\ blockedThreads' = blockedThreads \cup {<<"mutex", id, t>>}
              /\ UNCHANGED mutexStatus
         ELSE /\ mutexStatus' = [mutexStatus EXCEPT ![id] = "MUTEX_LOCKED"]
              /\ UNCHANGED blockedThreads
  BY DEF mutexDown
<1>2. blockedThreads' = blockedThreads \/ blockedThreads' = blockedThreads \cup {<<"mutex", id, t>>}
  BY <1>1
<1>3. \A u : u # t => Blocked(u)' = Blocked(u)
  BY <1>2 DEF Blocked
<1>4. mutexStatus \in [0..LastMutex -> {"MUTEX_LOCKED", "MUTEX_UNLOCKED"}]
  BY DEF SetUpInv
<1>5. CASE mutexStatus[id] = "MUTEX_LOCKED"
  BY <1>1, <1>3, <1>4, <1>5
<1>6. CASE mutexStatus[id] # "MUTEX_LOCKED"
  BY <1>1, <1>3, <1>4, <1>6
<1> QED BY <1>5, <1>6

LEMMA UpPhilosopherDines ==
  ASSUME DiningInv, NEW t \in Philosopher, UpPhilosopher(t)
  PROVE  DiningInv'
<1> USE DEF DiningInv
<1> DEFINE h == Head(toCheck[t])
           id == philoMutexId[h]
<1>1. /\ PhiloGoes(t, "upPhilosopher", "checkForks")
      /\ mutexUp(id)
      /\ toCheck' = [toCheck EXCEPT ![t] = Tail(@)]
      /\ UNCHANGED <<auxCounter, philoState, call, philoId, counterRead>>
  BY DEF UpPhilosopher
<1>2. "upPhilosopher" \in PhiloStatement \ {"none"}
  BY DEF PhiloStatement, Checking
<1>3. /\ philoAt[t] = "upPhilosopher" /\ philoAt'[t] = "checkForks"
      /\ \A u \in Philosopher : u # t => philoAt'[u] = philoAt[u]
      /\ \A b \in blockedThreads : b[3] # t
      /\ UNCHANGED <<mainMutexId, philoMutexId, setUp, LastMutex>>
      /\ setUp[1] \in Nat /\ LastMutex \in Nat
  BY <1>1, <1>2, PhiloMoves
<1>4. toCheck[t] # <<>> /\ h \in Philosopher
  <2>1. toCheck[t] # <<>>
    BY <1>3 DEF ThreadInv, Checking
  <2> QED BY <2>1 DEF PhiloTypes
<1>5. /\ toCheck' \in [Philosopher -> Seq(Philosopher)]
      /\ \A u \in Philosopher : u # t => toCheck'[u] = toCheck[u]
  BY <1>1, <1>4 DEF PhiloTypes
<1>6. id \in 0..LastMutex /\ (h < setUp[1] => id = h + 1)
  <2>1. id = IF Made(h) THEN h + 1 ELSE 0
    BY <1>4 DEF SetUpInv
  <2>2. h \in Nat
    BY <1>4, PhilosophersAssumption DEF Philosopher
  <2>3. Made(h) => h + 1 \in 0..LastMutex
    BY <1>3, <2>2 DEF Made, LastMutex
  <2> HIDE DEF h, id
  <2> QED BY <1>3, <2>1, <2>2, <2>3 DEF Made
<1> HIDE DEF id
<1>7. /\ mutexStatus' \in [0..LastMutex -> {"MUTEX_LOCKED", "MUTEX_UNLOCKED"}]
      /\ mutexStatus'[id] = "MUTEX_UNLOCKED"
      /\ \A i \in 0..LastMutex : i # id => mutexStatus'[i] = mutexStatus[i]
      /\ \A b : b \in blockedThreads' <=> b \in blockedThreads /\ b[2] # id
      /\ \A u : Blocked(u)' => Blocked(u)
  BY <1>1, <1>6, MutexUpFacts
<1>8. SetUpInv'
  BY <1>3, <1>7, SetUpStays
<1>9. PhiloTypes'
  BY <1>1, <1>5 DEF PhiloTypes, PhiloGoes, PhiloStatement, Checking
<1>10. ThreadInv'
  BY <1>1, <1>3, <1>5 DEF ThreadInv, Checking
<1>11. CounterInv'
  <2>1. Numbered' = Numbered
    BY <1>3 DEF Numbered, Counting
  <2> QED BY <1>1, <2>1, CounterStays
<1>12. WaitInv'
  BY <1>1, <1>3, <1>7 DEF WaitInv
<1>13. MainInv'
  BY <1>3, <1>6, <1>7 DEF MainInv, Checking
<1>14. ServedInv'
  <2> SUFFICES ASSUME NEW u \in Philosopher, HasNumber(u)', Hungering(u)'
               PROVE  /\ philoState[philoId[u]] # "THINKING"
                      /\ philoState[philoId[u]] = "EATING" /\ mutexStatus'[philoId[u] + 1] = "MUTEX_LOCKED"
                           => \E c \in Philosopher : Serves(c, philoId[u])'
    BY <1>1 DEF ServedInv
  <2>1. HasNumber(u) /\ Hungering(u)
    BY <1>1, <1>3, <1>7 DEF HasNumber, Hungering, Checking
  <2>2. /\ philoId[u] \in Philosopher /\ philoId[u] + 1 \in 0..LastMutex
        /\ philoId[u] < setUp[1]
    BY <2>1, NumberIsPhilosopher DEF HasNumber
  <2>3. ASSUME philoState[philoId[u]] = "EATING", mutexStatus'[philoId[u] + 1] = "MUTEX_LOCKED"
        PROVE  \E c \in Philosopher : Serves(c, philoId[u])'
    <3>1. philoId[u] + 1 # id /\ mutexStatus[philoId[u] + 1] = "MUTEX_LOCKED"
      BY <1>7, <2>2, <2>3
    <3>2. PICK c \in Philosopher : Serves(c, philoId[u])
      BY <2>1, <2>3, <3>1 DEF ServedInv
    <3>3. c # t
      BY <1>6, <2>2, <3>1, <3>2 DEF Serves
    <3>4. Serves(c, philoId[u])'
      BY <1>1, <1>3, <1>5, <3>2, <3>3 DEF Serves
    <3> QED BY <3>4
  <2> QED BY <2>1, <2>3 DEF ServedInv
<1>15. HungryInv'
  <2>1. \A c \in Philosopher : Checks(c) => Checks(c)'
    BY <1>3, <1>5 DEF Checks
  <2> QED BY <1>1, <1>3, <2>1 DEF HungryInv
<1> QED BY <1>8, <1>9, <1>10, <1>11, <1>12, <1>13, <1>14, <1>15

LEMMA UpMainDines ==
  ASSUME DiningInv, NEW t \in Philosopher, UpMain(t)
  PROVE  DiningInv'
<1> USE DEF DiningInv
<1> DEFINE to == IF call[t] = "takeForks" THEN "downPhilosopher" ELSE "downMain"
<1>1. /\ toCheck[t] = <<>> /\ PhiloGoes(t, "checkForks", to)
      /\ mutexUp(mainMutexId)
      /\ call' = [call EXCEPT ![t] = "takeForks"]
      /\ UNCHANGED <<auxCounter, philoState, philoId, counterRead, toCheck>>
  BY DEF UpMain, CallsMutex
<1>2. "checkForks" \in PhiloStatement \ {"none"}
  BY DEF PhiloStatement, Checking
<1>3. /\ philoAt[t] = "checkForks" /\ philoAt'[t] = to
      /\ \A u \in Philosopher : u # t => philoAt'[u] = philoAt[u]
      /\ \A b \in blockedThreads : b[3] # t
      /\ UNCHANGED <<mainMutexId, philoMutexId, setUp, LastMutex>>
      /\ setUp[1] \in Nat /\ LastMutex \in Nat
  BY <1>1, <1>2, PhiloMoves
<1>4. mainMutexId = 0 /\ 0 \in 0..LastMutex
  BY <1>3 DEF SetUpInv
<1>5. /\ mutexStatus' \in [0..LastMutex -> {"MUTEX_LOCKED", "MUTEX_UNLOCKED"}]
      /\ mutexStatus'[0] = "MUTEX_UNLOCKED"
      /\ \A i \in 0..LastMutex : i # 0 => mutexStatus'[i] = mutexStatus[i]
      /\ \A b : b \in blockedThreads' <=> b \in blockedThreads /\ b[2] # 0
      /\ \A u : Blocked(u)' => Blocked(u)
  BY <1>1, <1>4, MutexUpFacts
<1>6. SetUpInv'
  BY <1>3, <1>5, SetUpStays
<1>7. PhiloTypes'
  BY <1>1 DEF PhiloTypes, PhiloGoes, PhiloStatement
<1>8. /\ call'[t] = "takeForks"
      /\ \A u \in Philosopher : u # t => call'[u] = call[u]
  BY <1>1 DEF PhiloTypes
<1>9. ThreadInv'
  BY <1>1, <1>3, <1>8 DEF ThreadInv, Checking
<1>10. CounterInv'
  <2>1. Numbered' = Numbered
    BY <1>3 DEF Numbered, Counting
  <2> QED BY <1>1, <2>1, CounterStays
<1>11. WaitInv'
  BY <1>1, <1>3, <1>5 DEF WaitInv
<1>12. MainInv'
  BY <1>5 DEF MainInv
<1>13. ServedInv'
  <2> SUFFICES ASSUME NEW u \in Philosopher, HasNumber(u)', Hungering(u)'
               PROVE  /\ philoState[philoId[u]] # "THINKING"
                      /\ philoState[philoId[u]] = "EATING" /\ mutexStatus'[philoId[u] + 1] = "MUTEX_LOCKED"
                           => \E c \in Philosopher : Serves(c, philoId[u])'
    BY <1>1 DEF ServedInv
  <2>1. HasNumber(u) /\ Hungering(u)
    BY <1>1, <1>3, <1>5, <1>8 DEF HasNumber, Hungering, Checking
  <2>2. philoId[u] + 1 \in 0..LastMutex /\ philoId[u] + 1 # 0
    BY <1>3, <2>1, NumberIsPhilosopher DEF HasNumber
  <2>3. \A c \in Philosopher : Serves(c, philoId[u]) => Serves(c, philoId[u])'
    BY <1>1, <1>3 DEF Serves
  <2> QED BY <1>5, <2>1, <2>2, <2>3 DEF ServedInv
<1>14. HungryInv'
  <2>1. \A c \in Philosopher : Checks(c) => Checks(c)'
    BY <1>1, <1>3 DEF Checks
  <2> QED BY <1>1, <1>3, <2>1 DEF HungryInv
<1> QED BY <1>6, <1>7, <1>9, <1>10, <1>11, <1>12, <1>13, <1>14

LEMMA DownMainDines ==
  ASSUME DiningInv, NEW t \in Philosopher, DownMain(t)
  PROVE  DiningInv'
<1> USE DEF DiningInv
<1>1. /\ PhiloGoes(t, "downMain", "setState")
      /\ mutexDown(t, mainMutexId)
      /\ UNCHANGED <<auxCounter, philoState, call, philoId, counterRead, toCheck>>
  BY DEF DownMain, CallsMutex
<1>2. "downMain" \in PhiloStatement \ {"none"}
  BY DEF PhiloStatement
<1>3. /\ philoAt[t] = "downMain" /\ philoAt'[t] = "setState"
      /\ \A u \in Philosopher : u # t => philoAt'[u] = philoAt[u]
      /\ \A b \in blockedThreads : b[3] # t
      /\ UNCHANGED <<mainMutexId, philoMutexId, setUp, LastMutex>>
      /\ setUp[1] \in Nat /\ LastMutex \in Nat
      /\ philoId[t] \in Philosopher
  BY <1>1, <1>2, PhiloMoves
<1>4. mainMutexId = 0 /\ 0 \in 0..LastMutex
  BY <1>3 DEF SetUpInv
<1>5. /\ mutexStatus' \in [0..LastMutex -> {"MUTEX_LOCKED", "MUTEX_UNLOCKED"}]
      /\ mutexStatus'[0] = "MUTEX_LOCKED"
      /\ \A i \in 0..LastMutex : i # 0 => mutexStatus'[i] = mutexStatus[i]
      /\ mutexStatus[0] = "MUTEX_LOCKED" => blockedThreads' = blockedThreads \cup {<<"mutex", 0, t>>}
      /\ mutexStatus[0] # "MUTEX_LOCKED" => blockedThreads' = blockedThreads
      /\ \A u : u # t => Blocked(u)' = Blocked(u)
  BY <1>1, <1>4, MutexDownFacts
<1>6. \A b \in blockedThreads' : b \in blockedThreads \/ b = <<"mutex", 0, t>>
  BY <1>5
<1>7. SetUpInv'
  BY <1>3, <1>5, SetUpStays
<1>8. PhiloTypes'
  BY <1>1 DEF PhiloTypes, PhiloGoes, PhiloStatement
<1>9. ThreadInv'
  BY <1>1, <1>3 DEF ThreadInv, Checking
<1>10. CounterInv'
  <2>1. Numbered' = Numbered
    BY <1>3 DEF Numbered, Counting
  <2> QED BY <1>1, <2>1, CounterStays
<1>11. WaitInv'
  <2> SUFFICES ASSUME NEW b \in blockedThreads'
               PROVE  /\ b[1] = "mutex" /\ b[2] \in 0..LastMutex
                      /\ mutexStatus'[b[2]] = "MUTEX_LOCKED"
                      /\ b[3] \in Philosopher =>
                           \/ b[2] = 0 /\ philoAt'[b[3]] = "setState"
                           \/ b[2] = philoId[b[3]] + 1 /\ philoAt'[b[3]] = "downMain"
    BY <1>1, <1>3 DEF WaitInv
  <2>1. CASE b \in blockedThreads
    BY <1>3, <1>5, <2>1 DEF WaitInv
  <2>2. CASE b = <<"mutex", 0, t>>
    BY <1>3, <1>4, <1>5, <2>2
  <2> QED BY <1>6, <2>1, <2>2
<1>12. MainInv'
  <2>1. CASE mutexStatus[0] = "MUTEX_LOCKED"
    <3>1. PICK c \in Philosopher : philoAt[c] \in Checking \cup {"setState"} /\ ~Blocked(c)
      BY <2>1 DEF MainInv
    <3>2. c # t
      BY <1>3, <3>1 DEF Checking
    <3> QED BY <1>3, <1>5, <3>1, <3>2 DEF MainInv
  <2>2. CASE mutexStatus[0] # "MUTEX_LOCKED"
    <3>1. ~Blocked(t)'
      BY <1>3, <1>5, <2>2 DEF Blocked
    <3> QED BY <1>3, <3>1 DEF MainInv
  <2> QED BY <2>1, <2>2
<1>13. ServedInv'
  <2> SUFFICES ASSUME NEW u \in Philosopher, HasNumber(u)', Hungering(u)'
               PROVE  /\ philoState[philoId[u]] # "THINKING"
                      /\ philoState[philoId[u]] = "EATING" /\ mutexStatus'[philoId[u] + 1] = "MUTEX_LOCKED"
                           => \E c \in Philosopher : Serves(c, philoId[u])'
    BY <1>1 DEF ServedInv
  <2>1. HasNumber(u)
    BY <1>1, <1>3 DEF HasNumber
  <2>2. philoId[u] + 1 \in 0..LastMutex /\ philoId[u] + 1 # 0
    BY <1>3, <2>1, NumberIsPhilosopher DEF HasNumber
  <2>3. \A b \in blockedThreads' : b[2] = philoId[u] + 1 => b \in blockedThreads
    BY <1>6, <2>2
  <2>4. Hungering(u)
    BY <1>1, <1>3, <2>3 DEF Hungering, Checking
  <2>5. \A c \in Philosopher : Serves(c, philoId[u]) => Serves(c, philoId[u])'
    BY <1>1, <1>3 DEF Serves
  <2> QED BY <1>5, <2>1, <2>2, <2>4, <2>5 DEF ServedInv
<1>14. HungryInv'
  <2>1. \A c \in Philosopher : Checks(c) => Checks(c)'
    BY <1>1, <1>3 DEF Checks, Checking
  <2> QED BY <1>1, <1>3, <2>1 DEF HungryInv
<1> QED BY <1>7, <1>8, <1>9, <1>10, <1>11, <1>12, <1>13, <1>14

LEMMA DownPhilosopherDines ==
  ASSUME DiningInv, NEW t \in Philosopher, DownPhilosopher(t)
  PROVE  DiningInv'
<1> USE DEF DiningInv
<1> DEFINE id == philoId[t] + 1
<1>1. /\ PhiloGoes(t, "downPhilosopher", "downMain")
      /\ mutexDown(t, philoMutexId[philoId[t]])
      /\ call' = [call EXCEPT ![t] = "putForks"]
      /\ UNCHANGED <<auxCounter, philoState, philoId, counterRead, toCheck>>
  BY DEF DownPhilosopher, CallsMutex
<1>2. "downPhilosopher" \in PhiloStatement \ {"none"}
  BY DEF PhiloStatement
<1>3. /\ philoAt[t] = "downPhilosopher" /\ philoAt'[t] = "downMain"
      /\ \A u \in Philosopher : u # t => philoAt'[u] = philoAt[u]
      /\ \A b \in blockedThreads : b[3] # t
      /\ UNCHANGED <<mainMutexId, philoMutexId, setUp, LastMutex>>
      /\ setUp[1] \in Nat /\ LastMutex \in Nat
      /\ philoMutexId[philoId[t]] = id /\ id \in 1..LastMutex
  BY <1>1, <1>2, PhiloMoves
<1>4. call[t] = "takeForks"
  BY <1>3 DEF ThreadInv
<1> HIDE DEF id
<1>5. /\ mutexStatus' \in [0..LastMutex -> {"MUTEX_LOCKED", "MUTEX_UNLOCKED"}]
      /\ mutexStatus'[id] = "MUTEX_LOCKED"
      /\ \A i \in 0..LastMutex : i # id => mutexStatus'[i] = mutexStatus[i]
      /\ mutexStatus[id] = "MUTEX_LOCKED" => blockedThreads' = blockedThreads \cup {<<"mutex", id, t>>}
      /\ mutexStatus[id] # "MUTEX_LOCKED" => blockedThreads' = blockedThreads
      /\ \A u : u # t => Blocked(u)' = Blocked(u)
  <2>1. id \in 0..LastMutex /\ mutexDown(t, id)
    BY <1>1, <1>3
  <2> QED BY <2>1, MutexDownFacts
<1>6. \A b \in blockedThreads' :
        b \in blockedThreads \/ (b = <<"mutex", id, t>> /\ mutexStatus[id] = "MUTEX_LOCKED")
  BY <1>5
<1>7. SetUpInv'
  BY <1>3, <1>5, SetUpStays
<1>8. PhiloTypes'
  BY <1>1 DEF PhiloTypes, PhiloGoes, PhiloStatement
<1>9. ThreadInv'
  BY <1>1, <1>3 DEF ThreadInv, Checking, PhiloTypes
<1>10. CounterInv'
  <2>1. Numbered' = Numbered
    BY <1>3 DEF Numbered, Counting
  <2> QED BY <1>1, <2>1, CounterStays
<1>11. WaitInv'
  <2> SUFFICES ASSUME NEW b \in blockedThreads'
               PROVE  /\ b[1] = "mutex" /\ b[2] \in 0..LastMutex
                      /\ mutexStatus'[b[2]] = "MUTEX_LOCKED"
                      /\ b[3] \in Philosopher =>
                           \/ b[2] = 0 /\ philoAt'[b[3]] = "setState"
                           \/ b[2] = philoId[b[3]] + 1 /\ philoAt'[b[3]] = "downMain"
    BY <1>1, <1>3 DEF WaitInv
  <2>1. CASE b \in blockedThreads
    BY <1>3, <1>5, <2>1 DEF WaitInv
  <2>2. CASE b = <<"mutex", id, t>>
    BY <1>3, <1>5, <2>2 DEF id
  <2> QED BY <1>6, <2>1, <2>2
<1>12. MainInv'
  <2>1. mutexStatus'[0] = mutexStatus[0]
    BY <1>3, <1>5
  <2>2. \A c \in Philosopher : philoAt[c] \in Checking \cup {"setState"} => c # t
    BY <1>3 DEF Checking
  <2> QED BY <1>3, <1>5, <2>1, <2>2 DEF MainInv
<1>13. ServedInv'
  <2> SUFFICES ASSUME NEW u \in Philosopher, HasNumber(u)', Hungering(u)'
               PROVE  /\ philoState[philoId[u]] # "THINKING"
                      /\ philoState[philoId[u]] = "EATING" /\ mutexStatus'[philoId[u] + 1] = "MUTEX_LOCKED"
                           => \E c \in Philosopher : Serves(c, philoId[u])'
    BY <1>1 DEF ServedInv
  <2>1. HasNumber(u)
    BY <1>1, <1>3 DEF HasNumber
  <2>2. \A c \in Philosopher : Serves(c, philoId[u]) => Serves(c, philoId[u])'
    BY <1>1, <1>3 DEF Serves
  <2>3. CASE u = t
    <3>1. Hungering(t)
      BY <1>3, <1>4 DEF Hungering
    <3>2. mutexStatus[philoId[t] + 1] = "MUTEX_LOCKED"
      <4>1. ~(philoAt'[t] \in Checking \cup {"downPhilosopher"})
        BY <1>3 DEF Checking
      <4>2. \E b \in blockedThreads' : b[3] = t
        BY <1>1, <2>3, <4>1 DEF Hungering
      <4> QED BY <1>3, <1>6, <4>2 DEF id
    <3> QED BY <2>1, <2>2, <2>3, <3>1, <3>2 DEF ServedInv
  <2>4. CASE u # t
    <3>1. philoId[u] + 1 # id /\ philoId[u] + 1 \in 0..LastMutex
      <4>1. /\ philoId[u] # philoId[t] /\ philoId[u] \in Nat /\ philoId[t] \in Nat
            /\ philoId[u] + 1 \in 1..LastMutex
        BY <1>3, <2>1, <2>4, NumberIsPhilosopher DEF HasNumber, PhiloTypes
      <4> QED BY <1>3, <4>1 DEF id
    <3>2. Hungering(u)
      BY <1>1, <1>3, <1>6, <2>4 DEF Hungering, PhiloTypes
    <3> QED BY <1>5, <2>1, <2>2, <3>1, <3>2 DEF ServedInv
  <2> QED BY <2>3, <2>4
<1>14. HungryInv'
  <2>1. \A c \in Philosopher : Checks(c) => Checks(c)'
    BY <1>1, <1>3 DEF Checks, Checking
  <2> QED BY <1>1, <1>3, <2>1 DEF HungryInv
<1> QED BY <1>7, <1>8, <1>9, <1>10, <1>11, <1>12, <1>13, <1>14

LEMMA PhilosophersDine ==
  ASSUME DiningInv, PhilosophersNext
  PROVE  DiningInv'
<1>1. CASE philosophers
  BY <1>1, SetUpMutexDines, SetUpLockDines, SetUpStateDines, SetUpThreadDines DEF philosophers
<1>2. CASE \E t \in Philosopher : philosopher(t)
  BY <1>2, ReadIdDines, ReadCounterDines, WriteCounterDines, DownMainDines, SetStateDines,
     CheckForksDines, SetEatingDines, UpPhilosopherDines, UpMainDines, DownPhilosopherDines
     DEF philosopher
<1> QED BY <1>1, <1>2 DEF PhilosophersNext

LEMMA OthersDine ==
  ASSUME DiningInv, UNCHANGED <<mutexStatus, blockedThreads, philosophersVars>>
  PROVE  DiningInv'
<1>1. UNCHANGED <<mutexStatus, blockedThreads, auxCounter, mainMutexId, philoMutexId, philoState,
                  setUp, philoAt, call, philoId, counterRead, toCheck>>
  BY DEF philosophersVars, tableVars
<1>2. LastMutex' = LastMutex /\ Numbered' = Numbered /\ (\A q \in Philosopher : Made(q)' <=> Made(q))
  BY <1>1 DEF LastMutex, Numbered, Made
<1>3. SetUpInv' /\ PhiloTypes' /\ ThreadInv' /\ WaitInv' /\ MainInv' /\ HungryInv'
  BY <1>1, <1>2
     DEF DiningInv, SetUpInv, PhiloTypes, ThreadInv, WaitInv, MainInv, HungryInv, Blocked, Checks
<1>4. CounterInv'
  BY <1>1, <1>2, CounterStays DEF DiningInv
<1>5. ServedInv'
  BY <1>1 DEF DiningInv, ServedInv, HasNumber, Hungering, Serves
<1> QED BY <1>3, <1>4, <1>5 DEF DiningInv

\* If all wait then none waits at the main mutex, for somebody would be inside; so each waits
\* at its own, and was not let eat.  They have all the numbers there are, so that all are
\* hungry, and then somebody is about to find that out.
LEMMA DiningRuns ==
  ASSUME DiningInv
  PROVE  SomePhilosopherRuns
<1> SUFFICES ASSUME \A t \in Philosopher : philoAt[t] \notin {"none", "readId"},
                    \A t, u \in Philosopher : t # u => philoId[t] # philoId[u],
                    \A t \in Philosopher : Blocked(t)
             PROVE  FALSE
  BY DEF SomePhilosopherRuns
<1> USE DEF DiningInv
<1>1. N \in Nat \ {0} /\ IsFiniteSet(Philosopher) /\ N - 1 \in Philosopher
  BY PhilosophersAssumption, FS_Interval DEF N, Philosopher
<1>2. \A t \in Philosopher : HasNumber(t)
  BY DEF HasNumber
<1>3. setUp[1] = N
  <2>1. N - 1 < setUp[1] /\ setUp[1] \in 0..N
    BY <1>1 DEF ThreadInv, SetUpInv
  <2> QED BY <1>1, <2>1
<1>4. mutexStatus[0] # "MUTEX_LOCKED"
  BY DEF MainInv
<1>5. ASSUME NEW t \in Philosopher
      PROVE  /\ philoAt[t] = "downMain" /\ Hungering(t)
             /\ mutexStatus[philoId[t] + 1] = "MUTEX_LOCKED"
  <2>1. PICK b \in blockedThreads : b[3] = t
    BY DEF Blocked
  <2>2. b[2] = philoId[t] + 1 /\ philoAt[t] = "downMain" /\ mutexStatus[b[2]] = "MUTEX_LOCKED"
    BY <1>4, <2>1 DEF WaitInv
  <2> QED BY <2>1, <2>2 DEF Hungering
<1>6. ASSUME NEW t \in Philosopher PROVE philoState[philoId[t]] = "HUNGRY"
  <2>1. philoId[t] \in Philosopher
    BY <1>2, NumberIsPhilosopher DEF HasNumber
  <2>2. philoState[philoId[t]] # "THINKING"
    BY <1>2, <1>5 DEF ServedInv
  <2>3. philoState[philoId[t]] # "EATING"
    BY <1>2, <1>5 DEF ServedInv, Serves
  <2> QED BY <2>1, <2>2, <2>3 DEF PhiloTypes
<1>7. \A p \in Philosopher : \E t \in Philosopher : philoId[t] = p
  <2>1. philoId \in [Philosopher -> Philosopher]
    BY <1>2, NumberIsPhilosopher DEF HasNumber, PhiloTypes
  <2>2. philoId \in Injection(Philosopher, Philosopher)
    BY <2>1 DEF Injection, IsInjective
  <2>3. philoId \in Surjection(Philosopher, Philosopher)
    BY <1>1, <2>2, FS_Injection
  <2> QED BY <2>3 DEF Surjection
<1>8. \A p \in Philosopher : philoState[p] = "HUNGRY"
  BY <1>6, <1>7
<1>9. PICK c \in Philosopher : Checks(c)
  BY <1>3, <1>8 DEF HungryInv
<1> QED BY <1>5, <1>9 DEF Checks, Checking

----------------------------------------------------------------------------
\* The shell starts one program; the others do nothing.
ProdConsIdle == prodcons = "ended"
DialogueIdle == \A p \in Party : talk[p] = "none"

StartedInv ==
  /\ started = "none" => SyncInit
  /\ started # "prodcons" => ProdConsIdle
  /\ started # "pipes" => DialogueIdle
  /\ started # "philosophers" => PhilosophersInit
  /\ started = "philosophers" => DiningInv

LEMMA IdleTakesNoStep ==
  /\ ProdConsIdle => ~ProdConsNext
  /\ DialogueIdle => ~DialogueNext
  /\ PhilosophersInit => ~PhilosophersNext
<1>1. ProdConsIdle => ~ProdConsNext
  <2> SUFFICES ASSUME ProdConsIdle, ProdConsNext PROVE FALSE
    OBVIOUS
  <2>1. prodcons = "ended"
    BY DEF ProdConsIdle
  <2>2. \A t, from, to : ~Goes(t, from, to)
    BY <2>1 DEF Goes
  <2>3. \A t \in DOMAIN prodconsAt : ~CreateThread(t)
    BY <2>1 DEF CreateThread
  <2>4. ~Quit
    BY <2>1 DEF Quit
  <2>5. ~producer /\ ~consumer
    BY <2>2 DEF producer, consumer, Produce, insertItem, removeItem, LockStep
  <2> QED BY <2>3, <2>4, <2>5 DEF ProdConsNext, ProducerStep, ConsumerStep, ThreadStep
<1>2. DialogueIdle => ~DialogueNext
  BY DEF DialogueIdle, DialogueNext, StartElla, Speak, createPipe, AwaitNames, send, ReceiveWaits,
         Receive, Says, Party
<1>3. PhilosophersInit => ~PhilosophersNext
  <2> SUFFICES ASSUME PhilosophersInit, PhilosophersNext PROVE FALSE
    OBVIOUS
  <2>1. \A from, to : \A t \in Philosopher : PhiloGoes(t, from, to) => from = "none"
    BY DEF PhilosophersInit, PhiloGoes
  <2>2. \A t \in Philosopher : ~philosopher(t)
    BY <2>1 DEF philosopher, ReadId, ReadCounter, WriteCounter, DownMain, SetState, CheckForks, Check,
                SetEating, UpPhilosopher, UpMain, DownPhilosopher, CallsMutex
  <2>3. ~philosophers
    BY DEF philosophers, SetUpMutex, SetUpLock, SetUpState, SetUpThread, SetUp, PhilosophersInit
  <2> QED BY <2>2, <2>3 DEF PhilosophersNext
<1> QED BY <1>1, <1>2, <1>3

\* What a step of the shell does to the programs.
LEMMA ShellSteps ==
  ASSUME ShellNext
  PROVE  \/ UNCHANGED <<demoVars, started>>
         \/ /\ started \in {"none", "prodcons"} /\ started' = "prodcons"
            /\ UNCHANGED <<philosophersVars, dialogueVars>>
         \/ /\ started \in {"none", "philosophers"} /\ started' = "philosophers"
            /\ StartPhilosophers /\ UNCHANGED <<prodconsVars, dialogueVars>>
         \/ /\ started \in {"none", "pipes"} /\ started' = "pipes"
            /\ StartDialogue /\ UNCHANGED <<prodconsVars, philosophersVars>>
         \/ ProdConsNext /\ UNCHANGED <<philosophersVars, dialogueVars, started>>
         \/ PhilosophersNext /\ UNCHANGED <<prodconsVars, dialogueVars, started>>
         \/ DialogueNext /\ UNCHANGED <<prodconsVars, philosophersVars, started>>
<1>1. CASE shell
  <2>1. CASE \E c \in Word : TypeWord(c)
    BY <2>1 DEF TypeWord
  <2>2. CASE Backspace
    BY <2>2 DEF Backspace
  <2>3. CASE Enter
    BY <2>3 DEF Enter, processComand, run, NewShell
  <2>4. CASE EnterPastBuffer
    BY <2>4 DEF EnterPastBuffer
  <2> QED BY <1>1, <2>1, <2>2, <2>3, <2>4 DEF shell
<1>2. CASE Demos
  BY <1>2 DEF Demos, shellVars
<1> QED BY <1>1, <1>2 DEF ShellNext

LEMMA StartedInvHolds == ShellSpec => []StartedInv
<1>1. ShellInit => StartedInv
  BY DEF ShellInit, StartedInv, ProdConsInit, DialogueInit, ProdConsIdle, DialogueIdle, Party
<1>2. ASSUME StartedInv, [ShellNext]_<<demoVars, shellVars>> PROVE StartedInv'
  <2>1. CASE UNCHANGED <<demoVars, started>>
    <3>1. UNCHANGED <<syncVars, prodconsVars, philosophersVars, dialogueVars, started>>
      BY <2>1 DEF demoVars
    <3>2. SyncInit' = SyncInit /\ ProdConsIdle' = ProdConsIdle /\ DialogueIdle' = DialogueIdle
      BY <3>1 DEF SyncInit, syncVars, ProdConsIdle, prodconsVars, DialogueIdle, dialogueVars
    <3>3. PhilosophersInit' = PhilosophersInit
      BY <3>1 DEF PhilosophersInit, philosophersVars, tableVars
    <3>4. DiningInv => DiningInv'
      BY <3>1, OthersDine DEF syncVars
    <3> QED BY <1>2, <3>1, <3>2, <3>3, <3>4 DEF StartedInv
  <2>2. CASE /\ started \in {"none", "prodcons"} /\ started' = "prodcons"
             /\ UNCHANGED <<philosophersVars, dialogueVars>>
    BY <1>2, <2>2
       DEF StartedInv, DialogueIdle, dialogueVars, PhilosophersInit, philosophersVars, tableVars
  <2>3. CASE /\ started \in {"none", "philosophers"} /\ started' = "philosophers"
             /\ StartPhilosophers /\ UNCHANGED <<prodconsVars, dialogueVars>>
    <3>1. ProdConsIdle' /\ DialogueIdle'
      BY <1>2, <2>3 DEF StartedInv, ProdConsIdle, prodconsVars, DialogueIdle, dialogueVars
    <3>2. started # "philosophers"
      <4>1. setUp = <<0, "ended">>
        BY <2>3 DEF StartPhilosophers
      <4> QED BY <1>2, <4>1 DEF StartedInv, DiningInv, SetUpInv
    <3>3. DiningInv'
      BY <1>2, <2>3, <3>2, StartDines DEF StartedInv
    <3> QED BY <2>3, <3>1, <3>3 DEF StartedInv
  <2>4. CASE /\ started \in {"none", "pipes"} /\ started' = "pipes"
             /\ StartDialogue /\ UNCHANGED <<prodconsVars, philosophersVars>>
    BY <1>2, <2>4
       DEF StartedInv, ProdConsIdle, prodconsVars, PhilosophersInit, philosophersVars, tableVars
  <2>5. CASE ProdConsNext /\ UNCHANGED <<philosophersVars, dialogueVars, started>>
    BY <1>2, <2>5, IdleTakesNoStep
       DEF StartedInv, DialogueIdle, dialogueVars, PhilosophersInit, philosophersVars, tableVars
  <2>6. CASE PhilosophersNext /\ UNCHANGED <<prodconsVars, dialogueVars, started>>
    <3>1. started = "philosophers" /\ DiningInv'
      BY <1>2, <2>6, IdleTakesNoStep, PhilosophersDine DEF StartedInv
    <3>2. ProdConsIdle' /\ DialogueIdle'
      BY <1>2, <2>6, <3>1 DEF StartedInv, ProdConsIdle, prodconsVars, DialogueIdle, dialogueVars
    <3> QED BY <2>6, <3>1, <3>2 DEF StartedInv
  <2>7. CASE DialogueNext /\ UNCHANGED <<prodconsVars, philosophersVars, started>>
    BY <1>2, <2>7, IdleTakesNoStep
       DEF StartedInv, ProdConsIdle, prodconsVars, PhilosophersInit, philosophersVars, tableVars
  <2>8. CASE UNCHANGED <<demoVars, shellVars>>
    BY <2>1, <2>8 DEF shellVars
  <2> QED BY <1>2, <2>1, <2>2, <2>3, <2>4, <2>5, <2>6, <2>7, <2>8, ShellSteps
<1> QED BY <1>1, <1>2, PTL DEF ShellSpec

\* For every number of philosophers that have a number each: they are never all asleep,
\* whatever the timer does between the statements of philosopher(), checkForks() and the
\* main thread, although the mutex around the states lets several of them in
\* (shell.c:112-178).
THEOREM PhilosophersNeverAllWait == ShellSpec => []SomePhilosopherRuns
<1>1. StartedInv => SomePhilosopherRuns
  <2>1. CASE PhilosophersInit
    <3>1. 0 \in Philosopher
      BY PhilosophersAssumption DEF Philosopher
    <3> QED BY <2>1, <3>1 DEF PhilosophersInit, SomePhilosopherRuns
  <2> QED BY <2>1, DiningRuns DEF StartedInv
<1> QED BY <1>1, StartedInvHolds, PTL

----------------------------------------------------------------------------
\* The line of the shell.  Until a key goes past the buffer, what is on the screen is what
\* is in the buffer before place; behind place there may be anything.
Content == Word \cup {NUL, "junk"}

LineInv ==
  shellState = "running" =>
    /\ place \in 0..LINE_SIZE
    /\ line \in [0..(LINE_SIZE - 1) -> Content]
    /\ shown \in Seq(Word) /\ Len(shown) = place
    /\ \A i \in 1..place : line[i - 1] = shown[i]

LEMMA TypeWordKeepsLine ==
  ASSUME LineInv, NEW c \in Word, TypeWord(c)
  PROVE  LineInv'
<1>1. /\ shellState = "running" /\ place' = place + 1 /\ shown' = Append(shown, c)
      /\ IF place < LINE_SIZE
         THEN line' = [line EXCEPT ![place] = c] /\ UNCHANGED shellState
         ELSE shellState' = "smashed" /\ UNCHANGED line
  BY DEF TypeWord, GetChar
<1>2. SUFFICES ASSUME shellState' = "running" PROVE LineInv'
  BY DEF LineInv
<1>3. place < LINE_SIZE /\ line' = [line EXCEPT ![place] = c]
  BY <1>1, <1>2
<1>4. LINE_SIZE \in Nat \ {0} /\ place \in 0..(LINE_SIZE - 1) /\ place \in Nat
  BY <1>1, <1>3, ShellAssumption DEF LineInv
<1>5. line' \in [0..(LINE_SIZE - 1) -> Content]
  BY <1>1, <1>3, <1>4 DEF LineInv, Content
<1>6. shown' \in Seq(Word) /\ Len(shown') = place'
  BY <1>1, <1>4 DEF LineInv
<1>7. ASSUME NEW i \in 1..place' PROVE line'[i - 1] = shown'[i]
  <2>1. shown \in Seq(Word) /\ Len(shown) = place /\ line \in [0..(LINE_SIZE - 1) -> Content]
    BY <1>1 DEF LineInv
  <2>2. CASE i = place + 1
    BY <1>1, <1>3, <1>4, <2>1, <2>2
  <2>3. CASE i \in 1..place
    <3>1. line[i - 1] = shown[i] /\ i - 1 # place /\ i - 1 \in 0..(LINE_SIZE - 1)
      BY <1>1, <1>4, <2>3 DEF LineInv
    <3> QED BY <1>1, <1>3, <1>4, <2>1, <2>3, <3>1
  <2>4. i = place + 1 \/ i \in 1..place
    <3>1. i \in 1..(place + 1)
      BY <1>1
    <3> QED BY <1>4, <3>1
  <2> QED BY <2>2, <2>3, <2>4
<1> QED BY <1>1, <1>4, <1>5, <1>6, <1>7 DEF LineInv

LEMMA BackspaceKeepsLine ==
  ASSUME LineInv, Backspace
  PROVE  LineInv'
<1>1. /\ shellState = "running" /\ UNCHANGED <<line, shellState>>
      /\ place' = IF place > 0 THEN place - 1 ELSE place
      /\ shown' = IF place > 0 THEN SubSeq(shown, 1, Len(shown) - 1) ELSE shown
  BY DEF Backspace, GetChar
<1>2. /\ place \in 0..LINE_SIZE /\ LINE_SIZE \in Nat
      /\ shown \in Seq(Word) /\ Len(shown) = place
      /\ \A i \in 1..place : line[i - 1] = shown[i]
  BY <1>1, ShellAssumption DEF LineInv
<1>3. CASE place > 0
  <2>1. /\ place' \in 0..LINE_SIZE /\ shown' = SubSeq(shown, 1, place - 1) /\ place' = place - 1
    BY <1>1, <1>2, <1>3
  <2>2. /\ shown' \in Seq(Word) /\ Len(shown') = place - 1
        /\ \A i \in 1..(place - 1) : shown'[i] = shown[i]
    BY <1>2, <1>3, <2>1
  <2> QED BY <1>1, <1>2, <2>1, <2>2 DEF LineInv
<1>4. CASE ~(place > 0)
  BY <1>1, <1>2, <1>4 DEF LineInv
<1> QED BY <1>3, <1>4

\* No word is a NUL, so that the string ends where the line does.
LEMMA CommandIsShown ==
  ASSUME LineInv, Enter
  PROVE  cString(terminated) = shown
<1>1. /\ LINE_SIZE \in Nat \ {0} /\ place \in 0..(LINE_SIZE - 1) /\ place \in Nat
      /\ line \in [0..(LINE_SIZE - 1) -> Content]
      /\ shown \in Seq(Word) /\ Len(shown) = place
      /\ \A i \in 1..place : line[i - 1] = shown[i]
  BY ShellAssumption DEF LineInv, Enter, GetChar
<1> DEFINE buff == terminated
<1>2. /\ DOMAIN buff = 0..(LINE_SIZE - 1) /\ buff[place] = NUL
      /\ \A k \in 0..(LINE_SIZE - 1) : k # place => buff[k] = line[k]
  BY <1>1 DEF terminated
<1>3. \A k \in 0..(place - 1) : buff[k] = shown[k + 1] /\ buff[k] # NUL
  <2> SUFFICES ASSUME NEW k \in 0..(place - 1) PROVE buff[k] = shown[k + 1] /\ buff[k] # NUL
    OBVIOUS
  <2>1. k \in 0..(LINE_SIZE - 1) /\ k # place /\ k + 1 \in 1..place
    BY <1>1
  <2>2. buff[k] = line[k] /\ line[(k + 1) - 1] = shown[k + 1] /\ (k + 1) - 1 = k
    BY <1>1, <1>2, <2>1
  <2>3. shown[k + 1] \in Word
    BY <1>1, <2>1
  <2> QED BY <2>2, <2>3 DEF Word, NUL
<1> HIDE DEF buff
<1> DEFINE Ends == {k \in DOMAIN buff : buff[k] = NUL} \cup {LINE_SIZE}
           end == CHOOSE k \in Ends : \A j \in Ends : k <= j
<1>4. end = place
  <2>1. place \in Ends
    BY <1>1, <1>2
  <2>2. \A j \in Ends : place <= j /\ j \in Nat
    <3> SUFFICES ASSUME NEW j \in Ends PROVE place <= j /\ j \in Nat
      OBVIOUS
    <3>1. CASE j = LINE_SIZE
      BY <1>1, <3>1
    <3>2. CASE j \in 0..(LINE_SIZE - 1) /\ buff[j] = NUL
      BY <1>1, <1>3, <3>2
    <3> QED BY <1>2, <3>1, <3>2
  <2> HIDE DEF Ends
  <2>3. end \in Ends /\ \A j \in Ends : end <= j
    BY <2>1, <2>2
  <2> HIDE DEF end
  <2> QED BY <1>1, <2>1, <2>2, <2>3
<1>5. cString(buff) = [k \in 1..end |-> buff[k - 1]]
  BY DEF cString
<1> HIDE DEF end
<1>6. \A k \in 1..place : buff[k - 1] = shown[k]
  <2> SUFFICES ASSUME NEW k \in 1..place PROVE buff[k - 1] = shown[k]
    OBVIOUS
  <2>1. k - 1 \in 0..(place - 1) /\ (k - 1) + 1 = k
    BY <1>1
  <2> QED BY <1>3, <2>1
<1>7. shown = [k \in 1..place |-> shown[k]]
  BY <1>1
<1> QED BY <1>4, <1>5, <1>6, <1>7 DEF buff

LEMMA EnterKeepsLine ==
  ASSUME LineInv, Enter
  PROVE  LineInv'
<1>1. /\ shellState = "running" /\ place < LINE_SIZE
      /\ place' = 0 /\ shown' = <<>> /\ UNCHANGED shellState
      /\ line' = terminated \/ line' = Uninitialised
  BY DEF Enter, GetChar, processComand, NewShell
<1>2. LINE_SIZE \in Nat \ {0} /\ line \in [0..(LINE_SIZE - 1) -> Content]
  BY <1>1, ShellAssumption DEF LineInv
<1>3. terminated \in [0..(LINE_SIZE - 1) -> Content]
  BY <1>2 DEF terminated, Content
<1>4. Uninitialised \in [0..(LINE_SIZE - 1) -> Content]
  BY DEF Uninitialised, Content
<1> QED BY <1>1, <1>2, <1>3, <1>4 DEF LineInv

\* The command that is run is the line that is seen, in a buffer of any size, whatever was
\* typed and erased before and whatever earlier lines left in it (shell.c:73-94).
THEOREM LineIsRead == ShellSpec => CommandIsWhatIsSeen
<1>1. ShellInit => LineInv
  <2>1. LINE_SIZE \in Nat
    BY ShellAssumption
  <2>2. Uninitialised \in [0..(LINE_SIZE - 1) -> Content]
    BY DEF Uninitialised, Content
  <2> QED BY <2>1, <2>2 DEF ShellInit, LineInv
<1>2. ASSUME LineInv, [ShellNext]_<<demoVars, shellVars>> PROVE LineInv'
  <2>1. CASE shell
    <3>1. EnterPastBuffer => LineInv'
      BY DEF EnterPastBuffer, LineInv
    <3> QED BY <1>2, <2>1, <3>1, TypeWordKeepsLine, BackspaceKeepsLine, EnterKeepsLine DEF shell
  <2>2. CASE Demos \/ UNCHANGED <<demoVars, shellVars>>
    <3>1. UNCHANGED <<line, place, shown, shellState>>
      BY <2>2 DEF Demos, shellVars, lineVars
    <3> QED BY <1>2, <3>1 DEF LineInv
  <2> QED BY <1>2, <2>1, <2>2 DEF ShellNext
<1>3. LineInv => (Enter => cString(terminated) = shown)
  BY CommandIsShown
<1> QED BY <1>1, <1>2, <1>3, PTL DEF ShellSpec, CommandIsWhatIsSeen

----------------------------------------------------------------------------
\* Induction and recursion over a measure.
\* A set of numbers has a least one.
LEMMA LeastNumber ==
  ASSUME NEW S \in SUBSET Nat, S # {}
  PROVE  \E n \in S : \A m \in S : n <= m
<1> DEFINE R == {ss \in Nat \X Nat : ss[1] < ss[2]}
<1>1. OpToRel(<, Nat) = R
  BY DEF OpToRel
<1>2. IsWellFoundedOn(R, Nat)
  BY <1>1, NatLessThanWellFounded
<1>3. \A m, n \in Nat : m < n => <<m, n>> \in R
  OBVIOUS
<1> HIDE DEF R
<1>4. PICK n \in S : \A m \in S : ~(<<m, n>> \in R)
  BY <1>2, WFMin
<1>5. \A m \in S : ~(m < n)
  BY <1>3, <1>4
<1> QED BY <1>5

\* What holds of everything that measures less than a holds of a.
IsInductive(S, A, measure) ==
  \A a \in A : (\A b \in A : measure[b] < measure[a] => b \in S) => a \in S

\* Induction over a measure, about a set rather than about an operator.
LEMMA MeasureInduction ==
  ASSUME NEW A, NEW measure, measure \in [A -> Nat], NEW S, IsInductive(S, A, measure)
  PROVE  A \subseteq S
<1> USE DEF IsInductive
<1> DEFINE M == {n \in Nat : \E a \in A : a \notin S /\ measure[a] = n}
<1> SUFFICES ASSUME M # {} PROVE FALSE
  OBVIOUS
<1>1. M \in SUBSET Nat
  OBVIOUS
<1>2. PICK n \in M : \A m \in M : n <= m
  BY <1>1, LeastNumber
<1>3. PICK a \in A : a \notin S /\ measure[a] = n
  OBVIOUS
<1>4. PICK b \in A : measure[b] < measure[a] /\ b \notin S
  BY <1>3
<1>5. measure[b] \in M
  BY <1>4
<1> QED BY <1>2, <1>3, <1>4, <1>5

\* A recursion on one smaller argument, up to arguments of measure 0.
IsRecursion(A, V, measure, base, smaller, combine) ==
  /\ measure \in [A -> Nat] /\ base \in V
  /\ smaller \in [A -> A] /\ combine \in [A \X V -> V]
  /\ \A a \in A : measure[a] # 0 => measure[smaller[a]] < measure[a]

Solves(f, A, measure, base, smaller, combine) ==
  \A a \in A : f[a] = IF measure[a] = 0 THEN base ELSE combine[<<a, f[smaller[a]]>>]

\* Such a recursion defines a function: a part of it for every measure, any two of which
\* agree.
LEMMA RecursiveFunction ==
  ASSUME NEW A, NEW V, NEW measure, NEW base, NEW smaller, NEW combine,
         IsRecursion(A, V, measure, base, smaller, combine)
  PROVE  \E f \in [A -> V] : Solves(f, A, measure, base, smaller, combine)
<1> USE DEF IsRecursion
<1> DEFINE Upto(n) == {a \in A : measure[a] <= n}
           Good(n, f) == /\ f \in [Upto(n) -> V]
                         /\ \A a \in Upto(n) :
                              f[a] = IF measure[a] = 0 THEN base ELSE combine[<<a, f[smaller[a]]>>]
<1>1. ASSUME NEW n \in Nat, NEW a \in Upto(n), measure[a] # 0
      PROVE  smaller[a] \in Upto(n) /\ measure[smaller[a]] < n /\ measure[smaller[a]] < measure[a]
  <2>1. measure[a] \in Nat /\ smaller[a] \in A /\ measure[smaller[a]] \in Nat /\ measure[a] <= n
    OBVIOUS
  <2>2. measure[smaller[a]] < measure[a]
    BY <1>1
  <2> QED BY <2>1, <2>2
<1>2. \A n \in Nat : \E f : Good(n, f)
  <2> DEFINE S == {n \in Nat : \E f : Good(n, f)}
             id == [n \in Nat |-> n]
  <2>1. ASSUME NEW n \in Nat, \A m \in Nat : m < n => m \in S PROVE n \in S
    <3>1. CASE n = 0
      <4> DEFINE f == [a \in Upto(0) |-> base]
      <4>1. \A a \in Upto(0) : measure[a] = 0
        OBVIOUS
      <4>2. Good(0, f)
        BY <4>1
      <4> QED BY <3>1, <4>2
    <3>2. CASE n # 0
      <4>1. n - 1 \in S
        <5>1. n - 1 \in Nat /\ n - 1 < n
          BY <3>2
        <5> HIDE DEF S
        <5> QED BY <2>1, <5>1
      <4>2. PICK g : Good(n - 1, g)
        BY <4>1
      <4> DEFINE f == [a \in Upto(n) |->
                         IF measure[a] = 0 THEN base ELSE combine[<<a, g[smaller[a]]>>]]
      <4>3. ASSUME NEW a \in Upto(n), measure[a] # 0
            PROVE  smaller[a] \in Upto(n - 1) /\ g[smaller[a]] \in V
        <5>1. measure[smaller[a]] < n /\ measure[smaller[a]] \in Nat /\ smaller[a] \in A
          BY <1>1, <4>3
        <5> QED BY <4>2, <5>1
      <4>4. f \in [Upto(n) -> V]
        <5>1. ASSUME NEW a \in Upto(n)
              PROVE  (IF measure[a] = 0 THEN base ELSE combine[<<a, g[smaller[a]]>>]) \in V
          BY <4>3, <5>1
        <5> QED BY <5>1
      <4>5. \A a \in Upto(n - 1) : a \in Upto(n) /\ f[a] = g[a]
        <5> SUFFICES ASSUME NEW a \in Upto(n - 1) PROVE a \in Upto(n) /\ f[a] = g[a]
          OBVIOUS
        <5>1. a \in Upto(n)
          OBVIOUS
        <5> QED BY <4>2, <5>1
      <4>6. ASSUME NEW a \in Upto(n)
            PROVE  f[a] = IF measure[a] = 0 THEN base ELSE combine[<<a, f[smaller[a]]>>]
        BY <4>3, <4>5, <4>6
      <4>7. Good(n, f)
        BY <4>4, <4>6
      <4> QED BY <4>7
    <3> QED BY <3>1, <3>2
  <2> HIDE DEF S
  <2>2. \A n \in Nat : (\A m \in Nat : id[m] < id[n] => m \in S) => n \in S
    BY <2>1
  <2>3. id \in [Nat -> Nat]
    OBVIOUS
  <2>4. Nat \subseteq S
    <3>1. IsInductive(S, Nat, id)
      BY <2>2 DEF IsInductive
    <3> HIDE DEF id
    <3> QED BY <2>3, <3>1, MeasureInduction
  <2> QED BY <2>4 DEF S
<1>3. ASSUME NEW n \in Nat, NEW m \in Nat, NEW f, NEW g, Good(n, f), Good(m, g)
      PROVE  \A a \in A : measure[a] <= n /\ measure[a] <= m => f[a] = g[a]
  <2> DEFINE S == {a \in A : measure[a] <= n /\ measure[a] <= m => f[a] = g[a]}
  <2>1. ASSUME NEW a \in A, \A b \in A : measure[b] < measure[a] => b \in S PROVE a \in S
    <3> SUFFICES ASSUME measure[a] <= n, measure[a] <= m PROVE f[a] = g[a]
      OBVIOUS
    <3>1. a \in Upto(n) /\ a \in Upto(m)
      OBVIOUS
    <3>2. CASE measure[a] = 0
      BY <1>3, <3>1, <3>2
    <3>3. CASE measure[a] # 0
      <4>1. smaller[a] \in Upto(n) /\ smaller[a] \in Upto(m) /\ measure[smaller[a]] < measure[a]
        BY <1>1, <3>1, <3>3
      <4>2. f[smaller[a]] = g[smaller[a]]
        BY <2>1, <4>1
      <4>3. f[a] = combine[<<a, f[smaller[a]]>>]
        BY <1>3, <3>1, <3>3
      <4>4. g[a] = combine[<<a, g[smaller[a]]>>]
        BY <1>3, <3>1, <3>3
      <4> QED BY <4>2, <4>3, <4>4
    <3> QED BY <3>2, <3>3
  <2> HIDE DEF S
  <2>2. A \subseteq S
    BY <2>1, MeasureInduction DEF IsInductive
  <2> QED BY <2>2 DEF S
<1> DEFINE part(n) == CHOOSE f : Good(n, f)
           F == [a \in A |-> part(measure[a])[a]]
<1>4. \A n \in Nat : Good(n, part(n))
  BY <1>2
<1>5. ASSUME NEW a \in A
      PROVE  F[a] \in V /\ F[a] = IF measure[a] = 0 THEN base ELSE combine[<<a, F[smaller[a]]>>]
  <2>1. measure[a] \in Nat /\ a \in Upto(measure[a]) /\ Good(measure[a], part(measure[a]))
    <3>1. measure[a] \in Nat /\ a \in Upto(measure[a])
      OBVIOUS
    <3> HIDE DEF Good, part
    <3> QED BY <1>4, <3>1
  <2>2. CASE measure[a] = 0
    BY <2>1, <2>2
  <2>3. CASE measure[a] # 0
    <3>1. /\ smaller[a] \in A /\ measure[smaller[a]] \in Nat
          /\ measure[smaller[a]] < measure[a]
      BY <2>3
    <3>2. Good(measure[smaller[a]], part(measure[smaller[a]]))
      BY <1>4, <3>1
    <3>3. F[smaller[a]] = part(measure[a])[smaller[a]]
      <4> HIDE DEF Good, part
      <4>1. part(measure[smaller[a]])[smaller[a]] = part(measure[a])[smaller[a]]
        BY <1>3, <2>1, <3>1, <3>2
      <4> QED BY <3>1, <4>1
    <3> QED BY <2>1, <2>3, <3>3
  <2> QED BY <2>2, <2>3
<1> HIDE DEF F
<1>6. F \in [A -> V]
  BY <1>5 DEF F
<1> QED BY <1>5, <1>6 DEF Solves

----------------------------------------------------------------------------
\* The names of pipes.
Digit == 0..9

\* The last digit of a number and what is before it.
LEMMA Digits ==
  ASSUME NEW v \in Nat
  PROVE  \E d \in Nat, m \in Digit :
           d = v \div 10 /\ m = v % 10 /\ v = 10 * d + m /\ (v # 0 => d < v)
<1>1. PICK d, m : d = v \div 10 /\ m = v % 10
  OBVIOUS
<1>2. d \in Nat /\ m \in Digit /\ v = 10 * d + m
  BY <1>1 DEF Digit
<1>3. v # 0 => d < v
  BY <1>2 DEF Digit
<1> QED BY <1>1, <1>2, <1>3

\* itoa is the function its recursion reads as.
LEMMA ItoaStep ==
  /\ itoa \in [Nat -> Seq(Digit)]
  /\ \A v \in Nat : itoa[v] = IF v = 0 THEN <<>> ELSE Append(itoa[v \div 10], v % 10)
<1> DEFINE id == [v \in Nat |-> v]
           tenth == [v \in Nat |-> v \div 10]
           combine == [x \in Nat \X Seq(Digit) |-> Append(x[2], x[1] % 10)]
<1>1. id \in [Nat -> Nat] /\ tenth \in [Nat -> Nat] /\ <<>> \in Seq(Digit)
  BY Digits
<1>2. combine \in [Nat \X Seq(Digit) -> Seq(Digit)]
  <2> SUFFICES ASSUME NEW x \in Nat \X Seq(Digit) PROVE Append(x[2], x[1] % 10) \in Seq(Digit)
    OBVIOUS
  <2>1. x[1] \in Nat /\ x[2] \in Seq(Digit)
    OBVIOUS
  <2> QED BY <2>1, Digits
<1>3. \A v \in Nat : id[v] # 0 => id[tenth[v]] < id[v]
  BY Digits
<1>4. PICK f \in [Nat -> Seq(Digit)] : Solves(f, Nat, id, <<>>, tenth, combine)
  <2> HIDE DEF id, tenth, combine
  <2>1. IsRecursion(Nat, Seq(Digit), id, <<>>, tenth, combine)
    BY <1>1, <1>2, <1>3 DEF IsRecursion
  <2> QED BY <2>1, RecursiveFunction
<1>5. ASSUME NEW v \in Nat
      PROVE  f[v] = IF v = 0 THEN <<>> ELSE Append(f[v \div 10], v % 10)
  <2>1. v \div 10 \in Nat /\ f[v \div 10] \in Seq(Digit)
    BY Digits
  <2> QED BY <1>4, <2>1 DEF Solves
<1>6. f = [value \in Nat |-> IF value = 0 THEN <<>> ELSE Append(f[value \div 10], value % 10)]
  BY <1>5
<1>7. itoa = [value \in Nat |-> IF value = 0 THEN <<>> ELSE Append(itoa[value \div 10], value % 10)]
  BY <1>6, Zenon DEF itoa
<1> HIDE DEF id, tenth, combine
<1> DEFINE S == {v \in Nat : itoa[v] \in Seq(Digit)}
<1>8. ASSUME NEW v \in Nat, \A k \in Nat : id[k] < id[v] => k \in S
      PROVE  v \in S
  <2>1. itoa[v] = IF v = 0 THEN <<>> ELSE Append(itoa[v \div 10], v % 10)
    BY <1>7
  <2>2. v # 0 => itoa[v \div 10] \in Seq(Digit)
    BY <1>8, Digits DEF id
  <2>3. CASE v = 0
    BY <1>1, <2>1, <2>3
  <2>4. CASE v # 0
    <3>1. PICK d \in Nat, m \in Digit : d = v \div 10 /\ m = v % 10
      BY Digits
    <3>2. itoa[v] = Append(itoa[d], m) /\ itoa[d] \in Seq(Digit)
      BY <2>1, <2>2, <2>4, <3>1
    <3> DEFINE rest == itoa[d]
    <3>3. rest \in Seq(Digit)
      BY <3>2
    <3> HIDE DEF rest
    <3>4. Append(rest, m) \in Seq(Digit)
      BY <3>3
    <3> QED BY <3>2, <3>4 DEF rest
  <2> QED BY <2>3, <2>4
<1>9. Nat \subseteq S
  <2> HIDE DEF S
  <2>1. IsInductive(S, Nat, id)
    BY <1>8, Zenon DEF IsInductive
  <2> QED BY <1>1, <2>1, MeasureInduction
<1> QED BY <1>7, <1>9

\* So is number.
LEMMA NumberStep ==
  /\ number \in [Seq(Digit) -> Nat]
  /\ \A s \in Seq(Digit) :
       number[s] = IF s = <<>> THEN 0 ELSE 10 * number[SubSeq(s, 1, Len(s) - 1)] + s[Len(s)]
<1> DEFINE length == [s \in Seq(Digit) |-> Len(s)]
           front == [s \in Seq(Digit) |-> IF s = <<>> THEN s ELSE SubSeq(s, 1, Len(s) - 1)]
           combine == [x \in Seq(Digit) \X Nat |-> IF x[1] = <<>> THEN 0 ELSE 10 * x[2] + x[1][Len(x[1])]]
<1>1. ASSUME NEW s \in Seq(Digit), s # <<>>
      PROVE  /\ SubSeq(s, 1, Len(s) - 1) \in Seq(Digit) /\ Len(s) # 0
             /\ Len(SubSeq(s, 1, Len(s) - 1)) = Len(s) - 1
             /\ s[Len(s)] \in Nat
  <2>1. Len(s) \in Nat \ {0} /\ s[Len(s)] \in Digit
    BY <1>1
  <2>2. \A d \in Digit : d \in Nat
    BY DEF Digit
  <2>3. /\ SubSeq(s, 1, Len(s) - 1) \in Seq(Digit)
        /\ Len(SubSeq(s, 1, Len(s) - 1)) = Len(s) - 1
    <3>1. PICK n : n = Len(s) - 1
      OBVIOUS
    <3>2. n \in Nat /\ \A i \in 1..n : s[i] \in Digit
      BY <2>1, <3>1
    <3>3. SubSeq(s, 1, n) \in Seq(Digit) /\ Len(SubSeq(s, 1, n)) = (IF 1 <= n THEN n - 1 + 1 ELSE 0)
      BY <3>2, SubSeqProperties
    <3> QED BY <3>1, <3>2, <3>3
  <2> QED BY <2>1, <2>2, <2>3
<1>2. length \in [Seq(Digit) -> Nat] /\ front \in [Seq(Digit) -> Seq(Digit)]
  BY <1>1
<1>3. combine \in [Seq(Digit) \X Nat -> Nat]
  <2> SUFFICES ASSUME NEW x \in Seq(Digit) \X Nat
               PROVE  (IF x[1] = <<>> THEN 0 ELSE 10 * x[2] + x[1][Len(x[1])]) \in Nat
    OBVIOUS
  <2> QED BY <1>1
<1>4. \A s \in Seq(Digit) : length[s] # 0 => length[front[s]] < length[s]
  BY <1>1
<1>5. PICK f \in [Seq(Digit) -> Nat] : Solves(f, Seq(Digit), length, 0, front, combine)
  <2> HIDE DEF length, front, combine
  <2>1. IsRecursion(Seq(Digit), Nat, length, 0, front, combine)
    BY <1>2, <1>3, <1>4 DEF IsRecursion
  <2> QED BY <2>1, RecursiveFunction
<1>6. ASSUME NEW s \in Seq(Digit)
      PROVE  f[s] = IF s = <<>> THEN 0 ELSE 10 * f[SubSeq(s, 1, Len(s) - 1)] + s[Len(s)]
  <2>1. CASE s = <<>>
    BY <1>5, <2>1 DEF Solves
  <2>2. CASE s # <<>>
    <3>1. length[s] # 0 /\ front[s] = SubSeq(s, 1, Len(s) - 1) /\ front[s] \in Seq(Digit)
      BY <1>1, <2>2
    <3> QED BY <1>5, <2>2, <3>1 DEF Solves
  <2> QED BY <2>1, <2>2
<1>7. f = [digits \in Seq(0..9) |->
             IF digits = <<>> THEN 0
             ELSE 10 * f[SubSeq(digits, 1, Len(digits) - 1)] + digits[Len(digits)]]
  BY <1>6 DEF Digit
<1>8. number = [digits \in Seq(0..9) |->
             IF digits = <<>> THEN 0
             ELSE 10 * number[SubSeq(digits, 1, Len(digits) - 1)] + digits[Len(digits)]]
  BY <1>7, Zenon DEF number
<1> DEFINE S == {s \in Seq(Digit) : number[s] \in Nat}
<1>9. ASSUME NEW s \in Seq(Digit), \A u \in Seq(Digit) : length[u] < length[s] => u \in S
      PROVE  s \in S
  <2>1. number[s] = IF s = <<>> THEN 0 ELSE 10 * number[SubSeq(s, 1, Len(s) - 1)] + s[Len(s)]
    BY <1>8 DEF Digit
  <2>2. CASE s = <<>>
    BY <2>1, <2>2
  <2>3. CASE s # <<>>
    <3>1. SubSeq(s, 1, Len(s) - 1) \in S
      <4>1. LET u == SubSeq(s, 1, Len(s) - 1)
            IN u \in Seq(Digit) /\ length[u] < length[s]
        BY <1>1, <2>3
      <4> HIDE DEF S, length
      <4> QED BY <1>9, <4>1
    <3> QED BY <1>1, <2>1, <2>3, <3>1
  <2> QED BY <2>2, <2>3
<1>10. Seq(Digit) \subseteq S
  <2> HIDE DEF S, length
  <2>1. IsInductive(S, Seq(Digit), length)
    BY <1>9, Zenon DEF IsInductive
  <2> QED BY <1>2, <2>1, MeasureInduction
<1> QED BY <1>8, <1>10 DEF Digit

\* The digits of a number are read back as that number, 0 without a digit included.
LEMMA NumberOfItoa == \A v \in Nat : number[itoa[v]] = v
<1> DEFINE id == [v \in Nat |-> v]
           S == {v \in Nat : number[itoa[v]] = v}
<1>1. ASSUME NEW v \in Nat, \A k \in Nat : id[k] < id[v] => k \in S
      PROVE  v \in S
  <2>1. CASE v = 0
    BY <2>1, ItoaStep, NumberStep
  <2>2. CASE v # 0
    <3>0. PICK d \in Nat, m \in Digit :
            d = v \div 10 /\ m = v % 10 /\ v = 10 * d + m /\ d < v
      BY <2>2, Digits
    <3> DEFINE u == itoa[d]
               s == Append(u, m)
    <3>1. itoa[v] = s /\ u \in Seq(Digit)
      BY <2>2, <3>0, ItoaStep
    <3>2. /\ s \in Seq(Digit) /\ s # <<>> /\ Len(s) = Len(u) + 1 /\ s[Len(s)] = m
          /\ SubSeq(s, 1, Len(s) - 1) = u
      <4> HIDE DEF u
      <4> QED BY <3>1
    <3>3. number[s] = 10 * number[u] + m
      <4> HIDE DEF s, u
      <4>1. number[s] = 10 * number[SubSeq(s, 1, Len(s) - 1)] + s[Len(s)]
        BY <3>2, NumberStep
      <4> QED BY <3>2, <4>1
    <3>4. number[u] = d
      BY <1>1, <3>0
    <3> QED BY <3>0, <3>1, <3>3, <3>4
  <2> QED BY <2>1, <2>2
<1>2. id \in [Nat -> Nat]
  OBVIOUS
<1>3. Nat \subseteq S
  <2> HIDE DEF S, id
  <2> QED BY <1>1, <1>2, MeasureInduction DEF IsInductive
<1> QED BY <1>3

\* The receiver is found in the name, since no digit is a dash.
LEMMA NameAddresses ==
  ASSUME NEW a \in Nat, NEW b \in Nat
  PROVE  /\ getReceiverPid(createName(a, b)) = b
         /\ createName(a, b) # <<>> /\ createName(a, b) \in Seq(0..DASH)
<1> DEFINE s == itoa[a]
           u == itoa[b]
           name == s \o <<DASH>> \o u
           dash == CHOOSE i \in DOMAIN name : name[i] = DASH
<1>1. s \in Seq(Digit) /\ u \in Seq(Digit)
  BY ItoaStep
<1> HIDE DEF s, u
<1>2. /\ name \in Seq(0..DASH) /\ Len(name) = Len(s) + 1 + Len(u)
      /\ \A i \in 1..Len(s) : name[i] = s[i]
      /\ name[Len(s) + 1] = DASH
      /\ \A i \in 1..Len(u) : name[Len(s) + 1 + i] = u[i]
  <2>1. s \in Seq(0..DASH) /\ u \in Seq(0..DASH)
    BY <1>1 DEF Digit, DASH
  <2> QED BY <1>1, <2>1 DEF DASH
<1>3. DOMAIN name = 1..(Len(s) + 1 + Len(u))
  BY <1>2
<1>4. \A i \in DOMAIN name : i # Len(s) + 1 => name[i] # DASH
  <2> SUFFICES ASSUME NEW i \in DOMAIN name, i # Len(s) + 1 PROVE name[i] # DASH
    OBVIOUS
  <2>1. Len(s) \in Nat /\ Len(u) \in Nat
    BY <1>1
  <2>2. CASE i \in 1..Len(s)
    <3>1. name[i] = s[i] /\ s[i] \in Digit
      BY <1>1, <1>2, <2>2
    <3> QED BY <3>1 DEF Digit, DASH
  <2>3. CASE i - (Len(s) + 1) \in 1..Len(u)
    <3> DEFINE j == i - (Len(s) + 1)
    <3>1. Len(s) + 1 + j = i
      BY <1>3, <2>1
    <3>2. name[i] = u[j] /\ u[j] \in Digit
      BY <1>1, <1>2, <2>3, <3>1
    <3> QED BY <3>2 DEF Digit, DASH
  <2> HIDE DEF name
  <2> QED BY <1>3, <2>1, <2>2, <2>3
<1>5. dash = Len(s) + 1
  <2>1. Len(s) + 1 \in DOMAIN name
    BY <1>1, <1>3
  <2> HIDE DEF name
  <2> QED BY <1>2, <1>4, <2>1
<1>6. SubSeq(name, Len(s) + 2, Len(name)) = u
  <2>1. PICK m, n : m = Len(s) + 2 /\ n = Len(name)
    OBVIOUS
  <2>2. m \in Nat \ {0} /\ Len(u) \in Nat /\ n = m - 1 + Len(u) /\ name \in Seq(0..DASH)
    BY <1>1, <1>2, <2>1
  <2> HIDE DEF name
  <2> DEFINE rest == SubSeq(name, m, n)
  <2>3. rest \in Seq(0..DASH) /\ Len(rest) = Len(u)
    <3>1. m \in Int /\ n \in Int /\ \A i \in m..n : name[i] \in 0..DASH
      <4>1. m \in Int /\ n \in Int
        BY <2>2
      <4>2. \A i \in m..n : i \in 1..n
        BY <2>2, <4>1
      <4>3. \A i \in 1..n : name[i] \in 0..DASH
        BY <2>1, <2>2, ElementOfSeq
      <4> QED BY <4>1, <4>2, <4>3
    <3>2. SubSeq(name, m, n) \in Seq(0..DASH) /\ Len(SubSeq(name, m, n)) = (IF m <= n THEN n - m + 1 ELSE 0)
      BY <3>1, SubSeqProperties
    <3> QED BY <2>2, <3>2
  <2>4. ASSUME NEW i \in 1..Len(u) PROVE rest[i] = u[i]
    <3>1. rest[i] = name[m + i - 1]
      <4>1. n - m + 1 = Len(u) /\ n \in Int /\ m \in Int
        BY <2>2
      <4> QED BY <2>2, <4>1
    <3>2. m + i - 1 = Len(s) + 1 + i
      BY <1>1, <2>1
    <3> QED BY <1>2, <3>1, <3>2
  <2> HIDE DEF rest
  <2>5. rest = [i \in 1..Len(u) |-> rest[i]] /\ u = [i \in 1..Len(u) |-> u[i]]
    BY <1>1, <2>3
  <2>6. rest = u
    BY <2>4, <2>5
  <2> QED BY <2>1, <2>6 DEF rest
<1>7. getReceiverPid(createName(a, b)) = number[SubSeq(name, dash + 1, Len(name))]
  BY DEF getReceiverPid, createName, s, u
<1>8. number[u] = b
  BY NumberOfItoa DEF u
<1>9. createName(a, b) = name
  BY DEF createName, s, u
<1>10. name # <<>>
  BY <1>1, <1>2
<1> HIDE DEF name, dash
<1>11. dash + 1 = Len(s) + 2
  BY <1>1, <1>5
<1> QED BY <1>2, <1>6, <1>7, <1>8, <1>9, <1>10, <1>11

----------------------------------------------------------------------------
\* The dialogue.
TalkStatement == {"none", "pcreate", "createPipe", "awaitNames", "send", "receive", "ended"}
Preparing == {"none", "pcreate", "createPipe"}
Quiet == Preparing \cup {"awaitNames"}
Char == Party \X Nat \X Nat
PipeRecord == [name : Seq(0..DASH), contents : Seq(Char)]

DialogueTypes ==
  /\ pid \in [Party -> Nat]
  /\ talk \in [Party -> TalkStatement]
  /\ pipeList \in Seq(PipeRecord)
  /\ said \in [Party -> Nat]
  /\ heard \in [Party -> Seq(Seq(Char))]

\* A party has a pipe, named by the two pids, from its createPipe on; it says and hears
\* something only when both have one.
PartyInv ==
  /\ talk["joaquin"] \in {"none", "pcreate"} => talk["ella"] = "none"
  /\ talk["joaquin"] # "none" => pid["joaquin"] # pid["ella"]
  /\ pipeName = [p \in Party |-> IF talk[p] \in Preparing THEN <<>>
                                 ELSE createName(pid[p], pid[Other(p)])]
  /\ \A p \in Party :
       /\ talk[p] \in Quiet => said[p] = 0 /\ heard[p] = <<>>
       /\ talk[p] \notin Quiet => talk[Other(p)] \notin Preparing

\* Messages that p has sent and the other party has not received.
InFlight(p) == said[p] - Len(heard[Other(p)])

\* joaquin speaks first, so that he is one message ahead while he listens; ella is one
\* behind while she speaks.
TurnInv ==
  /\ said["joaquin"] = IF talk["joaquin"] \in {"receive", "ended"}
                       THEN Len(heard["joaquin"]) + 1 ELSE Len(heard["joaquin"])
  /\ said["ella"] = IF talk["ella"] \in {"send", "ended"}
                    THEN Len(heard["ella"]) - 1 ELSE Len(heard["ella"])
  /\ \A p \in Party : InFlight(p) \in {0, 1}
  /\ Len(heard["ella"]) <= 4
  /\ Len(heard["ella"]) = 4 => talk["ella"] = "ended"

\* A pipe is the pipe of a party and holds the message in flight; no two have one name.
Holds(pipe, p) ==
  /\ talk[p] \notin Preparing
  /\ pipe.name = pipeName[p]
  /\ pipe.contents = IF InFlight(p) = 1 THEN Message(p, said[p]) ELSE <<>>

PipesInv ==
  /\ \A p \in Party : talk[p] \notin Preparing =>
       \E i \in DOMAIN pipeList : pipeList[i].name = pipeName[p]
  /\ \A i \in DOMAIN pipeList : \E p \in Party : Holds(pipeList[i], p)
  /\ \A i, k \in DOMAIN pipeList : pipeList[i].name = pipeList[k].name => i = k

\* What was printed is as long as some message that came until then.
HeardInv ==
  \A p \in Party : \A k \in DOMAIN heard[p] :
    \E j \in 1..k : Len(heard[p][k]) = messageLengths[Other(p)][j]

DialogueInv ==
  DialogueTypes /\ PartyInv /\ TurnInv /\ PipesInv /\ HeardInv /\ HeardIsSaid

LEMMA Parties ==
  /\ Other("joaquin") = "ella" /\ Other("ella") = "joaquin"
  /\ \A p \in Party : /\ Other(p) \in Party /\ Other(p) # p /\ Other(Other(p)) = p
                      /\ \A q \in Party : q = p \/ q = Other(p)
<1>1. Other("joaquin") = "ella" /\ Other("ella") = "joaquin"
  BY DEF Other, Party
<1> QED BY <1>1 DEF Party

\* The messages that are sent.
Sent(p) == IF p = "joaquin" THEN 1..4 ELSE 1..3

\* A message has characters.
LEMMA MessageFacts ==
  ASSUME NEW p \in Party, NEW k \in Sent(p)
  PROVE  /\ messageLengths[p][k] \in Nat \ {0}
         /\ Message(p, k) \in Seq(Char)
         /\ Len(Message(p, k)) = messageLengths[p][k]
         /\ Message(p, k) # <<>>
<1>1. messageLengths[p][k] \in Nat \ {0} /\ k \in Nat
  BY DEF Party, Sent, messageLengths
<1>2. \A i \in 1..messageLengths[p][k] : <<p, k, i>> \in Char
  BY <1>1 DEF Char
<1>3. Message(p, k) \in [1..messageLengths[p][k] -> Char]
  BY <1>2 DEF Message
<1>4. Message(p, k) \in Seq(Char) /\ Len(Message(p, k)) = messageLengths[p][k]
  BY <1>1, <1>3
<1> QED BY <1>1, <1>4

\* A pipe is found by its name.
LEMMA FindPipe ==
  ASSUME PipesInv, NEW i \in DOMAIN pipeList, DialogueTypes
  PROVE  getPipe(pipeList[i].name) = i
<1> DEFINE name == pipeList[i].name
           P(k) == /\ pipeList[k].name = name
                   /\ \A j \in 1..(k - 1) : pipeList[j].name # name
<1>1. DOMAIN pipeList = 1..Len(pipeList) /\ Len(pipeList) \in Nat
  BY DEF DialogueTypes
<1>2. \A j \in 1..(i - 1) : j \in DOMAIN pipeList /\ j # i
  BY <1>1
<1>3. P(i)
  BY <1>2 DEF PipesInv
<1>4. \A k \in DOMAIN pipeList : P(k) => k = i
  BY DEF PipesInv
<1>5. getPipe(name) = CHOOSE k \in DOMAIN pipeList : P(k)
  BY DEF getPipe
<1> HIDE DEF P, name
<1> QED BY <1>3, <1>4, <1>5 DEF name

\* The pipe of a party; any other one is of the other party.
LEMMA PipeOf ==
  ASSUME DialogueInv, NEW p \in Party, talk[p] \notin Preparing
  PROVE  \E i \in DOMAIN pipeList :
           /\ getPipe(pipeName[p]) = i
           /\ Holds(pipeList[i], p)
           /\ \A k \in DOMAIN pipeList \ {i} : Holds(pipeList[k], Other(p))
<1> USE DEF DialogueInv
<1>1. PICK i \in DOMAIN pipeList : pipeList[i].name = pipeName[p]
  BY DEF PipesInv
<1>2. pipeName[p] # pipeName[Other(p)] \/ talk[Other(p)] \in Preparing
  <2>0. SUFFICES ASSUME talk[Other(p)] \notin Preparing PROVE pipeName[p] # pipeName[Other(p)]
    OBVIOUS
  <2>1. pid[p] \in Nat /\ pid[Other(p)] \in Nat /\ pid[p] # pid[Other(p)]
    BY Parties DEF DialogueTypes, PartyInv, Party, Preparing
  <2>2. getReceiverPid(pipeName[p]) = pid[Other(p)]
    BY <2>1, NameAddresses DEF PartyInv
  <2>3. getReceiverPid(pipeName[Other(p)]) = pid[p]
    <3>1. PICK q \in Party : q = Other(p) /\ Other(q) = p
      BY Parties
    <3>2. pipeName[q] = createName(pid[q], pid[p])
      BY <2>0, <2>1, <3>1 DEF PartyInv
    <3> QED BY <2>1, <3>1, <3>2, NameAddresses
  <2> QED BY <2>1, <2>2, <2>3
<1>3. Holds(pipeList[i], p)
  BY <1>1, <1>2, Parties DEF PipesInv, Holds
<1>4. \A k \in DOMAIN pipeList \ {i} : Holds(pipeList[k], Other(p))
  BY <1>1, Parties DEF PipesInv, Holds
<1> QED BY <1>1, <1>3, <1>4, FindPipe

LEMMA NamesAreFound == DialogueInv => NamesAddress
<1> USE DEF DialogueInv
<1> SUFFICES ASSUME DialogueInv, NEW p \in Party, pipeName[p] # <<>>
             PROVE  /\ pipeList[getPipe(pipeName[p])].name = pipeName[p]
                    /\ ThreadsOfProcess(getReceiverPid(pipeName[p])) = {Other(p)}
  BY DEF NamesAddress
<1>1. talk[p] \notin Preparing
  BY DEF PartyInv
<1>2. pipeList[getPipe(pipeName[p])].name = pipeName[p]
  BY <1>1, PipeOf DEF Holds
<1>3. pid[p] \in Nat /\ pid[Other(p)] \in Nat /\ pid[p] # pid[Other(p)]
  BY <1>1, Parties DEF DialogueTypes, PartyInv, Party, Preparing
<1>4. getReceiverPid(pipeName[p]) = pid[Other(p)]
  BY <1>1, <1>3, NameAddresses DEF PartyInv
<1> QED BY <1>2, <1>3, <1>4, Parties DEF ThreadsOfProcess

LEMMA DialogueBegins == DialogueInit => DialogueInv
<1> SUFFICES ASSUME DialogueInit PROVE DialogueInv
  OBVIOUS
<1> USE DEF DialogueInit
<1>1. DialogueTypes
  BY DEF DialogueTypes, TalkStatement
<1>2. PartyInv
  BY Parties DEF PartyInv, Preparing, Quiet, Party
<1>3. TurnInv
  BY Parties DEF TurnInv, InFlight, Party
<1>4. PipesInv
  BY DEF PipesInv, Preparing
<1>5. HeardInv /\ HeardIsSaid
  BY DEF HeardInv, HeardIsSaid
<1> QED BY <1>1, <1>2, <1>3, <1>4, <1>5 DEF DialogueInv

----------------------------------------------------------------------------
\* The steps of the dialogue.
LEMMA DialogueStutters ==
  ASSUME DialogueInv, UNCHANGED dialogueVars
  PROVE  DialogueInv'
<1>1. UNCHANGED <<pid, talk, pipeList, pipeName, said, heard>>
  BY DEF dialogueVars
<1>2. DialogueTypes' /\ PartyInv'
  BY <1>1 DEF DialogueInv, DialogueTypes, PartyInv
<1>3. TurnInv'
  BY <1>1 DEF DialogueInv, TurnInv, InFlight
<1>4. PipesInv'
  BY <1>1 DEF DialogueInv, PipesInv, InFlight, Holds
<1>5. HeardInv' /\ HeardIsSaid'
  BY <1>1 DEF DialogueInv, HeardInv, HeardIsSaid
<1> QED BY <1>2, <1>3, <1>4, <1>5 DEF DialogueInv

LEMMA DialogueIsStarted ==
  ASSUME DialogueInv, StartDialogue
  PROVE  DialogueInv'
<1> USE DEF DialogueInv
<1>0. /\ talk = [p \in Party |-> "none"]
      /\ talk' = [p \in Party |-> IF p = "joaquin" THEN "pcreate" ELSE "none"]
      /\ UNCHANGED <<pipeList, pipeName, said, heard>>
  BY DEF StartDialogue, Party
<1>1. PICK pair \in PidPairs : pid' = [joaquin |-> pair[1], ella |-> pair[2]]
  BY DEF StartDialogue
<1>2. pid' \in [Party -> Nat] /\ pid'["joaquin"] # pid'["ella"]
  BY <1>1, DialogueAssumption DEF Party
<1>3. DialogueTypes'
  BY <1>0, <1>2 DEF DialogueTypes, TalkStatement
<1>4. PartyInv'
  BY <1>0, <1>2, Parties DEF PartyInv, Preparing, Quiet, Party
<1>5. TurnInv'
  BY <1>0, Parties DEF TurnInv, InFlight, Party
<1>6. PipesInv'
  <2>1. \A p \in Party : talk[p] \in Preparing /\ talk'[p] \in Preparing
    BY <1>0 DEF Preparing
  <2> QED BY <1>0, <2>1, Parties DEF PipesInv, Holds
<1>7. (HeardInv /\ HeardIsSaid)'
  BY <1>0 DEF HeardInv, HeardIsSaid
<1> QED BY <1>3, <1>4, <1>5, <1>6, <1>7

LEMMA EllaIsStarted ==
  ASSUME DialogueInv, StartElla
  PROVE  DialogueInv'
<1> USE DEF DialogueInv
<1>0. /\ talk["joaquin"] = "pcreate" /\ talk["ella"] = "none"
      /\ talk' = [p \in Party |-> "createPipe"]
      /\ UNCHANGED <<pid, pipeList, pipeName, said, heard>>
  BY DEF StartElla, Party, PartyInv
<1>1. \A p \in Party : talk[p] \in {"none", "pcreate"} /\ talk'[p] = "createPipe"
  BY <1>0 DEF Party
<1>2. DialogueTypes'
  BY <1>0 DEF DialogueTypes, TalkStatement
<1>3. PartyInv'
  <2>1. \A p \in Party : talk[p] \in Preparing /\ talk'[p] \in Preparing
    BY <1>1 DEF Preparing
  <2> QED BY <1>0, <1>1, <2>1, Parties DEF PartyInv, Quiet, Party, Preparing
<1>4. TurnInv'
  BY <1>0, <1>1, Parties DEF TurnInv, InFlight, Party
<1>5. PipesInv'
  <2>1. \A p \in Party : talk[p] \in Preparing /\ talk'[p] \in Preparing
    BY <1>1 DEF Preparing
  <2> QED BY <1>0, <2>1, Parties DEF PipesInv, Holds
<1>6. (HeardInv /\ HeardIsSaid)'
  BY <1>0 DEF HeardInv, HeardIsSaid
<1> QED BY <1>2, <1>3, <1>4, <1>5, <1>6

LEMMA PipeIsCreated ==
  ASSUME DialogueInv, NEW p \in Party, createPipe(p)
  PROVE  DialogueInv'
<1> USE DEF DialogueInv
<1> DEFINE name == createName(pid[p], pid[Other(p)])
           pipe == [name |-> name, contents |-> <<>>]
<1>0. /\ talk[p] = "createPipe" /\ talk' = [talk EXCEPT ![p] = "awaitNames"]
      /\ pipeName' = [pipeName EXCEPT ![p] = name]
      /\ pipeList' = Append(pipeList, pipe)
      /\ UNCHANGED <<pid, said, heard>>
  BY DEF createPipe, Says, PartyInv, DialogueTypes
<1>1. /\ pid[p] \in Nat /\ pid[Other(p)] \in Nat /\ pid[p] # pid[Other(p)]
      /\ said[p] = 0 /\ heard[p] = <<>>
  BY <1>0, Parties DEF DialogueTypes, PartyInv, Party, Preparing, Quiet
<1>2. name \in Seq(0..DASH) /\ name # <<>>
  BY <1>1, NameAddresses
<1>3. pipe \in PipeRecord
  BY <1>2 DEF PipeRecord
<1>4. DialogueTypes'
  <2>1. Append(pipeList, pipe) \in Seq(PipeRecord)
    BY <1>3 DEF DialogueTypes
  <2> QED BY <1>0, <2>1 DEF DialogueTypes, TalkStatement
<1>5. PartyInv'
  BY <1>0, <1>1, Parties DEF PartyInv, Preparing, Quiet, DialogueTypes, Party
<1>6. TurnInv'
  BY <1>0, Parties DEF TurnInv, InFlight, Party, DialogueTypes
<1>7. PipesInv'
  <2>1. /\ DOMAIN pipeList' = 1..(Len(pipeList) + 1) /\ Len(pipeList) \in Nat
        /\ \A i \in DOMAIN pipeList : i \in DOMAIN pipeList' /\ pipeList'[i] = pipeList[i]
        /\ \A i \in DOMAIN pipeList' : i \in DOMAIN pipeList \/ i = Len(pipeList) + 1
        /\ pipeList'[Len(pipeList) + 1] = pipe
    BY <1>0 DEF DialogueTypes
  <2>2. talk'[p] \notin Preparing /\ talk[p] \in Preparing /\ pipeName'[p] = name
    BY <1>0 DEF Preparing, DialogueTypes, PartyInv
  <2>3. talk'[Other(p)] = talk[Other(p)] /\ pipeName'[Other(p)] = pipeName[Other(p)]
    BY <1>0, Parties DEF DialogueTypes, PartyInv
  <2>4. \A i \in DOMAIN pipeList : Holds(pipeList[i], Other(p))
    BY <2>2, Parties DEF PipesInv, Holds
  <2>5. \A i \in DOMAIN pipeList : Holds(pipeList[i], Other(p))'
    BY <1>0, <2>1, <2>3, <2>4 DEF Holds, InFlight
  <2>6. InFlight(p)' # 1
    <3>1. Len(heard[Other(p)]) \in Nat
      BY Parties DEF DialogueTypes
    <3> QED BY <1>0, <1>1, <3>1 DEF InFlight
  <2>7. \A i \in DOMAIN pipeList' : i \notin DOMAIN pipeList => Holds(pipeList[i], p)'
    BY <1>0, <2>1, <2>2, <2>6 DEF Holds
  <2>8. \A i \in DOMAIN pipeList : pipeList[i].name # name
    <3> SUFFICES ASSUME NEW i \in DOMAIN pipeList PROVE pipeList[i].name # name
      OBVIOUS
    <3>1. PICK q \in Party : q = Other(p) /\ Other(q) = p
      BY Parties
    <3>2. pipeList[i].name = createName(pid[q], pid[p])
      BY <2>4, <3>1 DEF PartyInv, Holds
    <3>3. getReceiverPid(name) = pid[q] /\ getReceiverPid(pipeList[i].name) = pid[p]
      BY <1>1, <3>1, <3>2, NameAddresses
    <3> QED BY <1>1, <3>1, <3>3
  <2>9. ASSUME NEW q \in Party, talk'[q] \notin Preparing
        PROVE  \E i \in DOMAIN pipeList' : pipeList'[i].name = pipeName'[q]
    <3>1. CASE q = p
      BY <2>1, <2>2, <3>1
    <3>2. CASE q = Other(p)
      <4>1. PICK i \in DOMAIN pipeList : pipeList[i].name = pipeName[q]
        BY <2>3, <2>9, <3>2 DEF PipesInv
      <4> QED BY <2>1, <2>3, <3>2, <4>1
    <3> QED BY <3>1, <3>2, Parties
  <2> HIDE DEF name, pipe
  <2>10. \A i \in DOMAIN pipeList' : \E q \in Party : Holds(pipeList[i], q)'
    BY <2>5, <2>7, Parties
  <2>11. \A i, k \in DOMAIN pipeList' : pipeList'[i].name = pipeList'[k].name => i = k
    <3>1. pipe.name = name
      BY DEF pipe
    <3>2. \A i, k \in DOMAIN pipeList : pipeList[i].name = pipeList[k].name => i = k
      BY DEF PipesInv
    <3> QED BY <2>1, <2>8, <3>1, <3>2
  <2> QED BY <2>9, <2>10, <2>11 DEF PipesInv
<1>8. (HeardInv /\ HeardIsSaid)'
  BY <1>0 DEF HeardInv, HeardIsSaid
<1> QED BY <1>4, <1>5, <1>6, <1>7, <1>8

LEMMA NamesAreAwaited ==
  ASSUME DialogueInv, NEW p \in Party, AwaitNames(p)
  PROVE  DialogueInv'
<1> USE DEF DialogueInv
<1>0. /\ talk[p] = "awaitNames"
      /\ talk' = [talk EXCEPT ![p] = IF p = "joaquin" THEN "send" ELSE "receive"]
      /\ UNCHANGED <<pid, pipeList, pipeName, said, heard>>
      /\ \A q \in Party : pipeName[q] # <<>>
  BY DEF AwaitNames, Says
<1>1. \A q \in Party : talk[q] \notin Preparing
  BY <1>0 DEF PartyInv
<1>2. \A q \in Party : talk'[q] \notin Preparing
  BY <1>0, <1>1 DEF Preparing, DialogueTypes
<1>3. DialogueTypes'
  BY <1>0 DEF DialogueTypes, TalkStatement
<1>4. PartyInv'
  <2>1. pipeName' = [q \in Party |-> IF talk'[q] \in Preparing THEN <<>>
                                     ELSE createName(pid'[q], pid'[Other(q)])]
    BY <1>0, <1>1, <1>2 DEF PartyInv
  <2>2. \A q \in Party : talk'[q] \in Quiet => talk[q] \in Quiet
    BY <1>0, <1>1, <1>2 DEF Quiet, DialogueTypes
  <2> QED BY <1>0, <1>1, <1>2, <2>1, <2>2, Parties DEF PartyInv, Party, Preparing
<1>5. TurnInv'
  BY <1>0, Parties DEF TurnInv, InFlight, Party, DialogueTypes
<1>6. PipesInv'
  BY <1>0, <1>1, <1>2 DEF PipesInv, Holds, InFlight
<1>7. (HeardInv /\ HeardIsSaid)'
  BY <1>0 DEF HeardInv, HeardIsSaid
<1> QED BY <1>3, <1>4, <1>5, <1>6, <1>7

LEMMA ReceiverWaits ==
  ASSUME DialogueInv, NEW p \in Party, ReceiveWaits(p)
  PROVE  DialogueInv'
<1>1. talk' = talk
  BY DEF ReceiveWaits, Says, DialogueInv, DialogueTypes
<1>2. UNCHANGED dialogueVars
  BY <1>1 DEF ReceiveWaits, dialogueVars
<1> QED BY <1>2, DialogueStutters

\* Whose turn it is finds its own pipe empty, and has something left to say.
LEMMA TurnToSpeak ==
  ASSUME DialogueInv, NEW p \in Party, talk[p] = "send"
  PROVE  /\ said[p] = Len(heard[Other(p)])
         /\ said[p] + 1 \in Sent(p)
<1> USE DEF DialogueInv
<1>1. \A q \in Party : said[q] \in Nat /\ Len(heard[q]) \in Nat
  BY DEF DialogueTypes
<1>2. said[p] = Len(heard[Other(p)])
  <2>1. "joaquin" \in Party /\ "ella" \in Party /\ p \in {"joaquin", "ella"}
    BY DEF Party
  <2>2. /\ said["joaquin"] \in Nat /\ Len(heard["joaquin"]) \in Nat
        /\ said["ella"] \in Nat /\ Len(heard["ella"]) \in Nat
    BY <1>1, <2>1
  <2>3. /\ said["joaquin"] - Len(heard["ella"]) \in {0, 1}
        /\ said["ella"] - Len(heard["joaquin"]) \in {0, 1}
    BY <2>1, Parties DEF TurnInv, InFlight
  <2>4. CASE p = "joaquin"
    <3>1. said["joaquin"] = Len(heard["joaquin"])
      BY <2>4 DEF TurnInv
    <3>2. said["ella"] = Len(heard["ella"]) - 1 \/ said["ella"] = Len(heard["ella"])
      BY DEF TurnInv
    <3> QED BY <2>2, <2>3, <2>4, <3>1, <3>2, Parties
  <2>5. CASE p = "ella"
    <3>1. said["ella"] = Len(heard["ella"]) - 1
      BY <2>5 DEF TurnInv
    <3>2. said["joaquin"] = Len(heard["joaquin"]) + 1 \/ said["joaquin"] = Len(heard["joaquin"])
      BY DEF TurnInv
    <3> QED BY <2>2, <2>3, <2>5, <3>1, <3>2, Parties
  <2> QED BY <2>1, <2>4, <2>5
<1>3. said[p] + 1 \in Sent(p)
  <2>1. "joaquin" \in Party /\ "ella" \in Party /\ p \in {"joaquin", "ella"}
    BY DEF Party
  <2>2. /\ said["joaquin"] - Len(heard["ella"]) \in {0, 1}
        /\ said["ella"] - Len(heard["joaquin"]) \in {0, 1}
    BY <2>1, Parties DEF TurnInv, InFlight
  <2>3. CASE p = "joaquin"
    <3>1. said["ella"] <= 3
      <4>1. PICK h \in Nat : h = Len(heard["ella"])
        BY <1>1, <2>1
      <4>2. h <= 4 /\ (h = 4 => talk["ella"] = "ended")
        BY <4>1 DEF TurnInv
      <4>3. CASE talk["ella"] \in {"send", "ended"}
        BY <4>1, <4>2, <4>3 DEF TurnInv
      <4>4. CASE talk["ella"] \notin {"send", "ended"}
        <5>1. said["ella"] = h
          BY <4>1, <4>4 DEF TurnInv
        <5>2. h <= 4 /\ h # 4
          BY <4>2, <4>4
        <5>3. h <= 3
          BY <5>2
        <5> QED BY <5>1, <5>3
      <4> QED BY <4>3, <4>4
    <3>2. said[p] <= said["ella"]
      BY <1>1, <1>2, <2>1, <2>2, <2>3, Parties DEF TurnInv
    <3> QED BY <1>1, <2>1, <2>3, <3>1, <3>2 DEF Sent
  <2>4. CASE p = "ella"
    <3>1. said[p] = Len(heard[p]) - 1 /\ Len(heard[p]) <= 4 /\ Len(heard[p]) # 4
      BY <2>4 DEF TurnInv
    <3>2. PICK h \in Nat : h = Len(heard[p])
      BY <1>1
    <3>3. said[p] + 1 = h /\ h \in 1..3
      <4>1. said[p] = h - 1 /\ h <= 4 /\ h # 4 /\ said[p] \in Nat
        BY <1>1, <3>1, <3>2
      <4>2. PICK n \in Nat : n = said[p]
        BY <4>1
      <4>3. n = h - 1 /\ h <= 4 /\ h # 4
        BY <4>1, <4>2
      <4>4. n + 1 = h /\ h \in 1..3
        BY <4>3
      <4> QED BY <4>2, <4>4
    <3> QED BY <2>4, <3>3 DEF Sent
  <2> QED BY <2>1, <2>3, <2>4
<1> QED BY <1>2, <1>3

LEMMA MessageIsSent ==
  ASSUME DialogueInv, NEW p \in Party, send(p)
  PROVE  DialogueInv'
<1> USE DEF DialogueInv
<1>0. /\ talk[p] = "send" /\ talk' = [talk EXCEPT ![p] = "receive"]
      /\ said' = [said EXCEPT ![p] = said[p] + 1]
      /\ UNCHANGED <<pid, pipeName, heard>>
  BY DEF send, Says
<1>1. said[p] = Len(heard[Other(p)]) /\ said[p] + 1 \in Sent(p)
  BY <1>0, TurnToSpeak
<1>2. talk[p] \notin Preparing /\ talk[p] \notin Quiet
  BY <1>0 DEF Preparing, Quiet
<1>3. PICK i \in DOMAIN pipeList :
        /\ getPipe(pipeName[p]) = i /\ Holds(pipeList[i], p)
        /\ \A k \in DOMAIN pipeList \ {i} : Holds(pipeList[k], Other(p))
  BY <1>2, PipeOf
<1>4. PICK message : message = Message(p, said[p] + 1)
  OBVIOUS
<1>5. message \in Seq(Char)
  BY <1>1, <1>4, MessageFacts
<1>6. said'[p] = said[p] + 1 /\ said[p] \in Nat /\ Len(heard[Other(p)]) \in Nat
  BY <1>0, Parties DEF DialogueTypes
<1>7. /\ DOMAIN pipeList' = DOMAIN pipeList /\ pipeList' \in Seq(PipeRecord)
      /\ pipeList'[i].name = pipeList[i].name /\ pipeList'[i].contents = message
      /\ \A k \in DOMAIN pipeList \ {i} : pipeList'[k] = pipeList[k]
  <2>1. pipeList[i].contents = <<>> /\ pipeList[i] \in PipeRecord
    BY <1>1, <1>3, <1>6 DEF Holds, InFlight, DialogueTypes
  <2>2. pipeList' = [pipeList EXCEPT ![i].contents = pipeList[i].contents \o message]
    BY <1>3, <1>4, <1>6 DEF send
  <2>3. pipeList[i].contents \o message = message
    BY <2>1, <1>5
  <2>4. [pipeList[i] EXCEPT !.contents = message] \in PipeRecord
    BY <1>5, <2>1 DEF PipeRecord
  <2>5. pipeList' = [pipeList EXCEPT ![i] = [pipeList[i] EXCEPT !.contents = message]]
    BY <2>2, <2>3
  <2>6. [pipeList[i] EXCEPT !.contents = message].name = pipeList[i].name
        /\ [pipeList[i] EXCEPT !.contents = message].contents = message
    BY <2>1 DEF PipeRecord
  <2>7. pipeList \in Seq(PipeRecord)
    BY DEF DialogueTypes
  <2> DEFINE full == [pipeList[i] EXCEPT !.contents = message]
  <2>8. full \in PipeRecord /\ full.name = pipeList[i].name /\ full.contents = message
    BY <2>4, <2>6
  <2>9. pipeList' = [pipeList EXCEPT ![i] = full]
    BY <2>5
  <2> HIDE DEF full
  <2> QED BY <2>7, <2>8, <2>9
<1>8. DialogueTypes'
  BY <1>0, <1>6, <1>7 DEF DialogueTypes, TalkStatement
<1>9. \A q \in Party : talk'[q] \in Quiet <=> talk[q] \in Quiet
  BY <1>0 DEF Quiet, Preparing, DialogueTypes
<1>10. \A q \in Party : talk'[q] \in Preparing <=> talk[q] \in Preparing
  BY <1>0 DEF Preparing, DialogueTypes
<1>11. PartyInv'
  <2>1. pipeName' = [q \in Party |-> IF talk'[q] \in Preparing THEN <<>>
                                     ELSE createName(pid'[q], pid'[Other(q)])]
    BY <1>0, <1>10 DEF PartyInv
  <2>2. \A q \in Party : talk'[q] \in Quiet => q # p
    BY <1>2, <1>9
  <2>3. \A q \in Party : talk'[q] \in Quiet => said'[q] = 0 /\ heard'[q] = <<>>
    BY <1>0, <1>9, <2>2 DEF PartyInv, DialogueTypes
  <2>4. /\ talk'["joaquin"] \in {"none", "pcreate"} => talk'["ella"] = "none"
        /\ talk'["joaquin"] # "none" => pid'["joaquin"] # pid'["ella"]
    BY <1>0, Parties DEF PartyInv, DialogueTypes, Party, Preparing, Quiet
  <2> QED BY <1>9, <1>10, <2>1, <2>3, <2>4, Parties DEF PartyInv
<1>12. TurnInv'
  <2>1. /\ "joaquin" \in Party /\ "ella" \in Party /\ p \in {"joaquin", "ella"}
        /\ talk \in [Party -> TalkStatement] /\ said \in [Party -> Nat]
    BY DEF Party, DialogueTypes
  <2>2. /\ talk'[p] = "receive" /\ talk'[Other(p)] = talk[Other(p)]
        /\ said'[p] = said[p] + 1 /\ said'[Other(p)] = said[Other(p)] /\ heard' = heard
    BY <1>0, <2>1, Parties
  <2>3. \A q \in Party : Len(heard[q]) \in Nat /\ said[q] \in Nat
    BY <2>1 DEF DialogueTypes
  <2>4. \A q \in Party : InFlight(q)' \in {0, 1}
    <3>1. InFlight(p)' = 1
      BY <1>1, <2>1, <2>2, <2>3, Parties DEF InFlight
    <3>2. InFlight(Other(p))' = InFlight(Other(p)) /\ Other(p) \in Party
      BY <2>1, <2>2, Parties DEF InFlight
    <3> QED BY <3>1, <3>2, Parties DEF TurnInv
  <2>5. CASE p = "joaquin"
    <3>1. said'["joaquin"] = Len(heard'["joaquin"]) + 1
      BY <1>0, <2>2, <2>5 DEF TurnInv
    <3> QED BY <2>2, <2>4, <2>5, <3>1, Parties DEF TurnInv
  <2>6. CASE p = "ella"
    <3>1. said'["ella"] = Len(heard'["ella"])
      BY <1>0, <2>1, <2>2, <2>3, <2>6 DEF TurnInv
    <3>2. Len(heard["ella"]) # 4
      BY <1>0, <2>6 DEF TurnInv
    <3> QED BY <2>2, <2>4, <2>6, <3>1, <3>2, Parties DEF TurnInv
  <2> QED BY <2>1, <2>5, <2>6
<1>13. PipesInv'
  <2>1. InFlight(p)' = 1
    BY <1>0, <1>1, <1>6 DEF InFlight
  <2>2. Holds(pipeList[i], p)'
    BY <1>0, <1>2, <1>3, <1>4, <1>6, <1>7, <1>10, <2>1 DEF Holds
  <2>3. InFlight(Other(p))' = InFlight(Other(p)) /\ said'[Other(p)] = said[Other(p)]
    BY <1>0, Parties DEF InFlight, DialogueTypes
  <2>4. \A k \in DOMAIN pipeList \ {i} : Holds(pipeList[k], Other(p))'
    BY <1>0, <1>3, <1>7, <1>10, <2>3, Parties DEF Holds
  <2>5. \A k \in DOMAIN pipeList' : pipeList'[k].name = pipeList[k].name
    BY <1>7
  <2>6. \A k \in DOMAIN pipeList' : \E q \in Party : Holds(pipeList[k], q)'
    BY <1>7, <2>2, <2>4, Parties
  <2> QED BY <1>0, <1>7, <1>10, <2>5, <2>6 DEF PipesInv
<1>14. (HeardInv /\ HeardIsSaid)'
  BY <1>0 DEF HeardInv, HeardIsSaid
<1> QED BY <1>8, <1>11, <1>12, <1>13, <1>14

----------------------------------------------------------------------------
\* What a message leaves of a longer one in the buffer is behind it.
LEMMA Overwritten ==
  ASSUME NEW contents \in Seq(Char), NEW buff \in Seq(Char)
  PROVE  /\ over(contents, buff) \in Seq(Char)
         /\ SubSeq(over(contents, buff), 1, Len(contents)) = contents
         /\ IF Len(buff) <= Len(contents)
            THEN over(contents, buff) = contents
            ELSE Len(over(contents, buff)) = Len(buff)
<1>1. PICK m, n : m = Len(contents) + 1 /\ n = Len(buff)
  OBVIOUS
<1> DEFINE rest == SubSeq(buff, m, n)
<1>2. m \in Nat \ {0} /\ n \in Nat /\ \A i \in m..n : buff[i] \in Char
  BY <1>1
<1>3. rest \in Seq(Char) /\ Len(rest) = IF m <= n THEN n - m + 1 ELSE 0
  BY <1>2, SubSeqProperties
<1>4. over(contents, buff) = contents \o rest
  BY <1>1 DEF over
<1> HIDE DEF rest
<1>5. /\ contents \o rest \in Seq(Char)
      /\ Len(contents \o rest) = Len(contents) + Len(rest)
      /\ \A i \in 1..Len(contents) : (contents \o rest)[i] = contents[i]
  BY <1>3
<1>6. SubSeq(contents \o rest, 1, Len(contents)) = contents
  <2>1. PICK all, k : all = contents \o rest /\ k = Len(contents)
    OBVIOUS
  <2>2. k \in Nat /\ \A i \in 1..k : all[i] = contents[i] /\ all[i] \in Char
    BY <1>5, <2>1
  <2>3. /\ SubSeq(all, 1, k) \in Seq(Char)
        /\ Len(SubSeq(all, 1, k)) = IF 1 <= k THEN k - 1 + 1 ELSE 0
        /\ \A i \in 1..(k - 1 + 1) : SubSeq(all, 1, k)[i] = all[1 + i - 1]
    BY <2>2, SubSeqProperties
  <2>4. PICK some : some = SubSeq(all, 1, k)
    OBVIOUS
  <2>5. Len(some) = k /\ \A i \in 1..k : some[i] = contents[i]
    BY <2>2, <2>3, <2>4
  <2>6. some = [i \in 1..k |-> some[i]] /\ contents = [i \in 1..k |-> contents[i]]
    BY <2>1, <2>3, <2>4, <2>5
  <2>7. some = contents
    BY <2>5, <2>6
  <2> QED BY <2>1, <2>4, <2>7
<1>7. CASE Len(buff) <= Len(contents)
  <2>1. Len(rest) = 0
    BY <1>1, <1>2, <1>3, <1>7
  <2>2. contents \o rest = contents
    BY <1>3, <2>1
  <2> QED BY <1>4, <1>5, <1>6, <1>7, <2>2
<1>8. CASE ~(Len(buff) <= Len(contents))
  <2>1. Len(contents) + Len(rest) = Len(buff)
    BY <1>1, <1>2, <1>3, <1>8
  <2> QED BY <1>4, <1>5, <1>6, <1>8, <2>1
<1> QED BY <1>7, <1>8

\* ella says three messages and joaquin four.
LEMMA SaidIsSent ==
  ASSUME DialogueInv
  PROVE  \A p \in Party : said[p] # 0 => said[p] \in Sent(p)
<1> USE DEF DialogueInv
<1>1. PICK sj \in Nat, se \in Nat, hj \in Nat, he \in Nat :
        /\ sj = said["joaquin"] /\ se = said["ella"]
        /\ hj = Len(heard["joaquin"]) /\ he = Len(heard["ella"])
  BY DEF DialogueTypes, Party
<1>2. /\ se = he - 1 \/ (se = he /\ he # 4)
      /\ he <= 4
      /\ sj = hj \/ sj = hj + 1
      /\ se - hj \in {0, 1}
  <2>1. "joaquin" \in Party /\ "ella" \in Party
    BY DEF Party
  <2>2. se - hj \in {0, 1}
    BY <1>1, <2>1, Parties DEF TurnInv, InFlight
  <2>3. se = he - 1 \/ (se = he /\ talk["ella"] # "ended")
    BY <1>1 DEF TurnInv
  <2>4. he <= 4 /\ (he = 4 => talk["ella"] = "ended")
    BY <1>1 DEF TurnInv
  <2>5. sj = hj \/ sj = hj + 1
    BY <1>1 DEF TurnInv
  <2> QED BY <2>2, <2>3, <2>4, <2>5
<1>3. se <= 3 /\ sj <= 4
  BY <1>2
<1>4. (se # 0 => se \in 1..3) /\ (sj # 0 => sj \in 1..4)
  BY <1>3
<1> QED BY <1>1, <1>4 DEF Sent, Party

LEMMA MessageIsHeard ==
  ASSUME DialogueInv, NEW p \in Party, Receive(p)
  PROVE  DialogueInv'
<1> USE DEF DialogueInv
<1>1. PICK o \in Party : o = Other(p) /\ Other(o) = p /\ o # p
  BY Parties
<1>2. talk[p] = "receive" /\ talk[p] \notin Preparing /\ talk[p] \notin Quiet /\ talk[o] \notin Preparing
  <2>1. talk[p] = "receive"
    BY DEF Receive
  <2>2. talk[p] \notin Preparing /\ talk[p] \notin Quiet
    BY <2>1 DEF Preparing, Quiet
  <2> QED BY <1>1, <2>1, <2>2 DEF PartyInv
<1>3. PICK i \in DOMAIN pipeList :
        /\ getPipe(pipeName[o]) = i /\ Holds(pipeList[i], o)
        /\ \A k \in DOMAIN pipeList \ {i} : Holds(pipeList[k], p)
  BY <1>1, <1>2, PipeOf
<1>4. PICK message : message = pipeList[i].contents
  OBVIOUS
<1>5. PICK n \in Nat : n = Len(heard[p]) + 1 /\ Len(heard[p]) \in Nat
  <2>1. Len(heard[p]) \in Nat
    BY DEF DialogueTypes
  <2> QED BY <2>1
<1>6. message # <<>>
  BY <1>1, <1>3, <1>4 DEF Receive
<1>7. InFlight(o) = 1 /\ message = Message(o, said[o])
  BY <1>3, <1>4, <1>6 DEF Holds
<1>8. said[o] = n
  BY <1>1, <1>5, <1>7 DEF InFlight, DialogueTypes
<1>9. n \in Sent(o)
  BY <1>5, <1>8, SaidIsSent
<1>10. /\ messageLengths[o][n] \in Nat \ {0} /\ message \in Seq(Char)
       /\ Len(message) = messageLengths[o][n] /\ message = Message(o, n)
  BY <1>7, <1>8, <1>9, MessageFacts
<1>11. PICK last : last = lastHeard(p)
  OBVIOUS
<1>12. PICK new : new = over(message, last)
  OBVIOUS
<1>13. last \in Seq(Char)
  <2>1. CASE heard[p] = <<>>
    BY <1>11, <2>1 DEF lastHeard
  <2>2. CASE heard[p] # <<>>
    <3>1. heard[p] \in Seq(Seq(Char))
      BY DEF DialogueTypes
    <3>2. heard[p][Len(heard[p])] \in Seq(Char)
      BY <2>2, <3>1
    <3> QED BY <1>11, <2>2, <3>2 DEF lastHeard
  <2> QED BY <2>1, <2>2
<1>14. /\ new \in Seq(Char)
       /\ SubSeq(new, 1, Len(message)) = message
       /\ IF Len(last) <= Len(message) THEN new = message ELSE Len(new) = Len(last)
  BY <1>10, <1>12, <1>13, Overwritten
<1>15. PICK next : next = IF n = 4 THEN "ended" ELSE "send"
  OBVIOUS
<1>16. /\ heard' = [heard EXCEPT ![p] = Append(heard[p], new)]
       /\ pipeList' = [pipeList EXCEPT ![i].contents = <<>>]
       /\ UNCHANGED <<pid, pipeName, said>>
  BY <1>1, <1>3, <1>4, <1>11, <1>12 DEF Receive
<1>17. /\ heard'[p] = Append(heard[p], new) /\ heard'[o] = heard[o]
       /\ heard[p] \in Seq(Seq(Char)) /\ heard' \in [Party -> Seq(Seq(Char))]
  BY <1>1, <1>14, <1>16 DEF DialogueTypes
<1>18. /\ Len(heard'[p]) = n /\ DOMAIN heard'[p] = 1..n /\ DOMAIN heard[p] = 1..(n - 1)
       /\ heard'[p][n] = new /\ \A k \in 1..(n - 1) : heard'[p][k] = heard[p][k]
  <2>1. PICK before \in Seq(Seq(Char)) : before = heard[p]
    BY <1>17
  <2>2. PICK after \in Seq(Seq(Char)) : after = heard'[p]
    BY <1>17
  <2>3. after = Append(before, new) /\ n = Len(before) + 1 /\ Len(before) \in Nat
    BY <1>5, <1>17, <2>1, <2>2
  <2>4. /\ Len(after) = n /\ DOMAIN after = 1..n /\ DOMAIN before = 1..(n - 1)
        /\ after[n] = new /\ \A k \in 1..(n - 1) : after[k] = before[k]
    BY <2>3, <1>14
  <2> QED BY <2>1, <2>2, <2>4
<1>19. talk' = [talk EXCEPT ![p] = next]
  BY <1>15, <1>18 DEF Receive, Says
<1>20. /\ DOMAIN pipeList' = DOMAIN pipeList /\ pipeList' \in Seq(PipeRecord)
       /\ pipeList'[i].name = pipeList[i].name /\ pipeList'[i].contents = <<>>
       /\ \A k \in DOMAIN pipeList \ {i} : pipeList'[k] = pipeList[k]
  <2> DEFINE empty == [pipeList[i] EXCEPT !.contents = <<>>]
  <2>1. pipeList[i] \in PipeRecord /\ pipeList \in Seq(PipeRecord)
    BY DEF DialogueTypes
  <2>2. empty \in PipeRecord /\ empty.name = pipeList[i].name /\ empty.contents = <<>>
    <3>1. <<>> \in Seq(Char)
      OBVIOUS
    <3> QED BY <2>1, <3>1 DEF PipeRecord
  <2>3. pipeList' = [pipeList EXCEPT ![i] = empty]
    BY <1>16
  <2> HIDE DEF empty
  <2> QED BY <2>1, <2>2, <2>3
<1>21. next \in {"send", "ended"} /\ next \notin Quiet /\ next \notin Preparing
  BY <1>15 DEF Quiet, Preparing
<1>22. DialogueTypes'
  BY <1>16, <1>17, <1>19, <1>20, <1>21 DEF DialogueTypes, TalkStatement
<1>23. \A q \in Party : /\ talk'[q] \in Quiet <=> talk[q] \in Quiet
                        /\ talk'[q] \in Preparing <=> talk[q] \in Preparing
  BY <1>2, <1>19, <1>21 DEF DialogueTypes
<1>24. PartyInv'
  <2>1. pipeName' = [q \in Party |-> IF talk'[q] \in Preparing THEN <<>>
                                     ELSE createName(pid'[q], pid'[Other(q)])]
    BY <1>16, <1>23 DEF PartyInv
  <2>2. \A q \in Party : talk'[q] \in Quiet => q # p /\ heard'[q] = heard[q]
    BY <1>2, <1>16, <1>23 DEF DialogueTypes
  <2>3. \A q \in Party : talk'[q] \in Quiet => said'[q] = 0 /\ heard'[q] = <<>>
    BY <1>16, <1>23, <2>2 DEF PartyInv
  <2>4. talk'["joaquin"] # "none" => talk["joaquin"] # "none"
    BY <1>2, <1>19 DEF DialogueTypes
  <2>5. /\ talk'["joaquin"] \in {"none", "pcreate"} => talk'["ella"] = "none"
        /\ talk'["joaquin"] # "none" => pid'["joaquin"] # pid'["ella"]
    <3>1. talk'["joaquin"] \notin {"none", "pcreate"}
      <4>1. talk["joaquin"] \notin {"none", "pcreate"}
        BY <1>2, Parties DEF PartyInv, Party, Preparing
      <4> QED BY <1>19, <1>21, <4>1 DEF DialogueTypes, Preparing
    <3> QED BY <1>16, <2>4, <3>1 DEF PartyInv
  <2> QED BY <1>23, <2>1, <2>3, <2>5, Parties DEF PartyInv
<1>25. TurnInv'
  <2>1. /\ InFlight(o)' = 0 /\ InFlight(p)' = InFlight(p)
    BY <1>1, <1>8, <1>16, <1>17, <1>18 DEF InFlight
  <2>2. \A q \in Party : InFlight(q)' \in {0, 1}
    BY <1>1, <2>1, Parties DEF TurnInv
  <2>3. CASE p = "joaquin"
    <3>1. o = "ella" /\ n # 4 /\ next = "send"
      BY <1>1, <1>9, <1>15, <2>3, Parties DEF Sent
    <3>2. talk'["joaquin"] = "send" /\ talk'["ella"] = talk["ella"]
      BY <1>19, <2>3, <3>1 DEF DialogueTypes
    <3>3. said["joaquin"] = n
      BY <1>2, <1>5, <2>3 DEF TurnInv
    <3> QED BY <1>16, <1>17, <1>18, <2>2, <2>3, <3>1, <3>2, <3>3 DEF TurnInv
  <2>4. CASE p = "ella"
    <3>1. o = "joaquin" /\ n \in 1..4
      BY <1>1, <1>9, <2>4, Parties DEF Sent
    <3>2. talk'["ella"] = next /\ talk'["joaquin"] = talk["joaquin"]
      BY <1>19, <2>4, <3>1 DEF DialogueTypes
    <3>3. said["ella"] = n - 1
      BY <1>2, <1>5, <2>4 DEF TurnInv
    <3>4. said'["ella"] = n - 1 /\ Len(heard'["ella"]) = n /\ n <= 4 /\ (n = 4 => talk'["ella"] = "ended")
      BY <1>15, <1>16, <1>18, <2>4, <3>1, <3>2, <3>3
    <3>5. said'["joaquin"] = said["joaquin"] /\ heard'["joaquin"] = heard["joaquin"]
      BY <1>16, <1>17, <3>1
    <3> QED BY <1>21, <2>2, <3>2, <3>4, <3>5 DEF TurnInv
  <2> QED BY <2>3, <2>4 DEF Party
<1>26. PipesInv'
  <2>1. InFlight(o)' # 1 /\ InFlight(p)' = InFlight(p)
    BY <1>1, <1>8, <1>16, <1>17, <1>18 DEF InFlight
  <2>2. Holds(pipeList[i], o)'
    BY <1>2, <1>3, <1>16, <1>20, <1>23, <2>1 DEF Holds
  <2>3. \A k \in DOMAIN pipeList \ {i} : Holds(pipeList[k], p)'
    BY <1>2, <1>3, <1>16, <1>20, <1>23, <2>1 DEF Holds
  <2>4. \A k \in DOMAIN pipeList' : pipeList'[k].name = pipeList[k].name
    BY <1>20
  <2>5. \A k \in DOMAIN pipeList' : \E q \in Party : Holds(pipeList[k], q)'
    BY <1>20, <2>2, <2>3
  <2>6. \A q \in Party : talk'[q] \notin Preparing =>
          \E k \in DOMAIN pipeList' : pipeList'[k].name = pipeName'[q]
    <3>1. \A q \in Party : talk[q] \notin Preparing =>
            \E k \in DOMAIN pipeList : pipeList[k].name = pipeName[q]
      BY DEF PipesInv
    <3> QED BY <1>16, <1>20, <1>23, <2>4, <3>1
  <2>7. \A k, j \in DOMAIN pipeList' : pipeList'[k].name = pipeList'[j].name => k = j
    <3>1. \A k, j \in DOMAIN pipeList : pipeList[k].name = pipeList[j].name => k = j
      BY DEF PipesInv
    <3> QED BY <1>20, <2>4, <3>1
  <2> QED BY <2>5, <2>6, <2>7 DEF PipesInv
<1>27. last = <<>> \/ \E j \in 1..(n - 1) : Len(last) = messageLengths[o][j]
  <2>1. CASE heard[p] = <<>>
    BY <1>11, <2>1 DEF lastHeard
  <2>2. CASE heard[p] # <<>>
    <3>1. last = heard[p][n - 1] /\ n - 1 \in DOMAIN heard[p]
      BY <1>5, <1>11, <1>17, <2>2 DEF lastHeard
    <3> QED BY <1>1, <3>1 DEF HeardInv
  <2> QED BY <2>1, <2>2
<1>28. HeardInv'
  <2>1. ASSUME NEW q \in Party, NEW k \in DOMAIN heard'[q]
        PROVE  \E j \in 1..k : Len(heard'[q][k]) = messageLengths[Other(q)][j]
    <3>1. CASE q = p /\ k = n
      <4>1. n \in 1..n /\ \A j \in 1..(n - 1) : j \in 1..n
        BY <1>9, <1>5
      <4>2. CASE Len(last) <= Len(message)
        BY <1>1, <1>10, <1>14, <1>18, <3>1, <4>1, <4>2
      <4>3. CASE ~(Len(last) <= Len(message))
        <5>1. last # <<>>
          BY <1>10, <4>3
        <5> QED BY <1>1, <1>14, <1>18, <1>27, <3>1, <4>1, <4>3, <5>1
      <4> QED BY <4>2, <4>3
    <3>2. CASE q = p /\ k # n
      <4>1. k \in DOMAIN heard[p] /\ heard'[p][k] = heard[p][k]
        BY <1>5, <1>18, <2>1, <3>2
      <4> QED BY <3>2, <4>1 DEF HeardInv
    <3>3. CASE q = o
      BY <1>17, <2>1, <3>3 DEF HeardInv
    <3> QED BY <1>1, <3>1, <3>2, <3>3, Parties
  <2> QED BY <2>1 DEF HeardInv
<1>29. HeardIsSaid'
  <2> DEFINE Right(q, k) ==
        /\ SubSeq(heard'[q][k], 1, Len(Message(Other(q), k))) = Message(Other(q), k)
        /\ (\A j \in 1..(k - 1) : messageLengths[Other(q)][j] <= Len(Message(Other(q), k)))
             => heard'[q][k] = Message(Other(q), k)
  <2>1. ASSUME NEW q \in Party, NEW k \in DOMAIN heard'[q]
        PROVE  Right(q, k)
    <3>1. CASE q = p /\ k = n
      <4>1. SubSeq(new, 1, Len(message)) = message /\ new = heard'[p][n]
        BY <1>14, <1>18
      <4>2. ASSUME \A j \in 1..(n - 1) : messageLengths[o][j] <= Len(message)
            PROVE  new = message
        <5>1. Len(last) <= Len(message)
          BY <1>10, <1>27, <4>2
        <5> QED BY <1>14, <5>1
      <4> QED BY <1>1, <1>10, <3>1, <4>1, <4>2
    <3>2. CASE q = p /\ k # n
      <4>1. k \in DOMAIN heard[p] /\ heard'[p][k] = heard[p][k]
        BY <1>5, <1>18, <2>1, <3>2
      <4> QED BY <3>2, <4>1 DEF HeardIsSaid
    <3>3. CASE q = o
      BY <1>17, <2>1, <3>3 DEF HeardIsSaid
    <3> QED BY <1>1, <3>1, <3>2, <3>3, Parties
  <2>2. \A q \in Party : \A k \in DOMAIN heard'[q] : Right(q, k)
    BY <2>1
  <2>3. \A q, k : Message(q, k)' = Message(q, k)
    BY DEF Message
  <2> QED BY <2>2, <2>3 DEF HeardIsSaid
<1> QED BY <1>22, <1>24, <1>25, <1>26, <1>28, <1>29

\* Only the command and the steps of the dialogue change what it knows.
LEMMA DialogueRuns ==
  ASSUME DialogueInv, [ShellNext]_<<demoVars, shellVars>>
  PROVE  DialogueInv'
<1>1. CASE ShellNext /\ StartDialogue
  BY <1>1, DialogueIsStarted
<1>2. CASE DialogueNext
  BY <1>2, EllaIsStarted, PipeIsCreated, NamesAreAwaited, ReceiverWaits, MessageIsSent, MessageIsHeard
  DEF DialogueNext, Speak
<1>3. CASE UNCHANGED dialogueVars
  BY <1>3, DialogueStutters
<1>4. CASE shell
  <2>1. \A c \in Word : TypeWord(c) => UNCHANGED dialogueVars
    BY DEF TypeWord, demoVars
  <2>2. Backspace => UNCHANGED dialogueVars
    BY DEF Backspace, demoVars
  <2>3. EnterPastBuffer => UNCHANGED dialogueVars
    BY DEF EnterPastBuffer, demoVars
  <2>4. Enter => StartDialogue \/ UNCHANGED dialogueVars
    BY DEF Enter, processComand, NewShell, demoVars
  <2>5. ShellNext
    BY <1>4 DEF ShellNext
  <2> QED BY <1>1, <1>3, <1>4, <2>1, <2>2, <2>3, <2>4, <2>5 DEF shell
<1>5. CASE Demos
  BY <1>2, <1>3, <1>5 DEF Demos
<1>6. CASE UNCHANGED <<demoVars, shellVars>>
  BY <1>3, <1>6 DEF demoVars
<1> QED BY <1>4, <1>5, <1>6 DEF ShellNext

\* Whatever two pids the parties get, of however many digits, the name of a pipe finds
\* that pipe and nobody but its receiver (pipefs.c:98-140, myStdLib.c:3-30).
THEOREM NamesFindTheirPipes == ShellSpec => []NamesAddress
<1>1. ShellInit => DialogueInv
  BY DialogueBegins DEF ShellInit
<1>2. DialogueInv /\ [ShellNext]_<<demoVars, shellVars>> => DialogueInv'
  BY DialogueRuns
<1>3. DialogueInv => NamesAddress
  BY NamesAreFound
<1> QED BY <1>1, <1>2, <1>3, PTL DEF ShellSpec

\* With any pids each party prints the messages of the other one, whole, in order and
\* one at a time (shell.c:359-502, pipefs.c:66-117).
THEOREM HeardIsWhatWasSaid == ShellSpec => []HeardIsSaid
<1>1. ShellInit => DialogueInv
  BY DialogueBegins DEF ShellInit
<1>2. DialogueInv /\ [ShellNext]_<<demoVars, shellVars>> => DialogueInv'
  BY DialogueRuns
<1>3. DialogueInv => HeardIsSaid
  BY DEF DialogueInv
<1> QED BY <1>1, <1>2, <1>3, PTL DEF ShellSpec
(***************************************************************************)
(* Who waits for a message.                                                *)
(***************************************************************************)
PipeEntry(b, p) ==
  b = <<"pipe", pid[p], p>> /\ talk[p] = "receive" /\ InFlight(Other(p)) = 0

PipeWaiters == \A b \in blockedThreads : b[1] = "pipe" => \E p \in Party : PipeEntry(b, p)

\* Nobody new waits at a pipe.
NoNewWaiter == \A b \in blockedThreads' : b[1] = "pipe" => b \in blockedThreads

LEMMA ObjectsAreNotPipes ==
  /\ \A t, id : mutexDown(t, id) => NoNewWaiter
  /\ \A id : mutexUp(id) => NoNewWaiter
  /\ \A t, id : semaphoreDown(t, id) => NoNewWaiter
  /\ \A id : semaphoreUp(id) => NoNewWaiter
  /\ UNCHANGED blockedThreads => NoNewWaiter
<1>1. ASSUME NEW t, NEW id, mutexDown(t, id) PROVE NoNewWaiter
  <2>1. PICK e : e = <<"mutex", id, t>>
    OBVIOUS
  <2>2. blockedThreads' \subseteq blockedThreads \cup {e}
    BY <1>1, <2>1 DEF mutexDown
  <2> QED BY <2>1, <2>2 DEF NoNewWaiter
<1>2. ASSUME NEW t, NEW id, semaphoreDown(t, id) PROVE NoNewWaiter
  <2>1. PICK e : e = <<"semaphore", id, t>>
    OBVIOUS
  <2>2. blockedThreads' \subseteq blockedThreads \cup {e}
    BY <1>2, <2>1 DEF semaphoreDown
  <2> QED BY <2>1, <2>2 DEF NoNewWaiter
<1>3. \A id : mutexUp(id) => NoNewWaiter
  BY DEF mutexUp, NoNewWaiter
<1>4. \A id : semaphoreUp(id) => NoNewWaiter
  BY DEF semaphoreUp, NoNewWaiter
<1>5. UNCHANGED blockedThreads => NoNewWaiter
  BY DEF NoNewWaiter
<1> QED BY <1>1, <1>2, <1>3, <1>4, <1>5

LEMMA ProdConsLeavesPipes == ProdConsNext \/ StartProdCons => NoNewWaiter
<1>1. StartProdCons => NoNewWaiter
  BY ObjectsAreNotPipes DEF StartProdCons
<1>2. \A t : CreateThread(t) => NoNewWaiter
  BY ObjectsAreNotPipes DEF CreateThread, syncVars
<1>3. Quit => NoNewWaiter
  BY DEF Quit, NoNewWaiter
<1>4. producer => NoNewWaiter
  BY ObjectsAreNotPipes DEF producer, Produce, LockStep, insertItem, syncVars
<1>5. consumer => NoNewWaiter
  BY ObjectsAreNotPipes DEF consumer, LockStep, removeItem, syncVars
<1> QED BY <1>1, <1>2, <1>3, <1>4, <1>5 DEF ProdConsNext, ProducerStep, ConsumerStep, ThreadStep

LEMMA PhilosophersLeavePipes == PhilosophersNext \/ StartPhilosophers => NoNewWaiter
<1>1. StartPhilosophers => NoNewWaiter
  BY ObjectsAreNotPipes DEF StartPhilosophers
<1>2. philosophers => NoNewWaiter
  BY ObjectsAreNotPipes DEF philosophers, SetUpMutex, SetUpLock, SetUpState, SetUpThread, syncVars
<1>3. ASSUME NEW t, philosopher(t) PROVE NoNewWaiter
  <2>1. ReadId(t) \/ ReadCounter(t) \/ WriteCounter(t) \/ SetState(t) \/ CheckForks(t) \/ SetEating(t)
          => UNCHANGED blockedThreads
    BY DEF ReadId, ReadCounter, WriteCounter, SetState, CheckForks, Check, SetEating, syncVars
  <2>2. DownMain(t) \/ UpPhilosopher(t) \/ UpMain(t) \/ DownPhilosopher(t)
          => \E u, id : mutexDown(u, id) \/ mutexUp(id)
    BY DEF DownMain, UpPhilosopher, UpMain, DownPhilosopher, CallsMutex
  <2> QED BY <1>3, <2>1, <2>2, ObjectsAreNotPipes DEF philosopher
<1> QED BY <1>1, <1>2, <1>3 DEF PhilosophersNext

LEMMA PipesAreLeft ==
  ASSUME PipeWaiters, UNCHANGED dialogueVars, NoNewWaiter
  PROVE  PipeWaiters'
<1>1. UNCHANGED <<pid, talk, said, heard>>
  BY DEF dialogueVars
<1>2. \A b, p : PipeEntry(b, p) => PipeEntry(b, p)'
  BY <1>1 DEF PipeEntry, InFlight
<1> QED BY <1>2 DEF PipeWaiters, NoNewWaiter

\* A statement of a party that does not wait leaves the other one waiting, as long as it
\* sends nothing.
LEMMA OtherStillWaits ==
  ASSUME PipeWaiters, NEW p \in Party, talk[p] # "receive" \/ ~Blocked(p),
         UNCHANGED <<blockedThreads, pid>>,
         talk'[Other(p)] = talk[Other(p)], InFlight(p)' = InFlight(p)
  PROVE  PipeWaiters'
<1>1. SUFFICES ASSUME NEW b \in blockedThreads, b[1] = "pipe"
               PROVE  \E q \in Party : PipeEntry(b, q)'
  BY DEF PipeWaiters
<1>2. PICK q \in Party : PipeEntry(b, q)
  BY <1>1 DEF PipeWaiters
<1>3. q # p
  BY <1>2 DEF PipeEntry, Blocked
<1>4. PICK o \in Party : o = Other(p) /\ Other(o) = p
  BY Parties
<1>5. q = o
  BY <1>3, <1>4, Parties
<1>6. PipeEntry(b, o)'
  BY <1>2, <1>4, <1>5 DEF PipeEntry
<1> QED BY <1>6

\* The pipe p reads, whose message is in flight if there is one.
LEMMA PipeToRead ==
  ASSUME DialogueInv, NEW p \in Party, talk[p] = "receive"
  PROVE  /\ pipeList[getPipe(pipeName[Other(p)])].contents = <<>> <=> InFlight(Other(p)) = 0
         /\ getReceiverPid(pipeName[Other(p)]) = pid[p]
         /\ ThreadsOfProcess(pid[p]) = {p}
<1> USE DEF DialogueInv
<1>1. PICK o \in Party : o = Other(p) /\ Other(o) = p /\ o # p
  BY Parties
<1>2. talk[p] \notin Quiet /\ talk[p] \notin Preparing /\ talk[o] \notin Preparing
  <2>1. talk[p] \notin Quiet /\ talk[p] \notin Preparing
    BY DEF Quiet, Preparing
  <2> QED BY <1>1, <2>1 DEF PartyInv
<1>3. PICK i \in DOMAIN pipeList : getPipe(pipeName[o]) = i /\ Holds(pipeList[i], o)
  BY <1>2, PipeOf
<1>4. InFlight(o) \in {0, 1}
  BY DEF TurnInv
<1>5. InFlight(o) = 1 => Message(o, said[o]) # <<>>
  <2>1. said[o] \in Nat /\ Len(heard[p]) \in Nat
    BY DEF DialogueTypes
  <2>2. InFlight(o) = 1 => said[o] # 0
    BY <1>1, <2>1 DEF InFlight
  <2>3. said[o] # 0 => said[o] \in Sent(o)
    BY SaidIsSent
  <2> QED BY <2>2, <2>3, MessageFacts
<1>6. pipeList[i].contents = <<>> <=> InFlight(o) = 0
  BY <1>3, <1>4, <1>5 DEF Holds
<1>7. /\ pid[p] \in Nat /\ pid[o] \in Nat /\ pid[p] # pid[o]
  BY <1>1, <1>2, Parties DEF DialogueTypes, PartyInv, Party, Preparing
<1>8. pipeName[o] = createName(pid[o], pid[p])
  BY <1>1, <1>2 DEF PartyInv
<1>9. getReceiverPid(pipeName[o]) = pid[p]
  BY <1>7, <1>8, NameAddresses
<1>10. ThreadsOfProcess(pid[p]) = {p}
  BY <1>1, <1>7, Parties DEF ThreadsOfProcess
<1> QED BY <1>1, <1>3, <1>6, <1>9, <1>10

LEMMA WaiterIsAdded ==
  ASSUME DialogueInv, PipeWaiters, NEW p \in Party, ReceiveWaits(p)
  PROVE  PipeWaiters'
<1>1. talk[p] = "receive" /\ UNCHANGED <<pid, said, heard>>
  BY DEF ReceiveWaits, Says
<1>2. talk' = talk
  BY DEF ReceiveWaits, Says, DialogueInv, DialogueTypes
<1>3. PICK e : e = <<"pipe", pid[p], p>>
  OBVIOUS
<1>4. blockedThreads' = blockedThreads \cup {e}
  BY <1>1, <1>3, PipeToRead DEF ReceiveWaits
<1>5. InFlight(Other(p)) = 0
  BY <1>1, PipeToRead DEF ReceiveWaits
<1>6. PipeEntry(e, p)
  BY <1>1, <1>3, <1>5 DEF PipeEntry
<1>7. \A b, q : PipeEntry(b, q) => PipeEntry(b, q)'
  BY <1>1, <1>2 DEF PipeEntry, InFlight
<1> QED BY <1>4, <1>6, <1>7 DEF PipeWaiters

LEMMA WaiterIsWoken ==
  ASSUME DialogueInv, PipeWaiters, NEW p \in Party, send(p)
  PROVE  PipeWaiters'
<1>1. PICK o \in Party : o = Other(p) /\ Other(o) = p /\ o # p
  BY Parties
<1>2. talk[p] = "send" /\ blockedThreads' = woken(pipeName[p])
  BY DEF send, Says
<1>3. SUFFICES \A b \in blockedThreads' : b[1] # "pipe"
  BY DEF PipeWaiters
<1>4. SUFFICES ASSUME NEW b \in blockedThreads, b[1] = "pipe" PROVE b \notin woken(pipeName[p])
  BY <1>2 DEF woken
<1>5. PICK q \in Party : PipeEntry(b, q)
  BY <1>4 DEF PipeWaiters
<1>6. q = o
  BY <1>1, <1>2, <1>5, Parties DEF PipeEntry
<1>7. b = <<"pipe", pid[o], o>> /\ talk[o] = "receive"
  BY <1>5, <1>6 DEF PipeEntry
<1>8. getReceiverPid(pipeName[p]) = pid[o] /\ ThreadsOfProcess(pid[o]) = {o}
  BY <1>1, <1>7, PipeToRead
<1>9. b[1] = "pipe" /\ b[2] = pid[o] /\ b[3] = o
  BY <1>7
<1> QED BY <1>8, <1>9 DEF woken, Waiting

LEMMA PartySpeaks ==
  ASSUME DialogueInv, PipeWaiters, DialogueNext
  PROVE  PipeWaiters'
<1>1. \A p \in Party : talk \in [Party -> TalkStatement]
  BY DEF DialogueInv, DialogueTypes
<1>2. CASE StartElla
  <2>1. /\ \A p \in Party : talk[p] # "receive"
        /\ UNCHANGED blockedThreads
    BY <1>2 DEF StartElla, syncVars, DialogueInv, PartyInv, Party
  <2> QED BY <2>1 DEF PipeWaiters, PipeEntry
<1>3. ASSUME NEW p \in Party, createPipe(p) \/ AwaitNames(p) PROVE PipeWaiters'
  <2>1. /\ talk[p] # "receive" /\ UNCHANGED <<blockedThreads, pid, said, heard>>
        /\ talk'[Other(p)] = talk[Other(p)]
    BY <1>1, <1>3, Parties DEF createPipe, AwaitNames, Says, syncVars
  <2>2. InFlight(p)' = InFlight(p)
    BY <2>1 DEF InFlight
  <2> QED BY <2>1, <2>2, OtherStillWaits
<1>4. ASSUME NEW p \in Party, Receive(p) PROVE PipeWaiters'
  <2>1. PICK o \in Party : o = Other(p) /\ Other(o) = p /\ o # p
    BY Parties
  <2>2. /\ ~Blocked(p) /\ UNCHANGED <<blockedThreads, pid, said>>
        /\ talk'[o] = talk[o]
    BY <1>1, <1>4, <2>1 DEF Receive, Says, syncVars
  <2>3. heard'[o] = heard[o]
    BY <1>4, <2>1 DEF Receive, DialogueInv, DialogueTypes
  <2>4. InFlight(p)' = InFlight(p)
    BY <2>1, <2>2, <2>3 DEF InFlight
  <2> QED BY <2>1, <2>2, <2>4, OtherStillWaits
<1> QED BY <1>2, <1>3, <1>4, WaiterIsAdded, WaiterIsWoken DEF DialogueNext, Speak

LEMMA PipeWaitersRun ==
  ASSUME DialogueInv, PipeWaiters, [ShellNext]_<<demoVars, shellVars>>
  PROVE  PipeWaiters'
<1>1. CASE StartDialogue
  <2>1. \A p \in Party : talk[p] # "receive"
    BY <1>1 DEF StartDialogue
  <2>2. UNCHANGED blockedThreads
    BY <1>1 DEF StartDialogue, syncVars
  <2> QED BY <2>1, <2>2 DEF PipeWaiters, PipeEntry
<1>2. CASE Demos
  BY <1>2, PartySpeaks, PipesAreLeft, ProdConsLeavesPipes, PhilosophersLeavePipes DEF Demos
<1>3. CASE UNCHANGED demoVars
  BY <1>3, PipesAreLeft, ObjectsAreNotPipes DEF demoVars, syncVars
<1>4. CASE shell
  <2>1. \A c \in Word : TypeWord(c) => UNCHANGED demoVars
    BY DEF TypeWord
  <2>2. Backspace \/ EnterPastBuffer => UNCHANGED demoVars
    BY DEF Backspace, EnterPastBuffer
  <2>3. Enter => \/ StartDialogue \/ UNCHANGED demoVars
                 \/ (StartProdCons \/ StartPhilosophers) /\ UNCHANGED dialogueVars
    BY DEF Enter, processComand, NewShell
  <2> QED
    BY <1>1, <1>3, <1>4, <2>1, <2>2, <2>3, PipesAreLeft, ProdConsLeavesPipes, PhilosophersLeavePipes
    DEF shell
<1>5. CASE UNCHANGED <<demoVars, shellVars>>
  BY <1>3, <1>5
<1> QED BY <1>2, <1>4, <1>5 DEF ShellNext

\* Whom the other one owes the next message is the one who waits.
LEMMA WaitersAreServed == DialogueInv /\ PipeWaiters => WaiterHasNoMessage
<1> SUFFICES ASSUME DialogueInv, PipeWaiters PROVE WaiterHasNoMessage
  OBVIOUS
<1>1. ASSUME NEW p \in Party, PartyWaits(p)
      PROVE  talk[p] = "receive" /\ InFlight(Other(p)) = 0
  <2>1. PICK b \in blockedThreads : b[1] = "pipe" /\ b[3] = p
    BY <1>1 DEF PartyWaits
  <2>2. PICK q \in Party : PipeEntry(b, q)
    BY <2>1 DEF PipeWaiters
  <2>3. q = p
    BY <2>1, <2>2 DEF PipeEntry
  <2> QED BY <2>2, <2>3 DEF PipeEntry
<1>2. \A p \in Party : PartyWaits(p) => pipeList[getPipe(pipeName[Other(p)])].contents = <<>>
  BY <1>1, PipeToRead
<1>3. ASSUME \A p \in Party : PartyWaits(p) PROVE FALSE
  <2>1. /\ talk["joaquin"] = "receive" /\ talk["ella"] = "receive"
        /\ InFlight("joaquin") = 0 /\ InFlight("ella") = 0
    BY <1>1, <1>3, Parties DEF Party
  <2>2. /\ said["joaquin"] = Len(heard["joaquin"]) + 1 /\ said["ella"] = Len(heard["ella"])
    BY <2>1 DEF DialogueInv, TurnInv
  <2>3. PICK sj \in Nat, se \in Nat, hj \in Nat, he \in Nat :
          /\ sj = said["joaquin"] /\ se = said["ella"]
          /\ hj = Len(heard["joaquin"]) /\ he = Len(heard["ella"])
    BY DEF DialogueInv, DialogueTypes, Party
  <2>4. sj - he = 0 /\ se - hj = 0
    BY <2>1, <2>3, Parties DEF InFlight
  <2> QED BY <2>2, <2>3, <2>4
<1> QED BY <1>2, <1>3, NamesAreFound DEF WaiterHasNoMessage

\* With any pids no wake-up is lost, and the parties never wait for each other
\* (pipefs.c:48-60, :119-140).
THEOREM NoWakeUpIsLost == ShellSpec => []WaiterHasNoMessage
<1>1. ShellInit => DialogueInv /\ PipeWaiters
  BY DialogueBegins DEF ShellInit, SyncInit, PipeWaiters
<1>2. DialogueInv /\ PipeWaiters /\ [ShellNext]_<<demoVars, shellVars>> => (DialogueInv /\ PipeWaiters)'
  BY DialogueRuns, PipeWaitersRun
<1> QED BY <1>1, <1>2, WaitersAreServed, PTL DEF ShellSpec
=============================================================================
