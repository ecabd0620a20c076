---------------------------- MODULE Philosophers ----------------------------
(***************************************************************************)
(* The dining philosophers of shell.c: a thread each, a state each, one    *)
(* mutex around the states and one per philosopher, locked from the start, *)
(* that lets it eat.  The main thread sets the philosophers up one by one  *)
(* while the first ones eat already; until then the state of a philosopher *)
(* is 0, HUNGRY, and its mutex identifier 0.  A thread numbers itself with *)
(* auxCounter, in three instructions that the timer may part.  Every read  *)
(* of a state is a step of its own.  Who holds which fork and the          *)
(* identifiers of the threads are only printed, and are left out.          *)
(***************************************************************************)
EXTENDS Sync, Sequences

CONSTANT PHILOSOPHERS_COUNT

ASSUME PhilosophersAssumption == PHILOSOPHERS_COUNT \in Nat \ {0}

Philosopher == 0..(PHILOSOPHERS_COUNT - 1)
Main == PHILOSOPHERS_COUNT       \* the thread that runs philosophers()

VARIABLES
  auxCounter, mainMutexId,
  philoMutexId, philoState,   \* philosopher -> mutex, state
  setUp,              \* the main thread: <<philosopher, next statement>>
  philoAt,            \* thread -> next statement
  call,               \* thread -> "takeForks", "putForks"
  philoId, counterRead,    \* thread -> its number, the counter it increments
  toCheck             \* thread -> philosophers to call checkForks for

tableVars == <<auxCounter, mainMutexId, philoMutexId, philoState, setUp>>
philosophersVars == <<tableVars, philoAt, call, philoId, counterRead, toCheck>>

PhilosophersInit ==
  /\ auxCounter = 0 /\ mainMutexId = 0
  /\ philoMutexId = [p \in Philosopher |-> 0]
  /\ philoState = [p \in Philosopher |-> "HUNGRY"]
  /\ setUp = <<0, "ended">>
  /\ philoAt = [t \in Philosopher |-> "none"]
  /\ call = [t \in Philosopher |-> "takeForks"]
  /\ philoId = [t \in Philosopher |-> 0]
  /\ counterRead = [t \in Philosopher |-> 0]
  /\ toCheck = [t \in Philosopher |-> <<>>]

----------------------------------------------------------------------------
\* The main thread.  Nobody else asks for a mutex it has not handed out yet,
\* so that making one and storing its identifier are one step.
left(p) == (p + PHILOSOPHERS_COUNT - 1) % PHILOSOPHERS_COUNT
right(p) == (p + 1) % PHILOSOPHERS_COUNT

createMutex == withObject(mutexStatus, counter(mutexStatus), "MUTEX_UNLOCKED")

StartPhilosophers ==
  /\ setUp = <<0, "ended">>
  /\ mainMutexId' = counter(mutexStatus)
  /\ mutexStatus' = createMutex
  /\ setUp' = <<0, "createMutex">>
  /\ UNCHANGED <<semaphoreStatus, blockedThreads, auxCounter, philoMutexId, philoState,
                 philoAt, call, philoId, counterRead, toCheck>>

SetUp(p, from, to) ==
  /\ setUp = <<p, from>> /\ ~Blocked(Main)
  /\ setUp' = to
  /\ UNCHANGED <<auxCounter, mainMutexId, call, philoId, counterRead, toCheck>>

SetUpMutex(p) ==
  /\ SetUp(p, "createMutex", <<p, "mutexDown">>)
  /\ philoMutexId' = [philoMutexId EXCEPT ![p] = counter(mutexStatus)]
  /\ mutexStatus' = createMutex
  /\ UNCHANGED <<semaphoreStatus, blockedThreads, philoState, philoAt>>

SetUpLock(p) ==
  /\ SetUp(p, "mutexDown", <<p, "setState">>)
  /\ mutexDown(Main, philoMutexId[p])
  /\ UNCHANGED <<philoMutexId, philoState, philoAt>>

SetUpState(p) ==
  /\ SetUp(p, "setState", <<p, "tcreate">>)
  /\ philoState' = [philoState EXCEPT ![p] = "THINKING"]
  /\ UNCHANGED <<syncVars, philoMutexId, philoAt>>

SetUpThread(p) ==
  /\ SetUp(p, "tcreate", <<p + 1, "createMutex">>)
  /\ philoAt' = [philoAt EXCEPT ![p] = "readId"]
  /\ UNCHANGED <<syncVars, philoMutexId, philoState>>

philosophers ==
  \E p \in Philosopher : SetUpMutex(p) \/ SetUpLock(p) \/ SetUpState(p) \/ SetUpThread(p)

----------------------------------------------------------------------------
\* A philosopher: id = auxCounter, auxCounter++, and then for ever takeForks, putForks.
PhiloGoes(t, from, to) ==
  /\ philoAt[t] = from /\ ~Blocked(t)
  /\ philoAt' = [philoAt EXCEPT ![t] = to]
  /\ UNCHANGED <<mainMutexId, philoMutexId, setUp>>

ReadId(t) ==
  /\ PhiloGoes(t, "readId", "readCounter")
  /\ philoId' = [philoId EXCEPT ![t] = auxCounter]
  /\ UNCHANGED <<syncVars, auxCounter, philoState, call, counterRead, toCheck>>

ReadCounter(t) ==
  /\ PhiloGoes(t, "readCounter", "writeCounter")
  /\ counterRead' = [counterRead EXCEPT ![t] = auxCounter]
  /\ UNCHANGED <<syncVars, auxCounter, philoState, call, philoId, toCheck>>

WriteCounter(t) ==
  /\ PhiloGoes(t, "writeCounter", "downMain")
  /\ auxCounter' = counterRead[t] + 1
  /\ counterRead' = [counterRead EXCEPT ![t] = 0]   \* not used again
  /\ UNCHANGED <<syncVars, philoState, call, philoId, toCheck>>

\* A system call on a mutex.
CallsMutex(t, from, to, Op) ==
  /\ PhiloGoes(t, from, to) /\ Op
  /\ UNCHANGED <<auxCounter, philoState, philoId, counterRead, toCheck>>

DownMain(t) ==
  /\ CallsMutex(t, "downMain", "setState", mutexDown(t, mainMutexId))
  /\ UNCHANGED call

\* Whom takeForks and putForks call checkForks for.
afterSetting(t) ==
  IF call[t] = "takeForks" THEN <<philoId[t]>> ELSE <<left(philoId[t]), right(philoId[t])>>

SetState(t) ==
  /\ PhiloGoes(t, "setState", "checkForks")
  /\ philoState' = [philoState EXCEPT
       ![philoId[t]] = IF call[t] = "takeForks" THEN "HUNGRY" ELSE "THINKING"]
  /\ toCheck' = [toCheck EXCEPT ![t] = afterSetting(t)]
  /\ UNCHANGED <<syncVars, auxCounter, call, philoId, counterRead>>

\* checkForks: the first state that is in the way ends it.
Check(t, from, to, good) ==
  /\ toCheck[t] # <<>>
  /\ PhiloGoes(t, from, IF good THEN to ELSE "checkForks")
  /\ toCheck' = IF good THEN toCheck ELSE [toCheck EXCEPT ![t] = Tail(@)]
  /\ UNCHANGED <<syncVars, auxCounter, philoState, call, philoId, counterRead>>

CheckForks(t) ==
  LET p == Head(toCheck[t])
  IN \/ Check(t, "checkForks", "checkLeft", philoState[p] = "HUNGRY")
     \/ Check(t, "checkLeft", "checkRight", philoState[left(p)] # "EATING")
     \/ Check(t, "checkRight", "setEating", philoState[right(p)] # "EATING")

SetEating(t) ==
  /\ PhiloGoes(t, "setEating", "upPhilosopher")
  /\ philoState' = [philoState EXCEPT ![Head(toCheck[t])] = "EATING"]
  /\ UNCHANGED <<syncVars, auxCounter, call, philoId, counterRead, toCheck>>

\* Mutant: who checks lets itself eat.
UpPhilosopherOwn(t) ==
  /\ PhiloGoes(t, "upPhilosopher", "checkForks")
  /\ mutexUp(philoMutexId[philoId[t]])
  /\ toCheck' = [toCheck EXCEPT ![t] = Tail(@)]
  /\ UNCHANGED <<auxCounter, philoState, call, philoId, counterRead>>

UpPhilosopher(t) ==
  /\ PhiloGoes(t, "upPhilosopher", "checkForks")
  /\ mutexUp(philoMutexId[Head(toCheck[t])])
  /\ toCheck' = [toCheck EXCEPT ![t] = Tail(@)]
  /\ UNCHANGED <<auxCounter, philoState, call, philoId, counterRead>>

\* takeForks goes on to wait for its own mutex, putForks returns.
UpMain(t) ==
  /\ toCheck[t] = <<>>
  /\ CallsMutex(t, "checkForks", IF call[t] = "takeForks" THEN "downPhilosopher" ELSE "downMain",
                mutexUp(mainMutexId))
  /\ call' = [call EXCEPT ![t] = "takeForks"]

DownPhilosopher(t) ==
  /\ CallsMutex(t, "downPhilosopher", "downMain", mutexDown(t, philoMutexId[philoId[t]]))
  /\ call' = [call EXCEPT ![t] = "putForks"]

philosopher(t) ==
  \/ ReadId(t) \/ ReadCounter(t) \/ WriteCounter(t)
  \/ DownMain(t) \/ SetState(t) \/ CheckForks(t) \/ SetEating(t) \/ UpPhilosopher(t)
  \/ UpMain(t) \/ DownPhilosopher(t)

PhilosophersNext == philosophers \/ \E t \in Philosopher : philosopher(t)

----------------------------------------------------------------------------
\* With a number each the philosophers never all wait for each other, although the mutex
\* lets two of them in together, and the first of them eat, and give leave to eat,
\* before the others are set up (shell.c:112-185).
SomePhilosopherRuns ==
  /\ \A t \in Philosopher : philoAt[t] \notin {"none", "readId"}
  /\ \A t, u \in Philosopher : t # u => philoId[t] # philoId[u]
  => \E t \in Philosopher : ~Blocked(t)

\* "prints solution to philosophers problem" (shell.c:29): two neighbours never eat
\* together.  A state is what the program prints.
NeighboursDoNotEat ==
  \A p \in Philosopher :
    p # right(p) => ~(philoState[p] = "EATING" /\ philoState[right(p)] = "EATING")
============================================================================
