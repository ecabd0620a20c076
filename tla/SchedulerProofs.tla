-------------------------- MODULE SchedulerProofs --------------------------
(***************************************************************************)
(* Theorems about the scheduler, for every number of processes, threads    *)
(* and ticks in a quantum.                                                 *)
(***************************************************************************)
EXTENDS Scheduler, FiniteSetTheorems, TLAPS

(* init is always in the list, and is never blocked or killed. *)
InitAlive == 0 \in queue /\ Runnable(0)

(* The counters stay below the identifiers handed out. *)
CountersBounded ==
  /\ queueSize <= currentPid
  /\ \A p \in Pid : threadSize[p] <= currentPThread[p]

IInv == TypeOK /\ RunningIsCurrent /\ InitAlive /\ CountersBounded

(* Pids and pthreads are intervals of numbers from 0. *)
LEMMA Identifiers ==
  /\ \A p : p \in Pid <=> p \in Int /\ 0 <= p /\ p <= MaxPid
  /\ \A t : t \in Pthread <=> t \in Int /\ 0 <= t /\ t <= MaxThreads - 1
  /\ 0 \in Pid /\ 1 \in Pid /\ 0 \in Pthread
BY BoundsAssumption DEF Pid, Pthread

(* The states a process and a thread can be in are all different. *)
LEMMA StateTypes ==
  /\ "READY" \in processState /\ "RUNNING" \in processState /\ "DEAD" \in processState
  /\ "T_READY" \in threadState /\ "T_RUNNING" \in threadState /\ "T_DEAD" \in threadState
  /\ ~isProcessBlocked("READY") /\ ~isProcessBlocked("RUNNING") /\ ~isProcessBlocked("DEAD")
  /\ \A s \in ProcessBlockedStates : s \in processState /\ s # "READY" /\ s # "RUNNING" /\ s # "DEAD"
  /\ \A s \in ThreadBlockedStates : s \in threadState /\ s # "T_READY" /\ s # "T_RUNNING" /\ s # "T_DEAD"
BY DEF processState, threadState, isProcessBlocked, ProcessBlockedStates, ThreadBlockedStates

(* getBlockProcessType gives the process state for each reason to block. *)
LEMMA BlockType ==
  ASSUME NEW type \in ThreadBlockedStates
  PROVE  getBlockProcessType(type) \in ProcessBlockedStates
BY DEF getBlockProcessType, ThreadBlockedStates, ProcessBlockedStates

(* main leaves the kernel in a state that satisfies the invariant. *)
LEMMA InitIInv == Init => IInv
<1> SUFFICES ASSUME Init PROVE IInv
  OBVIOUS
<1> USE BoundsAssumption, QuantumAssumption, StateTypes DEF Init
<1>1. TypeOK
  BY Identifiers DEF TypeOK
<1>2. RunningIsCurrent
  BY Identifiers DEF RunningIsCurrent
<1>3. InitAlive /\ CountersBounded
  BY Identifiers DEF InitAlive, CountersBounded, Runnable
<1> QED BY <1>1, <1>2, <1>3 DEF IInv

(* A thread switch keeps the threads of the process well formed. *)
LEMMA ThreadCheckType ==
  ASSUME IInv, NEW tick \in 0..THREAD_QUANTUM, threadCheck(tick)
  PROVE  /\ threadTick' \in [Pid -> 0..THREAD_QUANTUM]
         /\ currentThread' \in [Pid -> Pthread]
         /\ tstate' \in [Pid -> [Pthread -> threadState]]
<1> USE BoundsAssumption, QuantumAssumption
<1> DEFINE p == currentProcess
<1>1. /\ p \in Pid
      /\ threadTick \in [Pid -> 0..THREAD_QUANTUM]
      /\ currentThread \in [Pid -> Pthread]
      /\ currentPThread \in [Pid -> 0..MaxThreads]
      /\ tstate \in [Pid -> [Pthread -> threadState]]
  BY DEF IInv, TypeOK
<1> HIDE DEF p
<1>2. CASE tick < THREAD_QUANTUM
  <2>1. threadTick' = [threadTick EXCEPT ![p] = tick + 1]
        /\ UNCHANGED <<currentThread, tstate>>
    BY <1>2 DEF threadCheck, p
  <2>2. tick + 1 \in 0..THREAD_QUANTUM
    BY <1>2
  <2> QED BY <1>1, <2>1, <2>2
<1>3. CASE tick >= THREAD_QUANTUM
  <2> DEFINE ts == IF tstate[p][currentThread[p]] = "T_RUNNING"
                     THEN [tstate[p] EXCEPT ![currentThread[p]] = "T_READY"]
                     ELSE tstate[p]
  <2>1. threadTick' = [threadTick EXCEPT ![p] = 0] /\ nextThread
    BY <1>3 DEF threadCheck, p
  <2>2. PICK t \in threadsOf(p) :
          /\ currentThread' = [currentThread EXCEPT ![p] = t]
          /\ tstate' = [tstate EXCEPT ![p] = [ts EXCEPT ![t] = "T_RUNNING"]]
    BY <2>1 DEF nextThread, p
  <2>3. t \in Pthread
    BY <1>1, <2>2, Identifiers DEF threadsOf
  <2>4. ts \in [Pthread -> threadState]
    BY <1>1, StateTypes
  <2>5. [ts EXCEPT ![t] = "T_RUNNING"] \in [Pthread -> threadState]
    BY <2>3, <2>4, StateTypes
  <2> HIDE DEF ts
  <2>6. threadTick' \in [Pid -> 0..THREAD_QUANTUM]
    BY <1>1, <2>1
  <2>7. currentThread' \in [Pid -> Pthread]
    BY <1>1, <2>2, <2>3
  <2>8. tstate' \in [Pid -> [Pthread -> threadState]]
    BY <1>1, <2>2, <2>5
  <2> QED BY <2>6, <2>7, <2>8
<1> QED BY <1>2, <1>3

(* A process switch marks the process it picks RUNNING and the one it leaves *)
(* no longer so, and picks a process that stays in the list.                 *)
LEMMA ProcessSwitchInv ==
  ASSUME IInv, NEW tick \in 0..THREAD_QUANTUM, processSwitch(tick)
  PROVE  /\ queue' \subseteq queue /\ 0 \in queue'
         /\ freed' \subseteq Pid
         /\ currentProcess' \in queue'
         /\ numberOfTicks' = 0
         /\ state' \in [Pid -> processState]
         /\ threadTick' \in [Pid -> 0..THREAD_QUANTUM]
         /\ RunningIsCurrent'
         /\ Runnable(0)'
<1> USE BoundsAssumption, QuantumAssumption, StateTypes DEF IInv, TypeOK
<1>1. PICK p \in queue :
        /\ requeue[p] = "READY"
        /\ currentProcess' = p
        /\ state' = [requeue EXCEPT ![p] = "RUNNING"]
  BY DEF processSwitch, IsNextProcess, IsNextIn
<1>2. requeue \in [Pid -> processState]
  BY DEF requeue
<1>3. visitedDead \subseteq {q \in queue : state[q] = "DEAD"}
  BY DEF visitedDead
<1>4. queue' = queue \ unlinkedDead /\ unlinkedDead \subseteq visitedDead
      /\ freed' = freed \cup visitedDead
  BY DEF processSwitch, removeDeadProcess, unlinkedDead
<1>5. p \notin visitedDead /\ 0 \notin visitedDead
  BY <1>1, <1>3 DEF requeue, InitAlive, Runnable
<1>6. RunningIsCurrent'
  <2> SUFFICES ASSUME NEW q \in queue', state'[q] = "RUNNING", q # p PROVE FALSE
    BY <1>1 DEF RunningIsCurrent
  <2>1. q \in queue /\ requeue[q] = "RUNNING"
    BY <1>1, <1>2, <1>4
  <2>2. state[q] = "RUNNING" /\ q # currentProcess
    BY <2>1 DEF requeue
  <2> QED BY <2>1, <2>2 DEF RunningIsCurrent
<1>7. Runnable(0)'
  BY <1>1, <1>2 DEF InitAlive, Runnable, requeue
<1> QED BY <1>1, <1>2, <1>3, <1>4, <1>5, <1>6, <1>7 DEF processSwitch, InitAlive

(* runScheduler keeps the invariant, with whatever counters it is entered. *)
LEMMA RunSchedulerInv ==
  ASSUME IInv, NEW ticks \in 0..QUANTUM, NEW tick \in 0..THREAD_QUANTUM,
         runScheduler(ticks, tick), owesYield' \subseteq Pid \X Pthread
  PROVE  IInv'
<1> USE BoundsAssumption, QuantumAssumption
<1>1. CASE quantumLeft(ticks) /\ numberOfTicks' = ticks + 1 /\ threadCheck(tick)
           /\ UNCHANGED <<queue, freed, currentProcess, state>>
  <2>1. /\ threadTick' \in [Pid -> 0..THREAD_QUANTUM]
        /\ currentThread' \in [Pid -> Pthread]
        /\ tstate' \in [Pid -> [Pthread -> threadState]]
    BY <1>1, ThreadCheckType
  <2>2. ticks + 1 \in 0..QUANTUM
    BY <1>1 DEF quantumLeft
  <2>3. TypeOK'
    BY <1>1, <2>1, <2>2 DEF IInv, TypeOK, runScheduler
  <2>4. RunningIsCurrent' /\ InitAlive' /\ CountersBounded'
    BY <1>1 DEF IInv, RunningIsCurrent, InitAlive, CountersBounded, Runnable, runScheduler
  <2> QED BY <2>3, <2>4 DEF IInv
<1>2. CASE processSwitch(tick)
  <2>0. /\ queue' \subseteq queue /\ 0 \in queue'
        /\ freed' \subseteq Pid
        /\ currentProcess' \in queue'
        /\ numberOfTicks' = 0
        /\ state' \in [Pid -> processState]
        /\ threadTick' \in [Pid -> 0..THREAD_QUANTUM]
        /\ RunningIsCurrent'
        /\ Runnable(0)'
    BY <1>2, ProcessSwitchInv
  <2>a. UNCHANGED <<queueSize, currentPid, threadSize, currentPThread, currentThread, tstate>>
    BY <1>2 DEF runScheduler, processSwitch
  <2>1. TypeOK'
    BY <2>0, <2>a DEF IInv, TypeOK
  <2>2. RunningIsCurrent' /\ InitAlive' /\ CountersBounded'
    BY <2>0 DEF IInv, InitAlive, CountersBounded, runScheduler
  <2> QED BY <2>1, <2>2 DEF IInv
<1> QED BY <1>1, <1>2 DEF runScheduler

(* A wake-up only turns a blocked process into a READY one. *)
LEMMA WakeInv ==
  ASSUME IInv, NEW p \in queue, NEW bt \in ProcessBlockedStates,
         state' = [state EXCEPT ![p] = IF @ = bt THEN "READY" ELSE @],
         tstate' \in [Pid -> [Pthread -> threadState]],
         UNCHANGED <<queue, queueSize, currentProcess, numberOfTicks, currentPid,
                 threadTick, threadSize, currentThread, currentPThread, freed, owesYield>>
  PROVE  IInv'
<1>1. p \in Pid /\ state' \in [Pid -> processState]
  BY StateTypes DEF IInv, TypeOK
<1>2. TypeOK'
  BY <1>1 DEF IInv, TypeOK
<1>3. RunningIsCurrent' /\ InitAlive' /\ CountersBounded'
  BY <1>1, StateTypes, Identifiers
     DEF IInv, TypeOK, RunningIsCurrent, InitAlive, CountersBounded, Runnable
<1> QED BY <1>2, <1>3 DEF IInv

(* removeProcess spares init and makes no process RUNNING. *)
LEMMA RemoveProcessInv ==
  ASSUME IInv, NEW p \in queue, queueSize > 0, removeProcess(p),
         UNCHANGED <<queue, currentProcess>>
  PROVE  /\ state' \in [Pid -> processState]
         /\ queueSize' \in 0..(MaxPid + 1) /\ queueSize' <= queueSize
         /\ RunningIsCurrent'
         /\ InitAlive'
<1>1. p \in Pid /\ queueSize \in 0..(MaxPid + 1) /\ state \in [Pid -> processState]
  BY DEF IInv, TypeOK
<1>2. CASE p \in {0, 1}
  <2>1. UNCHANGED <<state, queueSize>>
    BY <1>2 DEF removeProcess
  <2> QED BY <1>1, <2>1, BoundsAssumption DEF IInv, RunningIsCurrent, InitAlive, Runnable
<1>3. CASE p \notin {0, 1}
  <2>1. state' = [state EXCEPT ![p] = "DEAD"] /\ queueSize' = queueSize - 1
    BY <1>3 DEF removeProcess
  <2>2. queueSize' \in 0..(MaxPid + 1) /\ queueSize' <= queueSize
    BY <1>1, <2>1, BoundsAssumption
  <2>3. RunningIsCurrent' /\ InitAlive'
    BY <1>1, <1>3, <2>1, Identifiers DEF IInv, TypeOK, RunningIsCurrent, InitAlive, Runnable
  <2> QED BY <1>1, <2>1, <2>2, <2>3, StateTypes
<1> QED BY <1>2, <1>3

(* Every step of the kernel keeps the invariant. *)
LEMMA NextIInv == IInv /\ [Next]_vars => IInv'
<1> SUFFICES ASSUME IInv, [Next]_vars PROVE IInv'
  OBVIOUS
<1> USE BoundsAssumption, QuantumAssumption
<1>0. /\ currentProcess \in Pid
      /\ getCurrentPthread \in Pthread
      /\ threadTick[currentProcess] \in 0..THREAD_QUANTUM
      /\ numberOfTicks \in 0..QUANTUM
  BY DEF IInv, TypeOK, getCurrentPthread
<1>1. CASE Tick
  BY <1>0, <1>1, RunSchedulerInv DEF Tick, IInv, TypeOK
<1>2. CASE Yield
  <2>1. owesYield' \subseteq Pid \X Pthread
    BY <1>2 DEF Yield, IInv, TypeOK
  <2>2. CASE runScheduler(QUANTUM, threadTick[currentProcess])
    BY <1>0, <2>1, <2>2, RunSchedulerInv
  <2>3. CASE runScheduler(numberOfTicks, THREAD_QUANTUM)
    BY <1>0, <2>1, <2>3, RunSchedulerInv
  <2>4. CASE UNCHANGED <<queue, queueSize, currentProcess, numberOfTicks,
                         currentPid, state, freed, threadVars>>
    BY <2>1, <2>4 DEF IInv, TypeOK, RunningIsCurrent, InitAlive, CountersBounded,
                      Runnable, threadVars
  <2> QED BY <1>2, <2>2, <2>3, <2>4 DEF Yield
<1>3. CASE AddProcess
  <2> DEFINE p == currentPid
  <2>1. /\ p \in Pid /\ p + 1 \in 2..(MaxPid + 1) /\ p # 0
        /\ queueSize + 1 \in 0..(MaxPid + 1)
    <3>1. /\ currentPid \in 2..(MaxPid + 1) /\ queueSize \in 0..(MaxPid + 1)
          /\ queueSize <= currentPid
      BY DEF IInv, TypeOK, CountersBounded
    <3>2. currentPid <= MaxPid
      BY <1>3 DEF AddProcess
    <3> QED
      BY <3>1, <3>2, BoundsAssumption DEF Pid
  <2>2. /\ currentPid' = p + 1
        /\ queue' = queue \cup {p}
        /\ queueSize' = queueSize + 1
        /\ UNCHANGED <<currentProcess, numberOfTicks, freed, owesYield>>
    BY <1>3 DEF AddProcess
  <2>3. /\ state' = [state EXCEPT ![p] = "READY"]
        /\ threadTick' = [threadTick EXCEPT ![p] = 0]
        /\ currentThread' = [currentThread EXCEPT ![p] = 0]
        /\ currentPThread' = [currentPThread EXCEPT ![p] = 1]
        /\ threadSize' = [threadSize EXCEPT ![p] = 1]
        /\ tstate' = [tstate EXCEPT ![p][0] = "T_READY"]
    BY <1>3 DEF AddProcess
  <2> HIDE DEF p
  <2>4. /\ state' \in [Pid -> processState]
        /\ threadTick' \in [Pid -> 0..THREAD_QUANTUM]
        /\ currentThread' \in [Pid -> Pthread]
    BY <2>1, <2>3, StateTypes, Identifiers DEF IInv, TypeOK
  <2>5. /\ currentPThread' \in [Pid -> 0..MaxThreads]
        /\ threadSize' \in [Pid -> 0..MaxThreads]
        /\ \A q \in Pid : threadSize'[q] <= currentPThread'[q]
    BY <2>1, <2>3 DEF IInv, TypeOK, CountersBounded
  <2>6. tstate' \in [Pid -> [Pthread -> threadState]]
    BY <2>1, <2>3, StateTypes DEF IInv, TypeOK
  <2>7. TypeOK'
    BY <2>1, <2>2, <2>4, <2>5, <2>6 DEF IInv, TypeOK
  <2>8. RunningIsCurrent' /\ InitAlive'
    BY <2>1, <2>2, <2>3 DEF IInv, TypeOK, RunningIsCurrent, InitAlive, Runnable
  <2>9. CountersBounded'
    BY <2>2, <2>5 DEF IInv, TypeOK, CountersBounded, p
  <2> QED BY <2>7, <2>8, <2>9 DEF IInv
<1>4. ASSUME NEW p \in queue, AddThread(p) PROVE IInv'
  <2> DEFINE t == currentPThread[p]
  <2>1. /\ p \in Pid /\ t \in Pthread /\ t + 1 \in 0..MaxThreads
        /\ threadSize[p] + 1 \in 0..MaxThreads
    BY <1>0, <1>4, Identifiers DEF AddThread, IInv, TypeOK, CountersBounded
  <2>2. /\ tstate' = [tstate EXCEPT ![p][t] = "T_READY"]
        /\ currentPThread' = [currentPThread EXCEPT ![p] = t + 1]
        /\ threadSize' = [threadSize EXCEPT ![p] = threadSize[p] + 1]
        /\ UNCHANGED <<queue, queueSize, currentProcess, numberOfTicks, currentPid,
                       state, threadTick, currentThread, freed, owesYield>>
    BY <1>4 DEF AddThread
  <2>3. tstate' \in [Pid -> [Pthread -> threadState]]
    BY <2>1, <2>2, StateTypes DEF IInv, TypeOK
  <2>4. /\ currentPThread' \in [Pid -> 0..MaxThreads]
        /\ threadSize' \in [Pid -> 0..MaxThreads]
        /\ \A q \in Pid : threadSize'[q] <= currentPThread'[q]
    BY <2>1, <2>2 DEF IInv, TypeOK, CountersBounded
  <2>5. TypeOK'
    BY <2>2, <2>3, <2>4 DEF IInv, TypeOK
  <2>6. RunningIsCurrent' /\ InitAlive' /\ CountersBounded'
    BY <2>2, <2>4 DEF IInv, RunningIsCurrent, InitAlive, CountersBounded, Runnable
  <2> QED BY <2>5, <2>6 DEF IInv
<1>5. ASSUME NEW type \in BlockTypes, Block(type) PROVE IInv'
  <2> DEFINE p == currentProcess
             t == getCurrentPthread
             bt == getBlockProcessType(type)
  <2>1. type \in threadState /\ bt \in processState /\ bt # "RUNNING"
    BY BlockAssumption, BlockType, StateTypes
  <2>2. /\ p \in Pid /\ p \in queue /\ t \in Pthread /\ p # 0
        /\ owesYield' = owesYield \cup {<<p, t>>}
        /\ UNCHANGED <<queue, queueSize, currentProcess, currentPid, threadSize,
                       currentThread, currentPThread, freed>>
    BY <1>0, <1>5 DEF Block, ThenYield, CanCall, IInv, TypeOK
  <2>3. /\ tstate' = [tstate EXCEPT ![p][t] = type]
        /\ threadTick' = [threadTick EXCEPT ![p] = THREAD_QUANTUM]
        /\ \/ state' = [state EXCEPT ![p] = bt] /\ numberOfTicks' = QUANTUM
           \/ UNCHANGED <<state, numberOfTicks>>
    BY <1>5 DEF Block, blockThread, blockProcess
  <2> HIDE DEF p, t, bt
  <2>4. /\ tstate' \in [Pid -> [Pthread -> threadState]]
        /\ threadTick' \in [Pid -> 0..THREAD_QUANTUM]
    BY <2>1, <2>2, <2>3 DEF IInv, TypeOK
  <2>5. state' \in [Pid -> processState] /\ numberOfTicks' \in 0..QUANTUM
    BY <2>1, <2>2, <2>3 DEF IInv, TypeOK
  <2>6. TypeOK'
    BY <2>2, <2>4, <2>5 DEF IInv, TypeOK
  <2>7. RunningIsCurrent' /\ InitAlive' /\ CountersBounded'
    BY <2>1, <2>2, <2>3, Identifiers
       DEF IInv, TypeOK, RunningIsCurrent, InitAlive, CountersBounded, Runnable
  <2> QED BY <2>6, <2>7 DEF IInv
<1>6. ASSUME NEW p \in queue, NEW t \in threadsOf(p), Unblock(p, t) PROVE IInv'
  <2>1. p \in Pid /\ t \in Pthread
    BY Identifiers DEF IInv, TypeOK, threadsOf
  <2>2. tstate' \in [Pid -> [Pthread -> threadState]]
    BY <1>6, <2>1, StateTypes DEF Unblock, unblockThread, IInv, TypeOK
  <2>3. PICK bt \in ProcessBlockedStates :
          state' = [state EXCEPT ![p] = IF @ = bt THEN "READY" ELSE @]
    BY <1>6, BlockAssumption, BlockType DEF Unblock, unblockThread, unblockProcess
  <2>4. UNCHANGED <<queue, queueSize, currentProcess, numberOfTicks, currentPid,
                 threadTick, threadSize, currentThread, currentPThread, freed, owesYield>>
    BY <1>6 DEF Unblock
  <2> QED BY <2>1, <2>2, <2>3, <2>4, WakeInv
<1>7. ASSUME NEW p \in queue, NEW type \in BlockTypes \ {"T_BLOCKED_MUTEX"}, UnblockAll(p, type)
      PROVE  IInv'
  <2> DEFINE woken == {t \in VisitedThreads(p) : tstate[p][t] = type}
             ts == [t \in Pthread |-> IF t \in woken THEN "T_READY" ELSE tstate[p][t]]
  <2>1. p \in Pid
    BY DEF IInv, TypeOK
  <2>2. ts \in [Pthread -> threadState]
    BY <2>1, StateTypes DEF IInv, TypeOK
  <2>3. /\ tstate' = [tstate EXCEPT ![p] = ts]
        /\ unblockProcess(p, getBlockProcessType(type)) \/ UNCHANGED state
    BY <1>7 DEF UnblockAll, unblockAllThreads
  <2>4. tstate' \in [Pid -> [Pthread -> threadState]]
    <3> HIDE DEF ts
    <3> QED BY <2>1, <2>2, <2>3 DEF IInv, TypeOK
  <2>5. UNCHANGED <<queue, queueSize, currentProcess, numberOfTicks, currentPid,
                 threadTick, threadSize, currentThread, currentPThread, freed, owesYield>>
    BY <1>7 DEF UnblockAll
  <2>6. CASE unblockProcess(p, getBlockProcessType(type))
    <3>1. getBlockProcessType(type) \in ProcessBlockedStates
      BY BlockAssumption, BlockType
    <3> QED BY <2>4, <2>5, <2>6, <3>1, WakeInv DEF unblockProcess
  <2>7. CASE UNCHANGED state
    BY <2>4, <2>5, <2>7 DEF IInv, TypeOK, RunningIsCurrent, InitAlive, CountersBounded, Runnable
  <2> QED BY <2>3, <2>6, <2>7
<1>8. ASSUME NEW p \in queue, Kill(p) PROVE IInv'
  <2>1. /\ UNCHANGED <<queue, currentProcess, numberOfTicks, currentPid, freed, threadVars>>
        /\ owesYield' \subseteq Pid \X Pthread
        /\ queueSize > 0
        /\ removeProcess(p)
    BY <1>0, <1>8 DEF Kill, ThenYield, IInv, TypeOK
  <2> QED BY <2>1, RemoveProcessInv DEF threadVars, IInv, TypeOK, CountersBounded
<1>9. ASSUME NEW p \in queue, NEW t \in Pthread, KillThread(p, t) PROVE IInv'
  <2>1. /\ UNCHANGED <<queue, currentProcess, numberOfTicks, currentPid, threadTick,
                       currentThread, currentPThread, freed>>
        /\ owesYield' \subseteq Pid \X Pthread
        /\ threadSize[p] > 0 /\ queueSize > 0
        /\ p \in Pid
    BY <1>0, <1>9 DEF KillThread, ThenYield, IInv, TypeOK
  <2>2. CASE UNCHANGED <<state, queueSize, tstate, threadSize>>
    BY <2>1, <2>2 DEF IInv, TypeOK, RunningIsCurrent, InitAlive, CountersBounded, Runnable
  <2>3. CASE /\ removeProcess(p) \/ UNCHANGED <<state, queueSize>>
             /\ tstate' = [tstate EXCEPT ![p][t] = "T_DEAD"]
             /\ threadSize' = [threadSize EXCEPT ![p] = threadSize[p] - 1]
    <3>1. tstate' \in [Pid -> [Pthread -> threadState]]
      BY <2>1, <2>3, StateTypes DEF IInv, TypeOK
    <3>2. /\ threadSize' \in [Pid -> 0..MaxThreads]
          /\ \A q \in Pid : threadSize'[q] <= currentPThread'[q]
      BY <2>1, <2>3, BoundsAssumption DEF IInv, TypeOK, CountersBounded
    <3>3. /\ state' \in [Pid -> processState]
          /\ queueSize' \in 0..(MaxPid + 1) /\ queueSize' <= queueSize
          /\ RunningIsCurrent' /\ InitAlive'
      <4>1. CASE removeProcess(p)
        BY <2>1, <4>1, RemoveProcessInv
      <4>2. CASE UNCHANGED <<state, queueSize>>
        BY <2>1, <4>2 DEF IInv, TypeOK, RunningIsCurrent, InitAlive, Runnable
      <4> QED BY <2>3, <4>1, <4>2
    <3>4. TypeOK'
      BY <2>1, <3>1, <3>2, <3>3 DEF IInv, TypeOK
    <3>5. CountersBounded'
      BY <2>1, <3>2, <3>3 DEF IInv, TypeOK, CountersBounded
    <3> QED BY <3>3, <3>4, <3>5 DEF IInv
  <2> QED BY <1>9, <2>2, <2>3 DEF KillThread, removeThread
<1>10. CASE UNCHANGED vars
  BY <1>10 DEF vars, IInv, TypeOK, RunningIsCurrent, InitAlive, CountersBounded, Runnable
<1> QED
  BY <1>1, <1>2, <1>3, <1>4, <1>5, <1>6, <1>7, <1>8, <1>9, <1>10 DEF Next

(* The invariant holds in every state of every behaviour. *)
THEOREM InvariantHolds == Spec => []IInv
BY InitIInv, NextIInv, PTL DEF Spec

(* Type correctness: among others, the current process is always one that is *)
(* linked in the process list.                                               *)
THEOREM TypeCorrect == Spec => []TypeOK
<1>1. IInv => TypeOK
  BY DEF IInv
<1> QED BY InvariantHolds, <1>1, PTL

(* No process stays marked RUNNING once runScheduler has left it, for every  *)
(* use of the system calls, pkill and tkill of any process included.         *)
THEOREM OnlyCurrentRuns == Spec => []RunningIsCurrent
<1>1. IInv => RunningIsCurrent
  BY DEF IInv
<1> QED BY InvariantHolds, <1>1, PTL

(* The unbounded search for a READY process in runScheduler always has a     *)
(* process to find: init, which is never blocked nor killed.                 *)
THEOREM SearchTerminates == Spec => []SwitchTerminates
<1>1. IInv => SwitchTerminates
  BY DEF IInv, RunningIsCurrent, InitAlive, Runnable, SwitchTerminates
<1> QED BY InvariantHolds, <1>1, PTL

----------------------------------------------------------------------------
(***************************************************************************)
(* Programs of one thread that only exit.  An exited process is current    *)
(* until it is removed, because its thread owes the yield of pkill; so     *)
(* there is at most one, and the walk of removeDeadProcess reaches it:     *)
(* init and the shell are live and linked behind it.                       *)
(***************************************************************************)

ExitOnly == MaxThreads = 1 /\ ~KillAny

live == {p \in queue : ~Dead(p)}

ExitInv ==
  /\ QueueConsistent
  /\ DeadNeverRuns
  /\ 1 \in queue /\ ~Dead(1)
  /\ \A p \in queue \cup freed : p < currentPid

(* The process list is finite. *)
LEMMA FiniteLists ==
  ASSUME IInv
  PROVE  IsFiniteSet(queue) /\ IsFiniteSet(live)
<1>1. IsFiniteSet(Pid)
  BY FS_Interval, BoundsAssumption DEF Pid
<1>2. queue \in SUBSET Pid /\ live \in SUBSET Pid
  BY DEF IInv, TypeOK, live
<1> QED BY <1>1, <1>2, FS_Subset

(* A dead current process is within the nodes removeDeadProcess visits. *)
LEMMA DeadIsVisited ==
  ASSUME IInv, ExitInv, Dead(currentProcess)
  PROVE  PlaceOfProcess(currentProcess) < queueSize
<1> DEFINE c == currentProcess
           A == {r \in queue : r > c}
<1>1. c \in Pid /\ c \in queue /\ c > 1
  <2>1. c \in Pid /\ c \in queue
    BY DEF IInv, TypeOK
  <2>2. c # 0 /\ c # 1
    BY DEF IInv, InitAlive, Runnable, ExitInv, Dead
  <2> QED BY <2>1, <2>2, Identifiers
<1>2. IsFiniteSet(queue) /\ IsFiniteSet(live)
  BY FiniteLists
<1>3. IsFiniteSet(A) /\ Cardinality(A) \in Nat
  <2>1. A \in SUBSET queue
    OBVIOUS
  <2> QED BY <1>2, <2>1, FS_Subset, FS_CardinalityType
<1>4. 0 \notin A /\ 1 \notin A \cup {0}
  BY <1>1, Identifiers
<1>5. IsFiniteSet(A \cup {0}) /\ Cardinality(A \cup {0}) = Cardinality(A) + 1
  BY <1>3, <1>4, FS_AddElement
<1>6. Cardinality((A \cup {0}) \cup {1}) = Cardinality(A) + 2
  <2> DEFINE B == A \cup {0}
  <2>1. Cardinality(B \cup {1}) = Cardinality(B) + 1
    BY <1>4, <1>5, FS_AddElement
  <2> QED BY <1>3, <1>5, <2>1
<1>7. (A \cup {0}) \cup {1} \in SUBSET live
  BY <1>1, Identifiers DEF live, ExitInv, QueueConsistent, IInv, TypeOK, InitAlive, Runnable, Dead
<1>8. Cardinality((A \cup {0}) \cup {1}) <= Cardinality(live)
  BY <1>2, <1>7, FS_Subset
<1>9. queueSize = Cardinality(live)
  BY DEF ExitInv, QueueConsistent, live
<1>10. PlaceOfProcess(c) = 1 + Cardinality(A)
  BY <1>1, Identifiers DEF PlaceOfProcess
<1>11. Cardinality(live) \in Nat
  BY <1>2, FS_CardinalityType
<1> HIDE DEF A, c
<1>12. PlaceOfProcess(c) < queueSize
  BY <1>3, <1>6, <1>8, <1>9, <1>10, <1>11
<1> QED BY <1>12 DEF c

(* removeDeadProcess frees and unlinks exactly the dead. *)
LEMMA AllDeadUnlinked ==
  ASSUME IInv, ExitInv
  PROVE  /\ visitedDead = {p \in queue : Dead(p)}
         /\ unlinkedDead = {p \in queue : Dead(p)}
<1>1. visitedDead = {p \in queue : Dead(p)}
  BY DeadIsVisited DEF visitedDead, ExitInv, QueueConsistent, Dead
<1>2. ASSUME NEW p \in visitedDead PROVE deadRunBefore(p) = {}
  <2>1. \A r \in visitedDead : r = p
    BY <1>1 DEF ExitInv, QueueConsistent
  <2>2. p \in Int
    BY <1>1, Identifiers DEF IInv, TypeOK
  <2>3. \A r \in deadRunBefore(p) : r \in visitedDead /\ r > p
    BY DEF deadRunBefore
  <2>4. ASSUME NEW r \in deadRunBefore(p) PROVE FALSE
    <3>1. r = p /\ r > p
      BY <2>1, <2>3
    <3>2. ~(p > p)
      BY <2>2
    <3> QED BY <3>1, <3>2
  <2> QED BY <2>4
<1>3. ASSUME NEW p \in visitedDead PROVE Cardinality(deadRunBefore(p)) % 2 = 0
  <2>1. Cardinality(deadRunBefore(p)) = 0
    BY <1>2, FS_EmptySet
  <2> QED BY <2>1
<1> QED BY <1>1, <1>3 DEF unlinkedDead

(* So a process switch leaves only live processes in the list. *)
LEMMA ProcessSwitchExit ==
  ASSUME IInv, ExitInv, NEW tick \in 0..THREAD_QUANTUM, processSwitch(tick),
         UNCHANGED <<queueSize, currentPid>>
  PROVE  ExitInv' /\ \A p \in queue : Dead(p) => Dead(p)'
<1>1. PICK p \in queue :
        /\ requeue[p] = "READY"
        /\ currentProcess' = p
        /\ state' = [requeue EXCEPT ![p] = "RUNNING"]
  BY DEF processSwitch, IsNextProcess, IsNextIn
<1>2. queue' = live /\ freed' = freed \cup {q \in queue : Dead(q)}
  BY AllDeadUnlinked DEF processSwitch, removeDeadProcess, live
<1>3. state \in [Pid -> processState] /\ queue \subseteq Pid
  BY DEF IInv, TypeOK
<1>4. \A q \in queue : Dead(q)' <=> Dead(q)
  BY <1>1, <1>3, StateTypes DEF requeue, Dead
<1>5. p \in live
  BY <1>1, <1>3 DEF requeue, live, Dead
<1>6. {q \in queue' : ~Dead(q)'} = live
  BY <1>2, <1>4 DEF live
<1>7. QueueConsistent'
  <2>1. queueSize' = Cardinality({q \in queue' : ~Dead(q)'})
    BY <1>6 DEF ExitInv, QueueConsistent, live
  <2>2. \A q \in queue' : ~Dead(q)'
    BY <1>2, <1>4 DEF live
  <2>3. queue' \cap freed' = {}
    BY <1>2 DEF live, ExitInv, QueueConsistent
  <2> QED BY <2>1, <2>2, <2>3 DEF QueueConsistent
<1>8. DeadNeverRuns'
  BY <1>1, <1>4, <1>5 DEF DeadNeverRuns, live
<1>9. 1 \in queue' /\ ~Dead(1)'
  BY <1>2, <1>4 DEF ExitInv, live
<1>10. \A q \in queue' \cup freed' : q < currentPid'
  BY <1>2 DEF ExitInv, live
<1> QED BY <1>4, <1>7, <1>8, <1>9, <1>10 DEF ExitInv

(* Everything else changes no more than one live process, or adds one. *)
LEMMA SameLive ==
  ASSUME ExitInv, UNCHANGED <<queue, queueSize, freed, currentProcess, currentPid>>,
         \A p \in queue : Dead(p)' <=> Dead(p), DeadNeverRuns'
  PROVE  ExitInv' /\ \A p \in queue : Dead(p) => Dead(p)'
<1>1. {p \in queue' : ~Dead(p)'} = {p \in queue : ~Dead(p)}
  OBVIOUS
<1>2. QueueConsistent'
  BY <1>1 DEF QueueConsistent, ExitInv
<1> QED BY <1>2 DEF ExitInv

(* Every step of such programs keeps the list consistent and the dead dead. *)
LEMMA NextExitInv ==
  ASSUME ExitOnly, IInv, ExitInv, [Next]_vars
  PROVE  ExitInv' /\ \A p \in queue : Dead(p) => Dead(p)'
<1> USE BoundsAssumption, QuantumAssumption
<1>0. /\ currentProcess \in Pid /\ currentProcess \in queue
      /\ getCurrentPthread = 0 /\ getCurrentPthread \in Pthread
      /\ threadTick[currentProcess] \in 0..THREAD_QUANTUM
      /\ state \in [Pid -> processState] /\ queue \subseteq Pid
  BY Identifiers DEF ExitOnly, IInv, TypeOK, getCurrentPthread
<1>a. getCurrentPthread' = 0
  BY NextIInv, Identifiers DEF ExitOnly, IInv, TypeOK, getCurrentPthread
<1>b. CanCall => ~Dead(currentProcess)
  BY DEF CanCall, ExitInv, DeadNeverRuns
<1>1. ASSUME NEW ticks \in 0..QUANTUM, NEW tick \in 0..THREAD_QUANTUM,
             runScheduler(ticks, tick),
             Dead(currentProcess) =>
               \/ owesYield' = owesYield
               \/ ticks = QUANTUM
      PROVE  ExitInv' /\ \A p \in queue : Dead(p) => Dead(p)'
  <2>1. CASE quantumLeft(ticks) /\ UNCHANGED <<queue, freed, currentProcess, state>>
    <3>1. UNCHANGED <<queueSize, currentPid>>
      BY <1>1 DEF runScheduler
    <3>2. DeadNeverRuns'
      BY <1>0, <1>a, <1>1, <2>1 DEF DeadNeverRuns, ExitInv, Dead, quantumLeft
    <3> QED BY <2>1, <3>1, <3>2, SameLive DEF Dead
  <2>2. CASE processSwitch(tick)
    BY <1>1, <2>2, ProcessSwitchExit DEF runScheduler
  <2> QED BY <1>1, <2>1, <2>2 DEF runScheduler
<1>2. CASE Tick
  BY <1>0, <1>1, <1>2 DEF Tick, IInv, TypeOK
<1>3. CASE Yield
  <2>1. CASE yieldLeaves(state[currentProcess])
    BY <1>0, <1>1, <1>3, <2>1 DEF Yield
  <2>2. CASE ~yieldLeaves(state[currentProcess])
    <3>1. ~Dead(currentProcess)
      BY <2>2 DEF yieldLeaves, Dead
    <3>2. CASE runScheduler(numberOfTicks, THREAD_QUANTUM)
      BY <1>1, <3>1, <3>2 DEF IInv, TypeOK
    <3>3. CASE UNCHANGED <<queue, queueSize, currentProcess, numberOfTicks,
                           currentPid, state, freed, threadVars>>
      BY <3>1, <3>3, SameLive DEF DeadNeverRuns, Dead
    <3> QED BY <1>3, <2>2, <3>2, <3>3 DEF Yield
  <2> QED BY <2>1, <2>2
<1>4. CASE AddProcess
  <2>0. PICK p : p = currentPid
    OBVIOUS
  <2>a. /\ queue' = queue \cup {p}
        /\ queueSize' = queueSize + 1
        /\ state' = [state EXCEPT ![p] = "READY"]
        /\ currentPid' = p + 1
        /\ p <= MaxPid
        /\ UNCHANGED <<currentProcess, freed, owesYield>>
    BY <1>4, <2>0 DEF AddProcess
  <2>b. p \in Pid
    BY <2>0, <2>a, Identifiers DEF IInv, TypeOK
  <2>c. p \notin queue /\ p \notin freed
    BY <2>0, <2>b, Identifiers DEF ExitInv
  <2>1. /\ p \in Pid /\ p \notin queue /\ p \notin freed
        /\ queue' = queue \cup {p}
        /\ queueSize' = queueSize + 1
        /\ state' = [state EXCEPT ![p] = "READY"]
        /\ currentPid' = p + 1
        /\ UNCHANGED <<currentProcess, freed, owesYield>>
    BY <2>a, <2>b, <2>c
  <2>2. /\ \A q \in queue : q # p /\ (Dead(q)' <=> Dead(q))
        /\ ~Dead(p)'
    BY <1>0, <2>1 DEF Dead
  <2>3. {q \in queue' : ~Dead(q)'} = live \cup {p}
    BY <2>1, <2>2 DEF live
  <2>4. IsFiniteSet(live) /\ p \notin live
    BY <2>1, FiniteLists DEF live
  <2>5. Cardinality({q \in queue' : ~Dead(q)'}) = Cardinality(live) + 1
    BY <2>3, <2>4, FS_AddElement
  <2>6. QueueConsistent'
    BY <2>1, <2>2, <2>5 DEF QueueConsistent, ExitInv, live
  <2>7. DeadNeverRuns'
    BY <1>0, <1>a, <2>1, <2>2 DEF DeadNeverRuns, ExitInv
  <2>8. \A q \in queue' \cup freed' : q < currentPid'
    BY <2>0, <2>1, Identifiers DEF ExitInv, IInv, TypeOK
  <2> QED BY <2>1, <2>2, <2>6, <2>7, <2>8 DEF ExitInv
<1>5. ASSUME NEW p \in queue, AddThread(p)
      PROVE  ExitInv' /\ \A q \in queue : Dead(q) => Dead(q)'
  BY <1>0, <1>a, <1>b, <1>5, SameLive DEF AddThread, DeadNeverRuns, Dead
<1>6. ASSUME NEW type \in BlockTypes, Block(type)
      PROVE  ExitInv' /\ \A p \in queue : Dead(p) => Dead(p)'
  <2>1. /\ UNCHANGED <<queue, queueSize, freed, currentProcess, currentPid>>
        /\ ~Dead(currentProcess)
        /\ \/ state' = [state EXCEPT ![currentProcess] = getBlockProcessType(type)]
           \/ state' = state
    BY <1>b, <1>6 DEF Block, blockThread, blockProcess
  <2>2. getBlockProcessType(type) # "DEAD"
    BY BlockAssumption, BlockType, StateTypes
  <2>3. \A p \in queue : Dead(p)' <=> Dead(p)
    BY <1>0, <2>1, <2>2 DEF Dead
  <2> QED BY <1>0, <2>1, <2>3, SameLive DEF DeadNeverRuns
<1>7. ASSUME NEW p \in queue, NEW bt \in ProcessBlockedStates,
             UNCHANGED <<queue, queueSize, freed, currentProcess, currentPid, owesYield>>,
             unblockProcess(p, bt) \/ UNCHANGED state
      PROVE  ExitInv' /\ \A q \in queue : Dead(q) => Dead(q)'
  <2>1. \A q \in queue : Dead(q)' <=> Dead(q)
    BY <1>0, <1>7, StateTypes DEF Dead, unblockProcess
  <2> QED BY <1>0, <1>a, <1>7, <2>1, SameLive DEF DeadNeverRuns, ExitInv
<1>8. ASSUME NEW p \in queue, NEW t \in threadsOf(p), Unblock(p, t)
      PROVE  ExitInv' /\ \A q \in queue : Dead(q) => Dead(q)'
  BY <1>7, <1>8, BlockAssumption, BlockType DEF Unblock, unblockThread
<1>9. ASSUME NEW p \in queue, NEW type \in BlockTypes \ {"T_BLOCKED_MUTEX"}, UnblockAll(p, type)
      PROVE  ExitInv' /\ \A q \in queue : Dead(q) => Dead(q)'
  BY <1>7, <1>9, BlockAssumption, BlockType DEF UnblockAll, unblockAllThreads
<1>10. ASSUME NEW p \in queue, Kill(p)
       PROVE  ExitInv' /\ \A q \in queue : Dead(q) => Dead(q)'
  <2>1. /\ p = currentProcess /\ ~Dead(p)
        /\ UNCHANGED <<queue, freed, currentProcess, currentPid>>
        /\ owesYield' = owesYield \cup {<<p, 0>>}
    BY <1>0, <1>b, <1>10 DEF Kill, ThenYield, ExitOnly
  <2>2. DeadNeverRuns'
    BY <1>a, <2>1 DEF DeadNeverRuns
  <2>3. CASE UNCHANGED <<state, queueSize>>
    BY <2>1, <2>2, <2>3, SameLive DEF Dead
  <2>4. CASE p \notin {0, 1} /\ state' = [state EXCEPT ![p] = "DEAD"] /\ queueSize' = queueSize - 1
    <3>1. Dead(p)' /\ \A q \in queue : q # p => (Dead(q)' <=> Dead(q))
      BY <1>0, <2>1, <2>4 DEF Dead
    <3>2. {q \in queue' : ~Dead(q)'} = live \ {p}
      BY <2>1, <3>1 DEF live
    <3>3. IsFiniteSet(live) /\ p \in live
      BY <2>1, FiniteLists DEF live
    <3>4. Cardinality({q \in queue' : ~Dead(q)'}) = Cardinality(live) - 1
      BY <3>2, <3>3, FS_RemoveElement
    <3>5. QueueConsistent'
      BY <2>1, <2>4, <3>1, <3>4 DEF QueueConsistent, ExitInv, live
    <3> QED BY <2>1, <2>2, <2>4, <3>1, <3>5 DEF ExitInv
  <2> QED BY <1>10, <2>3, <2>4 DEF Kill, removeProcess
<1>11. CASE UNCHANGED vars
  BY <1>11, <1>0, <1>a, SameLive DEF vars, Dead, DeadNeverRuns, ExitInv
<1>12. ASSUME NEW p \in queue, NEW t \in Pthread, KillThread(p, t) PROVE FALSE
  BY <1>12 DEF KillThread, ExitOnly
<1> QED
  BY <1>2, <1>3, <1>4, <1>5, <1>6, <1>8, <1>9, <1>10, <1>11, <1>12 DEF Next

(* At boot no process has exited. *)
LEMMA InitExitInv == Init => ExitInv
<1> SUFFICES ASSUME Init PROVE ExitInv
  OBVIOUS
<1>1. {p \in queue : ~Dead(p)} = {0} \cup {1} /\ \A p \in queue : ~Dead(p)
  BY Identifiers DEF Init, Dead
<1>2. Cardinality({0} \cup {1}) = 2
  <2>1. IsFiniteSet({0}) /\ Cardinality({0}) = 1
    BY FS_Singleton
  <2>2. Cardinality({0} \cup {1}) = Cardinality({0}) + 1
    BY <2>1, FS_AddElement
  <2> QED BY <2>1, <2>2
<1>3. QueueConsistent
  BY <1>1, <1>2 DEF QueueConsistent, Init
<1> QED BY <1>1, <1>3 DEF ExitInv, DeadNeverRuns, Init

(* For programs of one thread that only exit, the process list and its size  *)
(* agree with the processes that are alive, and removeDeadProcess leaves no  *)
(* freed node linked, whatever the number of processes.                      *)
THEOREM ExitKeepsQueueConsistent ==
  ASSUME ExitOnly PROVE Spec => [](QueueConsistent /\ DeadNeverRuns)
<1>1. IInv /\ ExitInv /\ [Next]_vars => ExitInv'
  BY NextExitInv
<1>2. ExitInv => QueueConsistent /\ DeadNeverRuns
  BY DEF ExitInv
<1> QED BY <1>1, <1>2, InitExitInv, InvariantHolds, PTL DEF Spec

(* And no exited process ever comes back to life. *)
THEOREM ExitIsFinal ==
  ASSUME ExitOnly PROVE Spec => DeadStaysDead
<1>1. IInv /\ ExitInv /\ [Next]_vars => ExitInv'
  BY NextExitInv
<1>2. IInv /\ ExitInv /\ [Next]_vars => [\A p \in queue : Dead(p) => state'[p] = "DEAD"]_vars
  BY NextExitInv DEF Dead
<1> QED BY <1>1, <1>2, InitExitInv, InvariantHolds, PTL DEF Spec, DeadStaysDead
----------------------------------------------------------------------------
(***************************************************************************)
(* The states of such processes.  A process is blocked exactly while its   *)
(* thread is, and for the same reason, because blockThread and             *)
(* unblockThread change both; so a switch, which picks a READY process,    *)
(* never resumes a blocked thread.                                         *)
(***************************************************************************)

StatesAgree(p) ==
  /\ threadSize[p] = 1 /\ currentPThread[p] = 1
  /\ tstate[p][0] # "T_DEAD"
  /\ IF isThreadBlocked(tstate[p][0])
       THEN state[p] = getBlockProcessType(tstate[p][0])
       ELSE ~isProcessBlocked(state[p])

BlockedLeaves ==
  isThreadBlocked(tstate[currentProcess][0]) =>
    <<currentProcess, 0>> \in owesYield /\ numberOfTicks = QUANTUM

SingleInv == (\A p \in queue : StatesAgree(p)) /\ BlockedLeaves

(* A process switch resumes a thread that is not blocked. *)
LEMMA ProcessSwitchSingle ==
  ASSUME IInv, SingleInv, NEW tick \in 0..THREAD_QUANTUM, processSwitch(tick),
         UNCHANGED <<threadSize, currentPThread>>
  PROVE  SingleInv'
<1>1. PICK p \in queue :
        /\ requeue[p] = "READY"
        /\ currentProcess' = p
        /\ state' = [requeue EXCEPT ![p] = "RUNNING"]
  BY DEF processSwitch, IsNextProcess, IsNextIn
<1>2. queue' \subseteq queue /\ tstate' = tstate
  BY DEF processSwitch, removeDeadProcess
<1>3. state \in [Pid -> processState] /\ queue \subseteq Pid
  BY DEF IInv, TypeOK
<1>4. \A q \in queue :
        \/ state'[q] = state[q]
        \/ ~isProcessBlocked(state[q]) /\ ~isProcessBlocked(state'[q])
  BY <1>1, <1>3, StateTypes DEF requeue
<1>5. ~isProcessBlocked(state[p])
  BY <1>1, <1>3, StateTypes DEF requeue
<1>6. \A q \in queue : isThreadBlocked(tstate[q][0]) => isProcessBlocked(state[q])
  BY BlockType DEF SingleInv, StatesAgree, isThreadBlocked, isProcessBlocked
<1>7. \A q \in queue : StatesAgree(q)'
  BY <1>2, <1>4, <1>6 DEF SingleInv, StatesAgree
<1>8. BlockedLeaves'
  BY <1>1, <1>2, <1>5, <1>6 DEF BlockedLeaves
<1> QED BY <1>2, <1>7, <1>8 DEF SingleInv

(* A thread switch finds only thread 0, and never a blocked one. *)
LEMMA ThreadCheckSingle ==
  ASSUME IInv, SingleInv, ExitOnly, NEW tick, threadCheck(tick)
  PROVE  /\ \A p \in Pid : p # currentProcess => tstate'[p] = tstate[p]
         /\ \/ tstate' = tstate
            \/ tstate'[currentProcess][0] = "T_RUNNING"
               /\ ~isThreadBlocked(tstate[currentProcess][0])
<1> DEFINE p == currentProcess
           ts == IF tstate[p][currentThread[p]] = "T_RUNNING"
                   THEN [tstate[p] EXCEPT ![currentThread[p]] = "T_READY"]
                   ELSE tstate[p]
<1>1. /\ p \in Pid /\ p \in queue /\ Pthread = {0}
      /\ currentThread[p] = 0
      /\ tstate \in [Pid -> [Pthread -> threadState]]
  BY Identifiers DEF IInv, TypeOK, ExitOnly, Pthread
<1>2. threadsOf(p) = {0}
  BY <1>1 DEF SingleInv, StatesAgree, threadsOf
<1>3. CASE UNCHANGED tstate
  BY <1>3
<1>4. CASE nextThread
  <2>1. /\ tstate' = [tstate EXCEPT ![p] = [ts EXCEPT ![0] = "T_RUNNING"]]
        /\ ts[0] = "T_READY"
    BY <1>2, <1>4 DEF nextThread, IsNextThread, IsNextIn
  <2>2. ts \in [Pthread -> threadState]
    BY <1>1, StateTypes
  <2>3. tstate[p][0] \in {"T_READY", "T_RUNNING"}
    BY <1>1, <2>1
  <2> HIDE DEF ts
  <2>4. tstate'[p][0] = "T_RUNNING" /\ \A q \in Pid : q # p => tstate'[q] = tstate[q]
    BY <1>1, <2>1, <2>2
  <2> QED BY <2>3, <2>4, StateTypes DEF isThreadBlocked
<1> QED BY <1>3, <1>4 DEF threadCheck

(* Every step keeps the states of process and thread together. *)
LEMMA NextSingleInv ==
  ASSUME ExitOnly, IInv, SingleInv, DeadNeverRuns, [Next]_vars
  PROVE  SingleInv'
<1> USE BoundsAssumption, QuantumAssumption
<1> DEFINE c == currentProcess
<1>0. /\ c \in Pid /\ c \in queue /\ Pthread = {0}
      /\ currentThread[c] = 0
      /\ threadTick[c] \in 0..THREAD_QUANTUM /\ numberOfTicks \in 0..QUANTUM
      /\ state \in [Pid -> processState] /\ queue \subseteq Pid
      /\ tstate \in [Pid -> [Pthread -> threadState]]
      /\ threadSize \in [Pid -> 0..MaxThreads] /\ currentPThread \in [Pid -> 0..MaxThreads]
  BY Identifiers DEF IInv, TypeOK, ExitOnly, Pthread
<1>a. getCurrentPthread = 0
  BY <1>0 DEF getCurrentPthread
<1>b. StatesAgree(c)
  BY <1>0 DEF SingleInv
<1>c. \A p \in queue : threadsOf(p) = {0} /\ VisitedThreads(p) = {0}
  BY DEF SingleInv, StatesAgree, threadsOf, VisitedThreads, PlaceOfThread
<1>d. \A type \in BlockTypes : type \in ThreadBlockedStates
  BY BlockAssumption
<1>1. ASSUME NEW ticks \in 0..QUANTUM, NEW tick \in 0..THREAD_QUANTUM,
             runScheduler(ticks, tick),
             isThreadBlocked(tstate[c][0]) => ticks = QUANTUM
      PROVE  SingleInv'
  <2>1. CASE quantumLeft(ticks) /\ threadCheck(tick) /\ UNCHANGED <<queue, freed, currentProcess, state>>
    <3>1. ~isThreadBlocked(tstate[c][0])
      BY <1>1, <2>1 DEF quantumLeft
    <3>2. ~isThreadBlocked(tstate'[c][0]) /\ tstate'[c][0] # "T_DEAD"
      BY <1>b, <2>1, <3>1, ThreadCheckSingle, StateTypes DEF StatesAgree, isThreadBlocked
    <3>3. \A p \in queue : p # c => tstate'[p] = tstate[p]
      BY <1>0, <2>1, ThreadCheckSingle
    <3>4. UNCHANGED <<threadSize, currentPThread, queue, currentProcess, state>>
      BY <1>1, <2>1 DEF runScheduler
    <3>5. ASSUME NEW p \in queue PROVE StatesAgree(p)'
      BY <3>1, <3>2, <3>3, <3>4 DEF SingleInv, StatesAgree
    <3>6. BlockedLeaves'
      BY <3>2, <3>4 DEF BlockedLeaves
    <3> QED BY <3>4, <3>5, <3>6 DEF SingleInv
  <2>2. CASE processSwitch(tick)
    BY <1>1, <2>2, ProcessSwitchSingle DEF runScheduler
  <2> QED BY <1>1, <2>1, <2>2 DEF runScheduler
<1>2. CASE Tick
  BY <1>0, <1>1, <1>2 DEF Tick, SingleInv, BlockedLeaves
<1>3. CASE Yield
  <2>1. CASE yieldLeaves(state[c])
    BY <1>0, <1>1, <1>3, <2>1 DEF Yield
  <2>2. CASE ~yieldLeaves(state[c])
    <3>1. ~isThreadBlocked(tstate[c][0]) /\ tstate[c][0] # "T_DEAD"
      BY <1>b, <2>2, BlockType DEF StatesAgree, yieldLeaves, isThreadBlocked, isProcessBlocked
    <3>2. UNCHANGED <<queue, currentProcess, state, threadVars>>
      BY <1>3, <1>a, <2>2, <3>1 DEF Yield
    <3> QED BY <3>1, <3>2 DEF SingleInv, StatesAgree, BlockedLeaves, threadVars
  <2> QED BY <2>1, <2>2
<1>4. CASE AddProcess
  <2>0. PICK n : n = currentPid
    OBVIOUS
  <2>a. /\ queue' = queue \cup {n}
        /\ state' = [state EXCEPT ![n] = "READY"]
        /\ currentPThread' = [currentPThread EXCEPT ![n] = 1]
        /\ threadSize' = [threadSize EXCEPT ![n] = 1]
        /\ tstate' = [tstate EXCEPT ![n][0] = "T_READY"]
        /\ n <= MaxPid
        /\ UNCHANGED <<currentProcess, numberOfTicks, owesYield>>
    BY <1>4, <2>0 DEF AddProcess
  <2>b. n \in Pid
    BY <2>0, <2>a, Identifiers DEF IInv, TypeOK
  <2>1. /\ n \in Pid
        /\ queue' = queue \cup {n}
        /\ state' = [state EXCEPT ![n] = "READY"]
        /\ currentPThread' = [currentPThread EXCEPT ![n] = 1]
        /\ threadSize' = [threadSize EXCEPT ![n] = 1]
        /\ tstate' = [tstate EXCEPT ![n][0] = "T_READY"]
        /\ UNCHANGED <<currentProcess, numberOfTicks, owesYield>>
    BY <2>a, <2>b
  <2>2. StatesAgree(n)'
    BY <1>0, <2>1, StateTypes DEF StatesAgree, isThreadBlocked
  <2>3. ASSUME NEW p \in queue, p # n PROVE StatesAgree(p)'
    BY <1>0, <2>1, <2>3 DEF SingleInv, StatesAgree
  <2>4. BlockedLeaves'
    BY <1>0, <2>1, StateTypes DEF SingleInv, BlockedLeaves, isThreadBlocked
  <2> QED BY <2>1, <2>2, <2>3, <2>4 DEF SingleInv
<1>5. ASSUME NEW p \in queue, AddThread(p) PROVE SingleInv'
  BY <1>0, <1>5, <1>b DEF AddThread, ExitOnly, SingleInv, StatesAgree
<1>6. ASSUME NEW type \in BlockTypes, Block(type) PROVE SingleInv'
  <2> DEFINE t2 == [tstate EXCEPT ![c][0] = type]
  <2>1. tstate' = t2 /\ t2[c][0] = type /\ isThreadBlocked(type) /\ type # "T_DEAD"
    BY <1>0, <1>6, <1>a, <1>d, StateTypes DEF Block, blockThread, isThreadBlocked
  <2>2. allThreadsAreBlocked(c, t2)
    BY <1>0, <1>c, <2>1, StateTypes DEF allThreadsAreBlocked, isThreadBlocked
  <2>3. /\ state' = [state EXCEPT ![c] = getBlockProcessType(type)]
        /\ numberOfTicks' = QUANTUM
        /\ owesYield' = owesYield \cup {<<c, 0>>}
        /\ UNCHANGED <<queue, currentProcess, threadSize, currentPThread>>
    BY <1>6, <1>a, <2>1, <2>2 DEF Block, blockThread, blockProcess, ThenYield
  <2>4. StatesAgree(c)'
    BY <1>0, <1>b, <2>1, <2>3 DEF StatesAgree
  <2>5. ASSUME NEW p \in queue, p # c PROVE StatesAgree(p)'
    BY <1>0, <2>1, <2>3, <2>5 DEF SingleInv, StatesAgree
  <2>6. BlockedLeaves'
    BY <2>3 DEF BlockedLeaves
  <2> QED BY <2>3, <2>4, <2>5, <2>6 DEF SingleInv
<1>7. ASSUME NEW p \in queue, NEW type \in ThreadBlockedStates,
             tstate[p][0] = type,
             tstate' = [tstate EXCEPT ![p] = [t \in Pthread |-> "T_READY"]],
             unblockProcess(p, getBlockProcessType(type)),
             UNCHANGED <<queue, currentProcess, numberOfTicks, threadSize, currentPThread, owesYield>>
      PROVE  SingleInv'
  <2>1. state[p] = getBlockProcessType(type) /\ StatesAgree(p)
    BY <1>7 DEF SingleInv, StatesAgree, isThreadBlocked
  <2>2. state' = [state EXCEPT ![p] = "READY"]
    BY <1>0, <1>7, <2>1 DEF unblockProcess
  <2>3. StatesAgree(p)'
    BY <1>0, <1>7, <2>1, <2>2, StateTypes DEF StatesAgree, isThreadBlocked
  <2>4. ASSUME NEW q \in queue, q # p PROVE StatesAgree(q)'
    BY <1>0, <1>7, <2>2, <2>4 DEF SingleInv, StatesAgree
  <2>5. BlockedLeaves'
    BY <1>0, <1>7, StateTypes DEF SingleInv, BlockedLeaves, isThreadBlocked
  <2> QED BY <1>7, <2>3, <2>4, <2>5 DEF SingleInv
<1>8. ASSUME NEW p \in queue, NEW t \in threadsOf(p), Unblock(p, t) PROVE SingleInv'
  <2>1. t = 0 /\ tstate[p][0] = "T_BLOCKED_MUTEX"
    BY <1>8, <1>c, <1>d DEF Unblock, ExitOnly
  <2>2. tstate' = [tstate EXCEPT ![p][0] = "T_READY"]
    BY <1>8, <2>1, <1>0 DEF Unblock, unblockThread
  <2>3. tstate' = [tstate EXCEPT ![p] = [u \in Pthread |-> "T_READY"]]
    BY <1>0, <2>2
  <2>4. /\ unblockProcess(p, getBlockProcessType("T_BLOCKED_MUTEX"))
        /\ UNCHANGED <<queue, currentProcess, numberOfTicks, threadSize, currentPThread, owesYield>>
    BY <1>8 DEF Unblock, unblockThread
  <2> QED BY <1>7, <2>1, <2>3, <2>4 DEF ThreadBlockedStates
<1>9. ASSUME NEW p \in queue, NEW type \in BlockTypes \ {"T_BLOCKED_MUTEX"}, UnblockAll(p, type)
      PROVE  SingleInv'
  <2>1. CASE tstate[p][0] = type
    <3>1. {t \in VisitedThreads(p) : tstate[p][t] = type} = {0}
      BY <1>c, <2>1
    <3>2. tstate' = [tstate EXCEPT ![p] = [u \in Pthread |-> "T_READY"]]
      BY <1>0, <1>9, <3>1 DEF UnblockAll, unblockAllThreads
    <3> QED BY <1>7, <1>9, <1>d, <2>1, <3>1, <3>2 DEF UnblockAll, unblockAllThreads
  <2>2. CASE tstate[p][0] # type
    <3>1. {t \in VisitedThreads(p) : tstate[p][t] = type} = {}
      BY <1>c, <2>2
    <3>2. tstate' = tstate /\ state' = state
      BY <1>0, <1>9, <3>1 DEF UnblockAll, unblockAllThreads
    <3> QED BY <1>9, <3>2 DEF UnblockAll, SingleInv, StatesAgree, BlockedLeaves
  <2> QED BY <2>1, <2>2
<1>10. ASSUME NEW p \in queue, Kill(p) PROVE SingleInv'
  <2>1. /\ p = c /\ <<c, 0>> \notin owesYield
        /\ UNCHANGED <<queue, currentProcess, numberOfTicks, threadVars>>
        /\ \/ state' = state
           \/ state' = [state EXCEPT ![c] = "DEAD"]
    BY <1>10, <1>a DEF Kill, CanCall, ExitOnly, removeProcess
  <2>2. ~isThreadBlocked(tstate[c][0])
    BY <2>1 DEF SingleInv, BlockedLeaves
  <2>3. ASSUME NEW q \in queue PROVE StatesAgree(q)'
    BY <1>0, <2>1, <2>2, StateTypes DEF SingleInv, StatesAgree, threadVars
  <2> QED BY <2>1, <2>2, <2>3 DEF SingleInv, BlockedLeaves, threadVars
<1>11. CASE UNCHANGED vars
  BY <1>11 DEF vars, SingleInv, StatesAgree, BlockedLeaves
<1>12. ASSUME NEW p \in queue, NEW t \in Pthread, KillThread(p, t) PROVE FALSE
  BY <1>12 DEF KillThread, ExitOnly
<1> QED
  BY <1>2, <1>3, <1>4, <1>5, <1>6, <1>8, <1>9, <1>10, <1>11, <1>12 DEF Next

(* At boot nobody is blocked. *)
LEMMA InitSingleInv == Init => SingleInv
BY Identifiers, StateTypes DEF Init, SingleInv, StatesAgree, BlockedLeaves, isThreadBlocked

LEMMA SingleInvHolds ==
  ASSUME ExitOnly PROVE Spec => [](IInv /\ SingleInv)
<1>1. IInv /\ ExitInv /\ [Next]_vars => ExitInv'
  BY NextExitInv
<1>2. IInv /\ ExitInv /\ SingleInv /\ [Next]_vars => SingleInv'
  BY NextSingleInv DEF ExitInv
<1> QED BY <1>1, <1>2, InitExitInv, InitSingleInv, InvariantHolds, PTL DEF Spec

(* For programs of one thread a thread that had to wait gets past its yield  *)
(* only after it was unblocked, wherever the timer falls.                    *)
THEOREM WaitersWait ==
  ASSUME ExitOnly PROVE Spec => []BlockedThreadNeverRuns
<1>1. ASSUME IInv, SingleInv PROVE BlockedThreadNeverRuns
  <2>1. getCurrentPthread = 0
    BY <1>1, Identifiers DEF IInv, TypeOK, ExitOnly, getCurrentPthread
  <2> QED BY <1>1, <2>1 DEF SingleInv, BlockedLeaves, BlockedThreadNeverRuns
<1> QED BY <1>1, SingleInvHolds, PTL

(* And a wake-up of its thread wakes the process.                            *)
THEOREM WakeUpsReachProcess ==
  ASSUME ExitOnly PROVE Spec => []ReadyThreadUnblocksProcess
<1>1. ASSUME IInv, SingleInv PROVE ReadyThreadUnblocksProcess
  <2>1. \A p \in queue : threadsOf(p) = {0}
    BY <1>1 DEF SingleInv, StatesAgree, threadsOf
  <2> QED BY <1>1, <2>1, StateTypes DEF SingleInv, StatesAgree, ReadyThreadUnblocksProcess, isThreadBlocked
<1> QED BY <1>1, SingleInvHolds, PTL

----------------------------------------------------------------------------
(* Processes of any number of threads, as the shipped programs use the       *)
(* kernel: threads come, block and are woken, and only exit() ends a process. *)

(* A thread nextThread may stop at.                                           *)
HasReady(p) ==
  \E t \in threadsOf(p) :
    tstate[p][t] = "T_READY" \/ (t = currentThread[p] /\ tstate[p][t] = "T_RUNNING")

(* A process without such a thread is blocked, and one that is blocked on the *)
(* processor has no quantum left and no call to make but its yield.           *)
ThreadsInv ==
  /\ \A p \in queue : isProcessBlocked(state[p]) \/ HasReady(p)
  /\ isProcessBlocked(state[currentProcess]) =>
       numberOfTicks = QUANTUM /\ <<currentProcess, getCurrentPthread>> \in owesYield

LEMMA ThreadsArePthreads ==
  ASSUME IInv, NEW p \in queue
  PROVE  threadsOf(p) \subseteq Pthread
<1>1. p \in Pid /\ currentPThread \in [Pid -> 0..MaxThreads]
  BY DEF IInv, TypeOK
<1>2. PICK n : n = currentPThread[p]
  OBVIOUS
<1>3. n \in Int /\ n <= MaxThreads /\ MaxThreads \in Int
  BY <1>1, <1>2, BoundsAssumption
<1> QED BY <1>2, <1>3 DEF threadsOf, Pthread

(* A process switch neither blocks a process nor wakes one.                   *)
LEMMA ProcessSwitchThreads ==
  ASSUME IInv, ThreadsInv, NEW tick, processSwitch(tick), UNCHANGED currentPThread
  PROVE  ThreadsInv'
<1>1. PICK p \in queue :
        /\ requeue[p] = "READY"
        /\ currentProcess' = p
        /\ state' = [requeue EXCEPT ![p] = "RUNNING"]
  BY DEF processSwitch, IsNextProcess, IsNextIn
<1>2. queue' \subseteq queue /\ UNCHANGED <<tstate, currentThread>>
  BY DEF processSwitch, removeDeadProcess
<1>3. state \in [Pid -> processState] /\ queue \subseteq Pid
  BY DEF IInv, TypeOK
<1>4. ASSUME NEW q \in queue
      PROVE  isProcessBlocked(state[q]) => isProcessBlocked(state'[q])
  BY <1>1, <1>3, StateTypes DEF requeue
<1>5. ~isProcessBlocked(state'[currentProcess'])
  BY <1>1, <1>3, StateTypes DEF requeue
<1>6. ASSUME NEW q \in queue' PROVE isProcessBlocked(state'[q]) \/ HasReady(q)'
  BY <1>2, <1>4 DEF ThreadsInv, HasReady, threadsOf
<1> QED BY <1>5, <1>6 DEF ThreadsInv

(* A thread switch leaves the process with the thread it switched to.         *)
LEMMA ThreadCheckThreads ==
  ASSUME IInv, ThreadsInv, ~isProcessBlocked(state[currentProcess]), NEW tick, threadCheck(tick),
         UNCHANGED <<queue, currentProcess, state, currentPThread>>
  PROVE  ThreadsInv'
<1> DEFINE c == currentProcess
           ts == IF tstate[c][currentThread[c]] = "T_RUNNING"
                   THEN [tstate[c] EXCEPT ![currentThread[c]] = "T_READY"]
                   ELSE tstate[c]
<1>1. /\ c \in Pid /\ c \in queue /\ queue \subseteq Pid
      /\ tstate \in [Pid -> [Pthread -> threadState]]
      /\ currentThread \in [Pid -> Pthread]
      /\ currentPThread \in [Pid -> 0..MaxThreads]
  BY DEF IInv, TypeOK
<1>2. CASE UNCHANGED <<currentThread, tstate>>
  BY <1>2 DEF ThreadsInv, HasReady, threadsOf
<1>3. CASE nextThread
  <2>1. PICK t \in threadsOf(c) :
          /\ currentThread' = [currentThread EXCEPT ![c] = t]
          /\ tstate' = [tstate EXCEPT ![c] = [ts EXCEPT ![t] = "T_RUNNING"]]
    BY <1>3 DEF nextThread
  <2>2. t \in Pthread
    BY <1>1, <2>1, ThreadsArePthreads
  <2>3. ts \in [Pthread -> threadState]
    BY <1>1, StateTypes
  <2> HIDE DEF ts
  <2>4. /\ currentThread'[c] = t /\ tstate'[c][t] = "T_RUNNING"
        /\ \A q \in queue : q # c => tstate'[q] = tstate[q] /\ currentThread'[q] = currentThread[q]
    BY <1>1, <2>1, <2>2, <2>3
  <2>5. HasReady(c)'
    BY <2>1, <2>4 DEF HasReady, threadsOf
  <2>6. ASSUME NEW q \in queue, q # c, HasReady(q) PROVE HasReady(q)'
    BY <2>4, <2>6 DEF HasReady, threadsOf
  <2> QED BY <2>5, <2>6 DEF ThreadsInv
<1> QED BY <1>2, <1>3 DEF threadCheck

(* One thread that becomes ready is enough for its process.                   *)
LEMMA WakeThreads ==
  ASSUME IInv, ThreadsInv, NEW p \in queue, NEW woken \in SUBSET threadsOf(p), woken # {},
         tstate' = [tstate EXCEPT ![p] = [t \in Pthread |-> IF t \in woken THEN "T_READY" ELSE @[t]]],
         NEW blockType, unblockProcess(p, blockType),
         UNCHANGED <<queue, currentProcess, numberOfTicks, currentThread, currentPThread, owesYield>>
  PROVE  ThreadsInv'
<1>1. /\ p \in Pid /\ queue \subseteq Pid /\ currentProcess \in queue
      /\ state \in [Pid -> processState]
      /\ tstate \in [Pid -> [Pthread -> threadState]]
      /\ currentPThread \in [Pid -> 0..MaxThreads]
  BY DEF IInv, TypeOK
<1>2. PICK t \in woken : t \in threadsOf(p) /\ t \in Pthread
  BY ThreadsArePthreads
<1>3. tstate'[p][t] = "T_READY" /\ \A q \in queue : q # p => tstate'[q] = tstate[q]
  BY <1>1, <1>2
<1>4. HasReady(p)'
  BY <1>2, <1>3 DEF HasReady, threadsOf
<1>5. ASSUME NEW q \in queue, q # p, HasReady(q) PROVE HasReady(q)'
  BY <1>3, <1>5 DEF HasReady, threadsOf
<1>6. ASSUME NEW q \in queue
      PROVE  /\ q # p => state'[q] = state[q]
             /\ isProcessBlocked(state'[q]) => isProcessBlocked(state[q])
  BY <1>1, StateTypes DEF unblockProcess
<1>7. isProcessBlocked(state'[currentProcess']) => isProcessBlocked(state[currentProcess])
  BY <1>1, <1>6
<1> QED BY <1>4, <1>5, <1>6, <1>7 DEF ThreadsInv, getCurrentPthread

(* What the kernel and the programs do short of ending anything, where a      *)
(* thread that is woken waits.                                                *)
QuietStep ==
  \/ Tick \/ Yield \/ AddProcess
  \/ \E p \in queue : AddThread(p)
  \/ \E type \in BlockTypes : Block(type)
  \/ \E p \in queue : \E t \in threadsOf(p) :
       tstate[p][t] = "T_BLOCKED_MUTEX" /\ Unblock(p, t)
  \/ \E p \in queue : \E type \in BlockTypes \ {"T_BLOCKED_MUTEX"} : UnblockAll(p, type)

LEMMA QuietThreadsInv ==
  ASSUME IInv, ThreadsInv, QuietStep
  PROVE  ThreadsInv'
<1> DEFINE c == currentProcess
<1>0. /\ c \in Pid /\ c \in queue /\ queue \subseteq Pid
      /\ getCurrentPthread \in Pthread
      /\ state \in [Pid -> processState]
      /\ tstate \in [Pid -> [Pthread -> threadState]]
      /\ currentThread \in [Pid -> Pthread]
      /\ currentPThread \in [Pid -> 0..MaxThreads]
  BY DEF IInv, TypeOK, getCurrentPthread
<1>a. CanCall => ~isProcessBlocked(state[c])
  BY DEF CanCall, ThreadsInv
<1>1. ASSUME NEW ticks, NEW tick, runScheduler(ticks, tick), isProcessBlocked(state[c]) => ticks = QUANTUM
      PROVE  ThreadsInv'
  <2>1. CASE quantumLeft(ticks) /\ threadCheck(tick) /\ UNCHANGED <<queue, freed, currentProcess, state>>
    <3>1. ~isProcessBlocked(state[c])
      BY <1>1, <2>1, QuantumAssumption DEF quantumLeft
    <3> QED BY <1>1, <2>1, <3>1, ThreadCheckThreads DEF runScheduler
  <2>2. CASE processSwitch(tick)
    BY <1>1, <2>2, ProcessSwitchThreads DEF runScheduler
  <2> QED BY <1>1, <2>1, <2>2 DEF runScheduler
<1>2. CASE Tick
  BY <1>1, <1>2 DEF Tick, ThreadsInv
<1>3. CASE Yield
  <2>1. CASE yieldLeaves(state[c])
    BY <1>1, <1>3, <2>1 DEF Yield
  <2>2. CASE ~yieldLeaves(state[c]) /\ runScheduler(numberOfTicks, THREAD_QUANTUM)
    BY <1>1, <2>2 DEF yieldLeaves
  <2>3. CASE ~yieldLeaves(state[c]) /\ UNCHANGED <<queue, currentProcess, state, threadVars>>
    BY <2>3 DEF ThreadsInv, HasReady, threadsOf, threadVars, yieldLeaves
  <2> QED BY <1>3, <2>1, <2>2, <2>3 DEF Yield
<1>4. CASE AddProcess
  <2>0. PICK n : n = currentPid
    OBVIOUS
  <2>1. /\ queue' = queue \cup {n}
        /\ state' = [state EXCEPT ![n] = "READY"]
        /\ currentThread' = [currentThread EXCEPT ![n] = 0]
        /\ currentPThread' = [currentPThread EXCEPT ![n] = 1]
        /\ tstate' = [tstate EXCEPT ![n][0] = "T_READY"]
        /\ n <= MaxPid
        /\ UNCHANGED currentProcess
    BY <1>4, <2>0 DEF AddProcess
  <2>2. n \in Pid
    BY <2>0, <2>1, Identifiers DEF IInv, TypeOK
  <2>3. HasReady(n)'
    BY <1>0, <2>1, <2>2, Identifiers DEF HasReady, threadsOf
  <2>4. ASSUME NEW p \in queue, p # n, HasReady(p) PROVE HasReady(p)'
    BY <1>0, <2>1, <2>2, <2>4 DEF HasReady, threadsOf
  <2>5. ~isProcessBlocked(state'[currentProcess'])
    BY <1>0, <1>4, <1>a, <2>1, <2>2, StateTypes DEF AddProcess
  <2>6. \A p \in queue : p # n => state'[p] = state[p]
    BY <1>0, <2>1, <2>2
  <2> QED BY <2>1, <2>3, <2>4, <2>5, <2>6 DEF ThreadsInv
<1>5. ASSUME NEW q \in queue, AddThread(q) PROVE ThreadsInv'
  <2>1. /\ currentPThread[q] < MaxThreads
        /\ tstate' = [tstate EXCEPT ![q][currentPThread[q]] = "T_READY"]
        /\ currentPThread' = [currentPThread EXCEPT ![q] = @ + 1]
        /\ UNCHANGED <<queue, currentProcess, state, currentThread>>
    BY <1>5 DEF AddThread
  <2>2. currentPThread[q] \in Pthread /\ currentPThread[q] \in threadsOf(q)'
    BY <1>0, <2>1, Identifiers, BoundsAssumption DEF threadsOf
  <2>3. HasReady(q)'
    BY <1>0, <2>1, <2>2 DEF HasReady
  <2>4. ASSUME NEW p \in queue, p # q, HasReady(p) PROVE HasReady(p)'
    BY <1>0, <2>1, <2>4 DEF HasReady, threadsOf
  <2> QED BY <1>5, <1>a, <2>1, <2>3, <2>4 DEF ThreadsInv, AddThread
<1>6. ASSUME NEW type \in BlockTypes, Block(type) PROVE ThreadsInv'
  <2> DEFINE t == getCurrentPthread
  <2>1. /\ tstate' = [tstate EXCEPT ![c][t] = type]
        /\ <<c, t>> \in owesYield'
        /\ UNCHANGED <<queue, currentProcess, currentThread, currentPThread>>
    BY <1>6 DEF Block, blockThread, ThenYield
  <2>2. ASSUME NEW p \in queue, p # c, HasReady(p) PROVE HasReady(p)'
    BY <1>0, <2>1, <2>2 DEF HasReady, threadsOf
  <2>3. CASE allThreadsAreBlocked(c, tstate')
    <3>1. /\ state' = [state EXCEPT ![c] = getBlockProcessType(type)]
          /\ numberOfTicks' = QUANTUM
      BY <1>6, <2>3 DEF Block, blockThread, blockProcess
    <3>2. isProcessBlocked(state'[c]) /\ \A p \in queue : p # c => state'[p] = state[p]
      BY <1>0, <3>1, BlockType, BlockAssumption DEF isProcessBlocked
    <3> QED BY <2>1, <2>2, <3>1, <3>2 DEF ThreadsInv, getCurrentPthread
  <2>4. CASE ~allThreadsAreBlocked(c, tstate')
    <3>1. UNCHANGED state
      BY <1>6, <2>4 DEF Block, blockThread
    <3>2. HasReady(c)'
      BY <2>1, <2>4 DEF allThreadsAreBlocked, VisitedThreads, HasReady, threadsOf
    <3> QED BY <1>6, <1>a, <2>1, <2>2, <3>1, <3>2 DEF Block, ThreadsInv
  <2> QED BY <2>3, <2>4
<1>7. ASSUME NEW p \in queue, NEW t \in threadsOf(p), tstate[p][t] = "T_BLOCKED_MUTEX", Unblock(p, t)
      PROVE  ThreadsInv'
  <2>1. t \in Pthread
    BY ThreadsArePthreads
  <2>2. /\ tstate' = [tstate EXCEPT ![p][t] = "T_READY"]
        /\ unblockProcess(p, getBlockProcessType(tstate[p][t]))
    BY <1>0, <1>7, <2>1 DEF Unblock, unblockThread
  <2>3. tstate' = [tstate EXCEPT ![p] = [u \in Pthread |-> IF u \in {t} THEN "T_READY" ELSE @[u]]]
    BY <1>0, <2>1, <2>2
  <2>4. {t} \in SUBSET threadsOf(p) /\ {t} # {}
    OBVIOUS
  <2> QED BY <1>7, <2>2, <2>3, <2>4, WakeThreads DEF Unblock
<1>8. ASSUME NEW p \in queue, NEW type \in BlockTypes \ {"T_BLOCKED_MUTEX"}, UnblockAll(p, type)
      PROVE  ThreadsInv'
  <2> DEFINE woken == {t \in VisitedThreads(p) : tstate[p][t] = type}
  <2>1. woken \in SUBSET threadsOf(p)
    BY DEF VisitedThreads
  <2>2. CASE woken # {}
    BY <1>8, <2>1, <2>2, WakeThreads DEF UnblockAll, unblockAllThreads
  <2>3. CASE woken = {}
    <3>1. tstate' = tstate /\ state' = state
      BY <1>0, <1>8, <2>3 DEF UnblockAll, unblockAllThreads
    <3> QED BY <1>8, <3>1 DEF UnblockAll, ThreadsInv, HasReady, threadsOf, getCurrentPthread
  <2> QED BY <2>2, <2>3
<1> QED
  BY <1>2, <1>3, <1>4, <1>5, <1>6, <1>7, <1>8 DEF QuietStep

LEMMA NextThreadsInv ==
  ASSUME ~KillAny, IInv, ThreadsInv, [Next]_vars
  PROVE  ThreadsInv'
<1> DEFINE c == currentProcess
<1>0. c \in queue /\ queue \subseteq Pid /\ state \in [Pid -> processState]
  BY DEF IInv, TypeOK
<1>a. CanCall => ~isProcessBlocked(state[c])
  BY DEF CanCall, ThreadsInv
<1>1. CASE QuietStep
  BY <1>1, QuietThreadsInv
<1>2. ASSUME NEW p \in queue, Kill(p) PROVE ThreadsInv'
  <2>1. /\ p = c /\ CanCall
        /\ UNCHANGED <<queue, currentProcess, threadVars>>
        /\ \/ state' = state
           \/ state' = [state EXCEPT ![c] = "DEAD"]
    BY <1>2 DEF Kill, removeProcess
  <2>2. ASSUME NEW q \in queue
        PROVE  isProcessBlocked(state'[q]) <=> isProcessBlocked(state[q])
    BY <1>0, <1>a, <2>1, StateTypes
  <2> QED BY <1>0, <1>a, <2>1, <2>2 DEF ThreadsInv, HasReady, threadsOf, threadVars
<1>3. ASSUME NEW p \in queue, NEW t \in Pthread, KillThread(p, t) PROVE FALSE
  BY <1>3 DEF KillThread
<1>4. CASE UNCHANGED vars
  BY <1>4 DEF vars, ThreadsInv, HasReady, threadsOf, getCurrentPthread
<1>5. ASSUME NEW p \in queue, NEW t \in threadsOf(p), Unblock(p, t)
      PROVE  tstate[p][t] = "T_BLOCKED_MUTEX"
  BY <1>5 DEF Unblock
<1> QED BY <1>1, <1>2, <1>3, <1>4, <1>5 DEF Next, QuietStep

LEMMA InitThreadsInv == Init => ThreadsInv
<1> SUFFICES ASSUME Init PROVE ThreadsInv
  OBVIOUS
<1>1. \A p \in queue : 0 \in threadsOf(p) /\ tstate[p][0] = "T_READY"
  BY Identifiers DEF Init, threadsOf
<1>2. ~isProcessBlocked(state[currentProcess])
  BY Identifiers, StateTypes DEF Init
<1> QED BY <1>1, <1>2 DEF ThreadsInv, HasReady

(* The unbounded search of nextThread for a T_READY thread never hangs,       *)
(* however many threads a process has: blocking the last of them takes the    *)
(* quantum from the process, so that the search is not reached.               *)
THEOREM ThreadSearchTerminates ==
  ASSUME ~KillAny PROVE Spec => []ThreadSwitchTerminates
<1>1. ASSUME IInv, ThreadsInv PROVE ThreadSwitchTerminates
  <2>1. currentProcess \in queue /\ ~(QUANTUM < QUANTUM)
    BY <1>1, QuantumAssumption DEF IInv, TypeOK
  <2> QED BY <1>1, <2>1 DEF ThreadsInv, HasReady, ThreadSwitchTerminates, getCurrentPthread
<1>2. IInv /\ ThreadsInv /\ [Next]_vars => ThreadsInv'
  BY NextThreadsInv
<1> QED BY <1>1, <1>2, InitThreadsInv, InvariantHolds, PTL DEF Spec
----------------------------------------------------------------------------
(***************************************************************************)
(* How long a ready process or thread waits.  A walk along a list goes     *)
(* through each place once, so the places it still has to pass before it   *)
(* comes to one that is ready become fewer with every switch.              *)
(***************************************************************************)
LEMMA WalkSteps ==
  ASSUME NEW n \in Nat, NEW p \in 0..(n - 1), NEW r \in 0..(n - 1)
  PROVE  Steps(p, r, n) \in 1..n
BY DEF Steps

LEMMA WalkNearer ==
  ASSUME NEW n \in Nat, NEW p \in 0..(n - 1), NEW q \in 0..(n - 1), NEW r \in 0..(n - 1),
         NEW S, IsNextIn(q, p, S, n), r \in S, r # q
  PROVE  Steps(q, r, n) + 1 <= Steps(p, r, n)
<1>1. Steps(p, q, n) <= Steps(p, r, n)
  BY DEF IsNextIn
<1> QED BY <1>1 DEF Steps

LEMMA FewerTurns ==
  ASSUME NEW s \in Int, NEW s2 \in Int, s2 + 1 <= s, NEW w \in Nat
  PROVE  s2 * w + w <= s * w
<1>1. PICK d \in Nat : s = s2 + 1 + d
  <2>1. s - s2 - 1 \in Nat /\ s = s2 + 1 + (s - s2 - 1)
    OBVIOUS
  <2> QED BY <2>1
<1>2. s * w = s2 * w + w + d * w
  BY <1>1
<1>3. d * w \in Nat /\ s2 * w \in Int
  OBVIOUS
<1> QED BY <1>2, <1>3

(* A turn of a walk, or a tick, against the one before it.                    *)
LEMMA LessToWait ==
  ASSUME NEW s \in Int, NEW s2 \in Int, NEW quantum \in Nat,
         NEW tick \in 0..quantum, NEW tick2 \in 0..quantum
  PROVE  /\ s2 + 1 <= s => s2 * (quantum + 1) - tick2 < s * (quantum + 1) - tick
         /\ s2 = s /\ tick2 >= tick => s2 * (quantum + 1) - tick2 <= s * (quantum + 1) - tick
         /\ s2 = s /\ tick2 > tick => s2 * (quantum + 1) - tick2 < s * (quantum + 1) - tick
<1> DEFINE w == quantum + 1
<1>1. w \in Nat /\ s * w \in Int /\ s2 * w \in Int
  OBVIOUS
<1>2. s2 + 1 <= s => s2 * w + w <= s * w
  BY <1>1, FewerTurns
<1>3. tick \in Int /\ tick2 \in Int /\ 0 <= tick2 /\ tick < w
  OBVIOUS
<1>4. s2 = s => s2 * w = s * w
  OBVIOUS
<1> HIDE DEF w
<1>5. /\ s2 + 1 <= s => s2 * w - tick2 < s * w - tick
      /\ s2 = s /\ tick2 >= tick => s2 * w - tick2 <= s * w - tick
      /\ s2 = s /\ tick2 > tick => s2 * w - tick2 < s * w - tick
  <2>1. PICK a \in Int, b \in Int : a = s2 * w /\ b = s * w
    BY <1>1
  <2> QED BY <1>1, <1>2, <1>3, <1>4, <2>1
<1> QED BY <1>5 DEF w

(* runScheduler for a process that is ready.                                  *)
LEMMA SchedulerNearer ==
  ASSUME IInv, NEW ticks \in 0..QUANTUM, ticks >= numberOfTicks, NEW tick, runScheduler(ticks, tick),
         NEW p \in queue, state[p] = "READY"
  PROVE  currentProcess' = p \/ TicksBefore(p)' < TicksBefore(p)
<1> USE BoundsAssumption, QuantumAssumption
<1> DEFINE n == MaxPid + 1
<1>1. /\ n \in Nat /\ currentProcess \in 0..(n - 1) /\ p \in 0..(n - 1)
      /\ queue \subseteq 0..(n - 1) /\ numberOfTicks \in 0..QUANTUM
      /\ state \in [Pid -> processState] /\ currentProcess \in Pid
  <2>1. /\ currentProcess \in Pid /\ queue \subseteq Pid /\ numberOfTicks \in 0..QUANTUM
        /\ state \in [Pid -> processState]
    BY DEF IInv, TypeOK
  <2>2. n \in Nat /\ Pid = 0..(n - 1)
    BY DEF Pid
  <2> QED BY <2>1, <2>2
<1>2. CASE quantumLeft(ticks) /\ numberOfTicks' = ticks + 1 /\ UNCHANGED currentProcess
  <2>1. PICK s \in Int : s = Steps(currentProcess, p, n)
    BY <1>1, WalkSteps
  <2>2. numberOfTicks' \in 0..QUANTUM /\ numberOfTicks' > numberOfTicks
    BY <1>1, <1>2 DEF quantumLeft
  <2>3. s * (QUANTUM + 1) - numberOfTicks' < s * (QUANTUM + 1) - numberOfTicks
    BY <1>1, <2>2, LessToWait
  <2> QED BY <1>2, <2>1, <2>3 DEF TicksBefore
<1>3. CASE processSwitch(tick)
  <2>1. PICK q \in queue : /\ IsNextProcess(q, {r \in queue : requeue[r] = "READY"})
                           /\ currentProcess' = q
    BY <1>3 DEF processSwitch
  <2>2. numberOfTicks' = 0
    BY <1>3 DEF processSwitch
  <2>3. requeue[p] = "READY"
    BY <1>1 DEF requeue, Pid
  <2>4. CASE q # p
    <3>1. PICK S : S = {r \in queue : requeue[r] = "READY"}
      OBVIOUS
    <3>2. IsNextIn(q, currentProcess, S, n) /\ p \in S
      BY <2>1, <2>3, <3>1 DEF IsNextProcess
    <3>3. Steps(q, p, n) + 1 <= Steps(currentProcess, p, n)
      BY <1>1, <2>4, <3>2, WalkNearer
    <3>4. PICK s \in Int, s2 \in Int : s = Steps(currentProcess, p, n) /\ s2 = Steps(q, p, n)
      BY <1>1, WalkSteps
    <3>5. s2 * (QUANTUM + 1) - 0 < s * (QUANTUM + 1) - numberOfTicks
      BY <1>1, <3>3, <3>4, LessToWait
    <3> QED BY <2>1, <2>2, <3>4, <3>5 DEF TicksBefore
  <2> QED BY <2>1, <2>4
<1> QED BY <1>2, <1>3 DEF runScheduler

(* Two numbers that stay, or of which the second grows.                       *)
LEMMA NoFurther ==
  ASSUME IInv, IInv', NEW p \in queue, UNCHANGED currentProcess, numberOfTicks' >= numberOfTicks
  PROVE  TicksBefore(p)' <= TicksBefore(p)
<1> USE BoundsAssumption, QuantumAssumption
<1>1. /\ MaxPid + 1 \in Nat /\ currentProcess \in 0..(MaxPid + 1 - 1) /\ p \in 0..(MaxPid + 1 - 1)
      /\ numberOfTicks \in 0..QUANTUM /\ numberOfTicks' \in 0..QUANTUM
  BY DEF IInv, TypeOK, Pid
<1>2. PICK s \in Int : s = Steps(currentProcess, p, MaxPid + 1)
  BY <1>1, WalkSteps
<1>3. s * (QUANTUM + 1) - numberOfTicks' <= s * (QUANTUM + 1) - numberOfTicks
  BY <1>1, LessToWait
<1> QED BY <1>2, <1>3 DEF TicksBefore

LEMMA ReadyProcessNearer ==
  ASSUME IInv, Next, NEW p \in queue, state[p] = "READY"
  PROVE  ProcessComesNearer(p)
<1> USE BoundsAssumption, QuantumAssumption DEF ProcessComesNearer
<1>0. numberOfTicks \in 0..QUANTUM /\ QUANTUM \in 0..QUANTUM /\ IInv'
  BY NextIInv DEF IInv, TypeOK
<1>1. TicksBefore(p) \in Int /\ TicksBefore(p)' \in Int
  <2>1. /\ MaxPid + 1 \in Nat /\ p \in 0..(MaxPid + 1 - 1)
        /\ currentProcess \in 0..(MaxPid + 1 - 1) /\ currentProcess' \in 0..(MaxPid + 1 - 1)
        /\ numberOfTicks' \in 0..QUANTUM
    BY <1>0 DEF IInv, TypeOK, Pid
  <2>2. PICK s \in Int, s2 \in Int :
          s = Steps(currentProcess, p, MaxPid + 1) /\ s2 = Steps(currentProcess', p, MaxPid + 1)
    BY <2>1, WalkSteps
  <2>3. s * (QUANTUM + 1) \in Int /\ s2 * (QUANTUM + 1) \in Int
    OBVIOUS
  <2> QED BY <1>0, <2>1, <2>2, <2>3 DEF TicksBefore
<1>2. ASSUME NEW ticks \in 0..QUANTUM, ticks >= numberOfTicks, NEW tick, runScheduler(ticks, tick)
      PROVE  currentProcess' = p \/ TicksBefore(p)' < TicksBefore(p)
  BY <1>2, SchedulerNearer
<1>3. CASE Tick
  <2>1. currentProcess' = p \/ TicksBefore(p)' < TicksBefore(p)
    BY <1>0, <1>2, <1>3 DEF Tick
  <2> QED BY <1>1, <2>1
<1>4. ASSUME UNCHANGED currentProcess, numberOfTicks' = numberOfTicks \/ numberOfTicks' = QUANTUM
      PROVE  TicksBefore(p)' <= TicksBefore(p)
  BY <1>0, <1>4, NoFurther
<1>5. ASSUME ~Tick PROVE currentProcess' = p \/ TicksBefore(p)' <= TicksBefore(p)
  <2>1. CASE Yield
    <3>1. CASE runScheduler(QUANTUM, threadTick[currentProcess])
      BY <1>0, <1>1, <1>2, <3>1
    <3>2. CASE runScheduler(numberOfTicks, THREAD_QUANTUM)
      BY <1>0, <1>1, <1>2, <3>2
    <3>3. CASE UNCHANGED <<currentProcess, numberOfTicks>>
      BY <1>4, <3>3
    <3> QED BY <2>1, <3>1, <3>2, <3>3 DEF Yield
  <2>2. CASE AddProcess
    BY <1>4, <2>2 DEF AddProcess
  <2>3. CASE \E q \in queue : AddThread(q)
    BY <1>4, <2>3 DEF AddThread
  <2>4. CASE \E type \in BlockTypes : Block(type)
    BY <1>4, <2>4 DEF Block, blockThread, blockProcess
  <2>5. CASE \E q \in queue : \E t \in threadsOf(q) : Unblock(q, t)
    BY <1>4, <2>5 DEF Unblock
  <2>6. CASE \E q \in queue : \E type \in BlockTypes \ {"T_BLOCKED_MUTEX"} : UnblockAll(q, type)
    BY <1>4, <2>6 DEF UnblockAll
  <2>7. CASE \E q \in queue : Kill(q)
    BY <1>4, <2>7 DEF Kill
  <2>8. CASE \E q \in queue : \E t \in Pthread : KillThread(q, t)
    BY <1>4, <2>8 DEF KillThread
  <2> QED BY <1>5, <2>1, <2>2, <2>3, <2>4, <2>5, <2>6, <2>7, <2>8 DEF Next
<1> QED BY <1>3, <1>5

(* runScheduler for a thread that is ready.                                   *)
LEMMA SchedulerNearerThread ==
  ASSUME IInv, NEW ticks \in 0..QUANTUM, NEW tick \in 0..THREAD_QUANTUM, runScheduler(ticks, tick),
         tick >= threadTick[currentProcess],
         NEW p \in queue, NEW t \in threadsOf(p), tstate[p][t] = "T_READY"
  PROVE  \/ currentThread'[p] = t
         \/ /\ TicksBeforeThread(p, t)' <= TicksBeforeThread(p, t)
            /\ currentProcess = p /\ ticks < QUANTUM =>
                 TicksBeforeThread(p, t)' < TicksBeforeThread(p, t)
<1> USE BoundsAssumption, QuantumAssumption
<1>1. /\ MaxThreads \in Nat /\ p \in Pid /\ currentProcess \in Pid
      /\ t \in Pthread /\ threadsOf(p) \subseteq Pthread
      /\ threadTick \in [Pid -> 0..THREAD_QUANTUM] /\ currentThread \in [Pid -> Pthread]
      /\ tstate \in [Pid -> [Pthread -> threadState]]
  BY ThreadsArePthreads DEF IInv, TypeOK
<1>2. PICK s \in Int : s = Steps(currentThread[p], t, MaxThreads)
  <2>1. currentThread[p] \in 0..(MaxThreads - 1) /\ t \in 0..(MaxThreads - 1)
    BY <1>1 DEF Pthread
  <2> QED BY <1>1, <2>1, WalkSteps
<1>3. PICK k \in 0..THREAD_QUANTUM : k = threadTick[p]
  BY <1>1
<1>4. TicksBeforeThread(p, t) = s * (THREAD_QUANTUM + 1) - k
  BY <1>2, <1>3 DEF TicksBeforeThread
<1>5. ASSUME UNCHANGED currentThread, NEW k2 \in 0..THREAD_QUANTUM, threadTick'[p] = k2, k2 >= k
      PROVE  /\ TicksBeforeThread(p, t)' <= TicksBeforeThread(p, t)
             /\ k2 > k => TicksBeforeThread(p, t)' < TicksBeforeThread(p, t)
  <2>1. TicksBeforeThread(p, t)' = s * (THREAD_QUANTUM + 1) - k2
    BY <1>2, <1>5 DEF TicksBeforeThread
  <2>2. /\ s * (THREAD_QUANTUM + 1) - k2 <= s * (THREAD_QUANTUM + 1) - k
        /\ k2 > k => s * (THREAD_QUANTUM + 1) - k2 < s * (THREAD_QUANTUM + 1) - k
    BY <1>5, LessToWait
  <2> QED BY <1>4, <2>1, <2>2
<1>6. CASE ~quantumLeft(ticks) /\ processSwitch(tick)
  <2>1. threadTick' = [threadTick EXCEPT ![currentProcess] = tick] /\ UNCHANGED currentThread
    BY <1>6 DEF processSwitch
  <2>2. PICK k2 \in 0..THREAD_QUANTUM : k2 = threadTick'[p] /\ k2 >= k
    BY <1>1, <1>3, <2>1
  <2>3. TicksBeforeThread(p, t)' <= TicksBeforeThread(p, t)
    BY <1>5, <2>1, <2>2
  <2> QED BY <1>6, <2>3 DEF quantumLeft
<1>7. CASE threadCheck(tick) /\ currentProcess # p
  <2>1. threadTick'[p] = k /\ currentThread'[p] = currentThread[p]
    BY <1>1, <1>3, <1>7 DEF threadCheck, nextThread
  <2>2. TicksBeforeThread(p, t)' = s * (THREAD_QUANTUM + 1) - k
    BY <1>2, <2>1 DEF TicksBeforeThread
  <2>3. s * (THREAD_QUANTUM + 1) - k <= s * (THREAD_QUANTUM + 1) - k
    BY LessToWait
  <2> QED BY <1>4, <1>7, <2>2, <2>3
<1>8. CASE threadCheck(tick) /\ currentProcess = p
  <2>1. CASE tick < THREAD_QUANTUM
    <3>1. threadTick' = [threadTick EXCEPT ![p] = tick + 1] /\ UNCHANGED currentThread
      BY <1>8, <2>1 DEF threadCheck
    <3>2. PICK k2 \in 0..THREAD_QUANTUM : k2 = threadTick'[p] /\ k2 > k
      <4>1. tick + 1 \in 0..THREAD_QUANTUM /\ tick + 1 > k
        BY <1>3, <1>8, <2>1
      <4> QED BY <1>1, <3>1, <4>1
    <3> QED BY <1>5, <3>1, <3>2
  <2>2. CASE tick >= THREAD_QUANTUM
    <3> DEFINE ts == IF tstate[p][currentThread[p]] = "T_RUNNING"
                       THEN [tstate[p] EXCEPT ![currentThread[p]] = "T_READY"]
                       ELSE tstate[p]
    <3>1. threadTick' = [threadTick EXCEPT ![p] = 0] /\ nextThread
      BY <1>8, <2>2 DEF threadCheck
    <3>2. PICK u \in threadsOf(p) :
            /\ IsNextThread(u, p, {r \in threadsOf(p) : ts[r] = "T_READY"})
            /\ currentThread' = [currentThread EXCEPT ![p] = u]
      <4> DEFINE c == currentProcess
                 cts == IF tstate[c][currentThread[c]] = "T_RUNNING"
                          THEN [tstate[c] EXCEPT ![currentThread[c]] = "T_READY"]
                          ELSE tstate[c]
      <4>1. c = p /\ cts = ts
        BY <1>8
      <4>2. \E u \in threadsOf(c) :
              /\ IsNextThread(u, c, {r \in threadsOf(c) : cts[r] = "T_READY"})
              /\ currentThread' = [currentThread EXCEPT ![c] = u]
        BY <3>1 DEF nextThread
      <4> HIDE DEF c, cts, ts
      <4> QED BY <4>1, <4>2
    <3>3. ts[t] = "T_READY"
      BY <1>1
    <3> HIDE DEF ts
    <3>4. threadTick'[p] = 0 /\ currentThread'[p] = u
      BY <1>1, <3>1, <3>2
    <3>5. CASE u # t
      <4>1. PICK S : S = {r \in threadsOf(p) : ts[r] = "T_READY"}
        OBVIOUS
      <4>2. IsNextIn(u, currentThread[p], S, MaxThreads) /\ t \in S
        BY <3>2, <3>3, <4>1 DEF IsNextThread
      <4>3. /\ currentThread[p] \in 0..(MaxThreads - 1) /\ t \in 0..(MaxThreads - 1)
            /\ u \in 0..(MaxThreads - 1)
        BY <1>1 DEF Pthread
      <4>4. Steps(u, t, MaxThreads) + 1 <= s
        BY <1>1, <1>2, <3>5, <4>2, <4>3, WalkNearer
      <4>5. PICK s2 \in Int : s2 = Steps(u, t, MaxThreads)
        BY <1>1, <4>3, WalkSteps
      <4>6. s2 * (THREAD_QUANTUM + 1) - 0 < s * (THREAD_QUANTUM + 1) - k
        BY <4>4, <4>5, LessToWait
      <4>7. TicksBeforeThread(p, t)' = s2 * (THREAD_QUANTUM + 1) - 0
        BY <3>4, <4>5 DEF TicksBeforeThread
      <4>8. s2 * (THREAD_QUANTUM + 1) \in Int /\ s * (THREAD_QUANTUM + 1) \in Int
        OBVIOUS
      <4> QED BY <1>4, <4>6, <4>7, <4>8
    <3> QED BY <3>4, <3>5
  <2> QED BY <1>1, <1>8, <2>1, <2>2
<1> QED BY <1>6, <1>7, <1>8 DEF runScheduler

(* What is not a tick or a yield leaves the current threads alone.            *)
LEMMA NoFurtherThread ==
  ASSUME IInv, NEW p \in queue, NEW t \in threadsOf(p), currentThread'[p] = currentThread[p],
         NEW k2 \in 0..THREAD_QUANTUM, threadTick'[p] = k2, k2 >= threadTick[p]
  PROVE  TicksBeforeThread(p, t)' <= TicksBeforeThread(p, t)
<1> USE BoundsAssumption, QuantumAssumption
<1>1. /\ MaxThreads \in Nat /\ currentThread[p] \in 0..(MaxThreads - 1) /\ t \in 0..(MaxThreads - 1)
      /\ threadTick[p] \in 0..THREAD_QUANTUM
  BY ThreadsArePthreads DEF IInv, TypeOK, Pthread
<1>2. PICK s \in Int : s = Steps(currentThread[p], t, MaxThreads)
  <2>1. Steps(currentThread[p], t, MaxThreads) \in 1..MaxThreads
    BY <1>1, WalkSteps
  <2> QED BY <1>1, <2>1
<1>3. s * (THREAD_QUANTUM + 1) - k2 <= s * (THREAD_QUANTUM + 1) - threadTick[p]
  BY <1>1, LessToWait
<1> QED BY <1>2, <1>3 DEF TicksBeforeThread

(* Pids only grow, so that a new process is not one of those in the list.     *)
PidsAreNew == \A p \in queue : p < currentPid

LEMMA InitPids == Init => PidsAreNew
BY DEF Init, PidsAreNew

LEMMA NextPids == IInv /\ PidsAreNew /\ [Next]_vars => PidsAreNew'
<1> SUFFICES ASSUME IInv, PidsAreNew, [Next]_vars PROVE PidsAreNew'
  OBVIOUS
<1>1. \A p \in queue : p \in Int
  BY Identifiers DEF IInv, TypeOK
<1>2. currentPid \in Int
  BY BoundsAssumption DEF IInv, TypeOK
<1>3. CASE queue' \subseteq queue /\ currentPid' = currentPid
  BY <1>3 DEF PidsAreNew
<1>4. CASE AddProcess
  BY <1>1, <1>2, <1>4 DEF AddProcess, PidsAreNew
<1>5. CASE Tick \/ Yield
  BY <1>3, <1>5 DEF Tick, Yield, runScheduler, processSwitch, removeDeadProcess
<1>6. CASE \E p \in queue : AddThread(p)
  BY <1>3, <1>6 DEF AddThread
<1>7. CASE \E type \in BlockTypes : Block(type)
  BY <1>3, <1>7 DEF Block
<1>8. CASE \E p \in queue : \E t \in threadsOf(p) : Unblock(p, t)
  BY <1>3, <1>8 DEF Unblock
<1>9. CASE \E p \in queue : \E type \in BlockTypes \ {"T_BLOCKED_MUTEX"} : UnblockAll(p, type)
  BY <1>3, <1>9 DEF UnblockAll
<1>10. CASE \E p \in queue : Kill(p)
  BY <1>3, <1>10 DEF Kill
<1>11. CASE \E p \in queue : \E t \in Pthread : KillThread(p, t)
  BY <1>3, <1>11 DEF KillThread
<1>12. CASE UNCHANGED vars
  BY <1>3, <1>12 DEF vars
<1> QED BY <1>4, <1>5, <1>6, <1>7, <1>8, <1>9, <1>10, <1>11, <1>12 DEF Next

LEMMA ReadyThreadNearer ==
  ASSUME IInv, PidsAreNew, Next, NEW p \in queue, NEW t \in threadsOf(p), tstate[p][t] = "T_READY"
  PROVE  ThreadComesNearer(p, t)
<1> USE BoundsAssumption, QuantumAssumption DEF ThreadComesNearer
<1>0. /\ numberOfTicks \in 0..QUANTUM /\ QUANTUM \in 0..QUANTUM
      /\ THREAD_QUANTUM \in 0..THREAD_QUANTUM /\ p \in Pid /\ currentProcess \in Pid
      /\ threadTick \in [Pid -> 0..THREAD_QUANTUM]
      /\ \A q \in Pid : threadTick[q] \in 0..THREAD_QUANTUM /\ threadTick[q] <= THREAD_QUANTUM
  BY DEF IInv, TypeOK
<1>1. CASE Tick
  BY <1>0, <1>1, SchedulerNearerThread DEF Tick
<1>2. ASSUME currentThread'[p] = currentThread[p],
             threadTick'[p] = threadTick[p] \/ threadTick'[p] = THREAD_QUANTUM
      PROVE  TicksBeforeThread(p, t)' <= TicksBeforeThread(p, t)
  BY <1>0, <1>2, NoFurtherThread
<1>3. ASSUME ~Tick
      PROVE  currentThread'[p] = t \/ TicksBeforeThread(p, t)' <= TicksBeforeThread(p, t)
  <2>1. CASE Yield
    <3>1. CASE runScheduler(QUANTUM, threadTick[currentProcess])
      BY <1>0, <3>1, SchedulerNearerThread
    <3>2. CASE runScheduler(numberOfTicks, THREAD_QUANTUM)
      BY <1>0, <3>2, SchedulerNearerThread
    <3>3. CASE UNCHANGED <<currentThread, threadTick>>
      BY <1>2, <3>3
    <3> QED BY <2>1, <3>1, <3>2, <3>3 DEF Yield, threadVars
  <2>2. CASE AddProcess
    <3>1. p # currentPid
      BY DEF PidsAreNew, IInv, TypeOK
    <3> QED BY <1>0, <1>2, <2>2, <3>1 DEF AddProcess, IInv, TypeOK
  <2>3. CASE \E q \in queue : AddThread(q)
    BY <1>2, <2>3 DEF AddThread
  <2>4. CASE \E type \in BlockTypes : Block(type)
    BY <1>0, <1>2, <2>4 DEF Block, blockThread
  <2>5. CASE \E q \in queue : \E u \in threadsOf(q) : Unblock(q, u)
    BY <1>2, <2>5 DEF Unblock
  <2>6. CASE \E q \in queue : \E type \in BlockTypes \ {"T_BLOCKED_MUTEX"} : UnblockAll(q, type)
    BY <1>2, <2>6 DEF UnblockAll
  <2>7. CASE \E q \in queue : Kill(q)
    BY <1>2, <2>7 DEF Kill, threadVars
  <2>8. CASE \E q \in queue : \E u \in Pthread : KillThread(q, u)
    BY <1>2, <2>8 DEF KillThread
  <2> QED BY <1>3, <2>1, <2>2, <2>3, <2>4, <2>5, <2>6, <2>7, <2>8 DEF Next
<1> QED BY <1>1, <1>3

(* For any number of processes and threads and any quanta nobody is overtaken *)
(* for ever: a ready process waits no longer than its distance in the list    *)
(* times a quantum, whatever is created, blocked, woken or killed meanwhile,  *)
(* and a ready thread no longer in the ticks of its process (scheduler.c:41-59, *)
(* :253-281).                                                                 *)
THEOREM ReadyOnesComeNearer == Spec => ReadyComesNearer
<1>1. IInv /\ PidsAreNew /\ [Next]_vars =>
        [\A p \in queue :
           /\ state[p] = "READY" => ProcessComesNearer(p)
           /\ \A t \in threadsOf(p) : tstate[p][t] = "T_READY" => ThreadComesNearer(p, t)]_vars
  BY ReadyProcessNearer, ReadyThreadNearer
<1>2. IInv /\ PidsAreNew /\ [Next]_vars => PidsAreNew'
  BY NextPids
<1> QED BY <1>1, <1>2, InitPids, InvariantHolds, PTL DEF Spec, ReadyComesNearer
============================================================================
