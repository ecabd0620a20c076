----------------------------- MODULE Scheduler -----------------------------
(***************************************************************************)
(* The process and thread scheduler of the kernel (scheduler.c, process.c, *)
(* threads.c) under the user programs that call it.                        *)
(*                                                                         *)
(* Every entry to the kernel (system call, timer tick, yield, keyboard     *)
(* interrupt) goes through an interrupt gate and runs with interrupts off, *)
(* so each one is one action.  A user level wrapper such as mutexDown is   *)
(* two entries, the system call and then yield(), and anything may happen  *)
(* between them: `owesYield' holds the threads that are in that gap.       *)
(*                                                                         *)
(* The circular process list is kept as the set of the pids linked in it.  *)
(* addProcessToQueue inserts right after the head, which is always init,   *)
(* and pids only grow, so a walk along the list meets init, then the pids  *)
(* in descending order, then init again.  The list of threads of a process *)
(* is built in the same way around thread 0.                               *)
(***************************************************************************)
EXTENDS Integers, FiniteSets

CONSTANTS
  MaxPid,          \* bound: the largest pid ever created
  MaxThreads,      \* bound: threads created per process
  QUANTUM,         \* scheduler.h: ticks of a process before it is switched
  THREAD_QUANTUM,  \* threads.h: ticks of a thread before it is switched
  BlockTypes,      \* the reasons to block that are used
  KillAny          \* may any thread use the whole interface?  In the shipped
                   \* programs only thread 0 of a process ends it, with exit(),
                   \* threads are made for the caller's own process and loop for
                   \* ever, and beside them thread 0 waits at no mutex

ThreadBlockedStates == {"T_BLOCKED_IO", "T_BLOCKED_MUTEX", "T_BLOCKED_PIPE"}
ProcessBlockedStates == {"BLOCKED_IO", "BLOCKED_MUTEX", "BLOCKED_PIPE"}

ASSUME BoundsAssumption == MaxPid \in Nat /\ MaxPid >= 1 /\ MaxThreads \in Nat \ {0}
ASSUME QuantumAssumption == QUANTUM \in Nat /\ THREAD_QUANTUM \in Nat
ASSUME BlockAssumption == BlockTypes \subseteq ThreadBlockedStates
ASSUME KillAssumption == KillAny \in BOOLEAN

Pid == 0..MaxPid
Pthread == 0..(MaxThreads - 1)

VARIABLES
  queue,           \* pids linked in the circular list processQueue
  queueSize,
  currentProcess,
  numberOfTicks,
  currentPid,      \* process.c: the pid the next process gets
  state,           \* process->state
  threadTick,      \* process->threadTick
  threadSize,      \* process->threadSize
  currentThread,   \* pthread of process->currentThread
  currentPThread,  \* the pthread the next thread of the process gets
  tstate,          \* thread->state
  freed,           \* pids whose node went back to the allocator
  owesYield        \* threads between a system call and the yield() after it

threadVars == <<threadTick, threadSize, currentThread, currentPThread, tstate>>
vars == <<queue, queueSize, currentProcess, numberOfTicks, currentPid, state,
          threadTick, threadSize, currentThread, currentPThread, tstate,
          freed, owesYield>>

processState == {"READY", "RUNNING", "DEAD"} \cup ProcessBlockedStates
threadState == {"T_READY", "T_RUNNING", "T_DEAD"} \cup ThreadBlockedStates

TypeOK ==
  /\ queue \subseteq Pid
  /\ queueSize \in 0..(MaxPid + 1)
  /\ currentProcess \in queue
  /\ numberOfTicks \in 0..QUANTUM
  /\ currentPid \in 2..(MaxPid + 1)
  /\ state \in [Pid -> processState]
  /\ threadTick \in [Pid -> 0..THREAD_QUANTUM]
  /\ threadSize \in [Pid -> 0..MaxThreads]
  /\ currentThread \in [Pid -> Pthread]
  /\ currentPThread \in [Pid -> 0..MaxThreads]
  /\ tstate \in [Pid -> [Pthread -> threadState]]
  /\ freed \subseteq Pid
  /\ owesYield \subseteq Pid \X Pthread

----------------------------------------------------------------------------
(* Walking the lists. *)

\* Nodes a walk passes to go from p to q in a list of pids below n; a full
\* turn when it comes back to p.
Steps(p, q, n) == IF q < p THEN p - q ELSE p - q + n

\* q is the first member of S that a walk starting after p meets.
IsNextIn(q, p, S, n) ==
  q \in S /\ \A r \in S : Steps(p, q, n) <= Steps(p, r, n)

threadsOf(p) == 0..(currentPThread[p] - 1)

\* Index of thread t in the list that starts at threadLibrary.
PlaceOfThread(p, t) == IF t = 0 THEN 0 ELSE currentPThread[p] - t

\* The loops over a thread library visit threadSize nodes from its head.
VisitedThreads(p) == {t \in threadsOf(p) : PlaceOfThread(p, t) < threadSize[p]}

\* Index of p in the list that starts at processQueue.
PlaceOfProcess(p) == IF p = 0 THEN 0 ELSE 1 + Cardinality({r \in queue : r > p})

getBlockProcessType(type) ==
  CASE type = "T_BLOCKED_IO"    -> "BLOCKED_IO"
    [] type = "T_BLOCKED_MUTEX" -> "BLOCKED_MUTEX"
    [] type = "T_BLOCKED_PIPE"  -> "BLOCKED_PIPE"

isProcessBlocked(s) == s \in ProcessBlockedStates
isThreadBlocked(s) == s \in ThreadBlockedStates

allThreadsAreBlocked(p, ts) == \A t \in VisitedThreads(p) : ts[p][t] # "T_READY"

getCurrentPthread == currentThread[currentProcess]

----------------------------------------------------------------------------
(* removeDeadProcess visits queueSize nodes from the head and frees the    *)
(* dead ones.  It unlinks a node through `prev', the node visited before,  *)
(* even when `prev' was itself just unlinked: of a run of consecutive dead *)
(* nodes only the first, third, ... leave the list.                        *)

\* Mutant: the walk stops one node early.
visitedDeadShort ==
  {p \in queue : state[p] = "DEAD" /\ PlaceOfProcess(p) < queueSize - 1}

visitedDead ==
  {p \in queue : state[p] = "DEAD" /\ PlaceOfProcess(p) < queueSize}

deadRunBefore(p) ==
  {r \in visitedDead :
     r > p /\ \A s \in queue : (p < s /\ s < r) => s \in visitedDead}

unlinkedDead == {p \in visitedDead : Cardinality(deadRunBefore(p)) % 2 = 0}

removeDeadProcess ==
  /\ queue' = queue \ unlinkedDead
  /\ freed' = freed \cup visitedDead

----------------------------------------------------------------------------
(* runScheduler, with the tick counters it finds on entry. *)

\* Mutant: the search starts at the head of the list each time.
IsNextThreadFromHead(t, p, ready) == IsNextIn(t, 0, ready, MaxThreads)

IsNextThread(t, p, ready) == IsNextIn(t, currentThread[p], ready, MaxThreads)

\* removeDeadThreads, called first, changes nothing: its loop only advances
\* past a dead head, and thread 0 cannot be killed.
nextThread ==
  LET p == currentProcess
      ts == IF tstate[p][currentThread[p]] = "T_RUNNING"
              THEN [tstate[p] EXCEPT ![currentThread[p]] = "T_READY"]
              ELSE tstate[p]
  IN \E t \in threadsOf(p) :
       /\ IsNextThread(t, p, {u \in threadsOf(p) : ts[u] = "T_READY"})
       /\ currentThread' = [currentThread EXCEPT ![p] = t]
       /\ tstate' = [tstate EXCEPT ![p] = [ts EXCEPT ![t] = "T_RUNNING"]]

threadCheck(tick) ==
  \/ /\ tick < THREAD_QUANTUM
     /\ threadTick' = [threadTick EXCEPT ![currentProcess] = tick + 1]
     /\ UNCHANGED <<currentThread, tstate>>
  \/ /\ tick >= THREAD_QUANTUM
     /\ threadTick' = [threadTick EXCEPT ![currentProcess] = 0]
     /\ nextThread

\* Mutant: the process switched out becomes READY whatever its state.
requeueAlways == [state EXCEPT ![currentProcess] = "READY"]

\* The process switched out goes back to READY if it was RUNNING.
requeue ==
  IF state[currentProcess] = "RUNNING"
    THEN [state EXCEPT ![currentProcess] = "READY"] ELSE state

\* Mutant: the search starts at the head of the list each time.
IsNextProcessFromHead(p, ready) == IsNextIn(p, 0, ready, MaxPid + 1)

IsNextProcess(p, ready) == IsNextIn(p, currentProcess, ready, MaxPid + 1)

processSwitch(tick) ==
  /\ removeDeadProcess
  /\ numberOfTicks' = 0
  /\ \E p \in queue :
       /\ IsNextProcess(p, {q \in queue : requeue[q] = "READY"})
       /\ currentProcess' = p
       /\ state' = [requeue EXCEPT ![p] = "RUNNING"]
  /\ threadTick' = [threadTick EXCEPT ![currentProcess] = tick]
  /\ UNCHANGED <<currentThread, tstate>>

quantumLeft(ticks) == ticks < QUANTUM

runScheduler(ticks, tick) ==
  /\ \/ /\ quantumLeft(ticks)
        /\ numberOfTicks' = ticks + 1
        /\ threadCheck(tick)
        /\ UNCHANGED <<queue, freed, currentProcess, state>>
     \/ /\ ~quantumLeft(ticks)
        /\ processSwitch(tick)
  /\ UNCHANGED <<queueSize, currentPid, threadSize, currentPThread>>

----------------------------------------------------------------------------
(* The operations on processes and threads that the handlers are made of.  *)

\* Mutant: blocking the process does not end its quantum.
blockProcessInQuantum(p, blockType) ==
  /\ state' = [state EXCEPT ![p] = blockType]
  /\ UNCHANGED numberOfTicks

blockProcess(p, blockType) ==
  /\ state' = [state EXCEPT ![p] = blockType]
  /\ numberOfTicks' = QUANTUM

blockThread(p, t, type) ==
  /\ tstate' = [tstate EXCEPT ![p][t] = type]
  /\ threadTick' = [threadTick EXCEPT ![p] = THREAD_QUANTUM]
  /\ IF allThreadsAreBlocked(p, tstate')
       THEN blockProcess(p, getBlockProcessType(type))
       ELSE UNCHANGED <<state, numberOfTicks>>

unblockProcess(p, blockType) ==
  state' = [state EXCEPT ![p] = IF @ = blockType THEN "READY" ELSE @]

\* Mutant: the process of the thread is not woken.
unblockThreadOnly(p, t, type) ==
  /\ tstate' = [tstate EXCEPT ![p][t] = IF @ = type THEN "T_READY" ELSE @]
  /\ UNCHANGED state

unblockThread(p, t, type) ==
  /\ tstate' = [tstate EXCEPT ![p][t] = IF @ = type THEN "T_READY" ELSE @]
  /\ unblockProcess(p, getBlockProcessType(type))

unblockAllThreads(p, type) ==
  LET woken == {t \in VisitedThreads(p) : tstate[p][t] = type}
  IN /\ tstate' = [tstate EXCEPT ![p] =
                     [t \in Pthread |-> IF t \in woken THEN "T_READY" ELSE @[t]]]
     /\ IF woken # {} THEN unblockProcess(p, getBlockProcessType(type))
                      ELSE UNCHANGED state

\* Mutant: init and the shell are not protected.
removeAnyProcess(p) ==
  /\ state' = [state EXCEPT ![p] = "DEAD"]
  /\ queueSize' = queueSize - 1

\* init and the shell, pids 0 and 1, are never removed.
removeProcess(p) ==
  IF p \in {0, 1}
    THEN UNCHANGED <<state, queueSize>>
    ELSE /\ state' = [state EXCEPT ![p] = "DEAD"]
         /\ queueSize' = queueSize - 1

removeThread(p, t) ==
  IF p \in {0, 1} \/ t = 0
    THEN UNCHANGED <<state, queueSize, tstate, threadSize>>
    ELSE /\ IF threadSize[p] = 1 THEN removeProcess(p)
                                 ELSE UNCHANGED <<state, queueSize>>
         /\ tstate' = [tstate EXCEPT ![p][t] = "T_DEAD"]
         /\ threadSize' = [threadSize EXCEPT ![p] = @ - 1]

----------------------------------------------------------------------------
(* The entries to the kernel.                                              *)

\* The running user thread is free to make its next system call.  init (pid
\* 0) is a kernel loop that makes none.
CanCall ==
  /\ currentProcess # 0
  /\ <<currentProcess, getCurrentPthread>> \notin owesYield

\* The wrapper of the call goes on with yield().
ThenYield == owesYield' = owesYield \cup {<<currentProcess, getCurrentPthread>>}

\* irq0: the timer handler of schedulerSwitch.asm.
Tick ==
  /\ runScheduler(numberOfTicks, threadTick[currentProcess])
  /\ UNCHANGED owesYield

yieldLeaves(s) == isProcessBlocked(s) \/ s = "DEAD"

\* int 71h: yieldSwitch.
Yield ==
  LET p == currentProcess
      t == getCurrentPthread
  IN /\ <<p, t>> \in owesYield
     /\ owesYield' = owesYield \ {<<p, t>>}
     /\ IF yieldLeaves(state[p])
          THEN runScheduler(QUANTUM, threadTick[p])
        ELSE IF isThreadBlocked(tstate[p][t]) \/ tstate[p][t] = "T_DEAD"
          THEN runScheduler(numberOfTicks, THREAD_QUANTUM)
        ELSE UNCHANGED <<queue, queueSize, currentProcess, numberOfTicks,
                         currentPid, state, freed, threadVars>>

\* pcreate: addProcess, which creates the process with its thread 0.
AddProcess ==
  LET p == currentPid
  IN /\ CanCall
     /\ currentPid <= MaxPid
     /\ currentPid' = currentPid + 1
     /\ queue' = queue \cup {p}
     /\ queueSize' = queueSize + 1
     /\ state' = [state EXCEPT ![p] = "READY"]
     /\ threadTick' = [threadTick EXCEPT ![p] = 0]
     /\ currentThread' = [currentThread EXCEPT ![p] = 0]
     /\ currentPThread' = [currentPThread EXCEPT ![p] = 1]
     /\ threadSize' = [threadSize EXCEPT ![p] = 1]
     /\ tstate' = [tstate EXCEPT ![p][0] = "T_READY"]
     /\ UNCHANGED <<currentProcess, numberOfTicks, freed, owesYield>>

\* tcreate: addThreadToProcess.  The state of the process is left as it is.
AddThread(p) ==
  /\ CanCall
  /\ p # 0 /\ (KillAny \/ p = currentProcess)
  /\ currentPThread[p] < MaxThreads
  /\ tstate' = [tstate EXCEPT ![p][currentPThread[p]] = "T_READY"]
  /\ currentPThread' = [currentPThread EXCEPT ![p] = @ + 1]
  /\ threadSize' = [threadSize EXCEPT ![p] = @ + 1]
  /\ UNCHANGED <<queue, queueSize, currentProcess, numberOfTicks, currentPid,
                 state, threadTick, currentThread, freed, owesYield>>

\* In the shipped programs the threads made by tcreate wait at mutexes and
\* semaphores only, and the thread 0 beside them for keys.
MayWaitFor(p, t, type) ==
  KillAny \/ currentPThread[p] = 1 \/ (type = "T_BLOCKED_MUTEX" <=> t # 0)

\* read, receive, mutexDown, semaphoreDown, when they have to wait.
Block(type) ==
  /\ CanCall
  /\ MayWaitFor(currentProcess, getCurrentPthread, type)
  /\ blockThread(currentProcess, getCurrentPthread, type)
  /\ ThenYield
  /\ UNCHANGED <<queue, queueSize, currentProcess, currentPid, threadSize,
                 currentThread, currentPThread, freed>>

\* mutexUp and semaphoreUp wake the threads of the list.  (The yield after
\* mutexUp finds the caller unblocked and does nothing.)  A thread of the list
\* may have been killed, or have run on and be blocked for another reason; as
\* the shipped programs are, one that is not blocked at a mutex is not blocked,
\* and to wake it changes nothing.
Unblock(p, t) ==
  /\ CanCall
  /\ "T_BLOCKED_MUTEX" \in BlockTypes
  /\ KillAny \/ tstate[p][t] = "T_BLOCKED_MUTEX"
  /\ unblockThread(p, t, "T_BLOCKED_MUTEX")
  /\ UNCHANGED <<queue, queueSize, currentProcess, numberOfTicks, currentPid,
                 threadTick, threadSize, currentThread, currentPThread, freed,
                 owesYield>>

\* send wakes the threads of the receiving process that wait on a pipe; the
\* keyboard interrupt, at any moment, those of the focused process.
UnblockAll(p, type) ==
  /\ type = "T_BLOCKED_PIPE" => CanCall
  /\ unblockAllThreads(p, type)
  /\ UNCHANGED <<queue, queueSize, currentProcess, numberOfTicks, currentPid,
                 threadTick, threadSize, currentThread, currentPThread, freed,
                 owesYield>>

\* pkill; exit() is pkill of the caller.
Kill(p) ==
  /\ CanCall
  /\ KillAny \/ (p = currentProcess /\ getCurrentPthread = 0)
  /\ queueSize > 0                                   \* bound
  /\ removeProcess(p)
  /\ ThenYield
  /\ UNCHANGED <<queue, currentProcess, numberOfTicks, currentPid, freed, threadVars>>

\* tkill.
KillThread(p, t) ==
  /\ CanCall
  /\ KillAny
  /\ t \in threadsOf(p)
  /\ threadSize[p] > 0 /\ queueSize > 0              \* bounds
  /\ removeThread(p, t)
  /\ ThenYield
  /\ UNCHANGED <<queue, currentProcess, numberOfTicks, currentPid, threadTick,
                 currentThread, currentPThread, freed>>

\* main has created init and the shell, and endLoadingKernel jumps to init.
Init ==
  /\ queue = {0, 1}
  /\ queueSize = 2
  /\ currentProcess = 0
  /\ numberOfTicks = 0
  /\ currentPid = 2
  /\ state = [p \in Pid |-> "READY"]
  /\ threadTick = [p \in Pid |-> 0]
  /\ threadSize = [p \in Pid |-> IF p \in {0, 1} THEN 1 ELSE 0]
  /\ currentThread = [p \in Pid |-> 0]
  /\ currentPThread = [p \in Pid |-> IF p \in {0, 1} THEN 1 ELSE 0]
  /\ tstate = [p \in Pid |-> [t \in Pthread |-> "T_READY"]]
  /\ freed = {}
  /\ owesYield = {}

Next ==
  \/ Tick
  \/ Yield
  \/ AddProcess
  \/ \E p \in queue : AddThread(p)
  \/ \E type \in BlockTypes : Block(type)
  \/ \E p \in queue : \E t \in threadsOf(p) : Unblock(p, t)
  \/ \E p \in queue : \E type \in BlockTypes \ {"T_BLOCKED_MUTEX"} : UnblockAll(p, type)
  \/ \E p \in queue : Kill(p)
  \/ \E p \in queue : \E t \in Pthread : KillThread(p, t)

\* The timer interrupt keeps coming, and a thread that is running and owes a
\* yield() executes it.
Fairness == WF_vars(Tick) /\ WF_vars(Yield)

Spec == Init /\ [][Next]_vars
FairSpec == Spec /\ Fairness
----------------------------------------------------------------------------
(* Properties.                                                             *)

Dead(p) == state[p] = "DEAD"
Runnable(p) == state[p] \in {"READY", "RUNNING"}

\* Only the process on the processor is RUNNING: however ticks, yields, blocks
\* and wake-ups interleave, no process is left marked RUNNING behind a switch,
\* where the READY search of runScheduler (scheduler.c:52) would never pick it
\* again.
RunningIsCurrent ==
  \A p \in queue : state[p] = "RUNNING" => p = currentProcess

\* The READY search of runScheduler, which has no bound and runs with
\* interrupts off, always has a process to stop at (scheduler.c:48-54).
SwitchTerminates ==
  \E p \in queue : state[p] = "READY" \/ (p = currentProcess /\ state[p] = "RUNNING")

\* So has the T_READY search of nextThread whenever runScheduler may reach it
\* (scheduler.c:272-278).
ThreadSwitchTerminates ==
  numberOfTicks < QUANTUM =>
    \E t \in threadsOf(currentProcess) :
      \/ tstate[currentProcess][t] = "T_READY"
      \/ t = getCurrentPthread /\ tstate[currentProcess][t] = "T_RUNNING"

\* While processes only exit, queueSize counts the live processes, and the one
\* dead process there may be is the current one, so that removeDeadProcess
\* (scheduler.c:122), which visits queueSize nodes, meets and unlinks it: no
\* freed node stays linked.
QueueConsistent ==
  /\ queueSize = Cardinality({p \in queue : ~Dead(p)})
  /\ \A p \in queue : Dead(p) => p = currentProcess
  /\ queue \cap freed = {}

\* A thread that had to wait gets past its yield() only after it was unblocked:
\* the running thread is never a blocked one (scheduler.c:194-205).
BlockedThreadNeverRuns ==
  isThreadBlocked(tstate[currentProcess][getCurrentPthread]) =>
    <<currentProcess, getCurrentPthread>> \in owesYield

\* A process that exited runs no further instruction of its own after the
\* yield() of pkill.
DeadNeverRuns ==
  Dead(currentProcess) => <<currentProcess, getCurrentPthread>> \in owesYield

\* Dead is final: no block or wake-up of one of its threads brings a dead
\* process back (scheduler.c:140, 147).
DeadStaysDead == [][\A p \in queue : Dead(p) => state'[p] = "DEAD"]_vars

\* A wake-up of one thread wakes its process: no process is blocked while one
\* of its threads is ready (scheduler.c:168-177).
ReadyThreadUnblocksProcess ==
  \A p \in queue : isProcessBlocked(state[p]) =>
    \A t \in threadsOf(p) : tstate[p][t] # "T_READY"

\* Ticks after which the walk from the current process has reached p at the
\* latest, and ticks of its own process after which that from the current thread
\* has reached t.  A quantum is one tick longer than its constant says.
TicksBefore(p) == Steps(currentProcess, p, MaxPid + 1) * (QUANTUM + 1) - numberOfTicks
TicksBeforeThread(p, t) ==
  Steps(currentThread[p], t, MaxThreads) * (THREAD_QUANTUM + 1) - threadTick[p]

ProcessComesNearer(p) ==
  \/ currentProcess' = p
  \/ /\ TicksBefore(p)' <= TicksBefore(p)
     /\ Tick => TicksBefore(p)' < TicksBefore(p)

ThreadComesNearer(p, t) ==
  \/ currentThread'[p] = t
  \/ /\ TicksBeforeThread(p, t)' <= TicksBeforeThread(p, t)
     /\ Tick /\ currentProcess = p /\ numberOfTicks < QUANTUM =>
          TicksBeforeThread(p, t)' < TicksBeforeThread(p, t)

\* Nobody overtakes a ready process for ever: every tick brings it nearer to the
\* processor, and nothing that others do, creating, blocking, waking or killing
\* processes, takes it further away, so that its wait has a bound in ticks
\* (scheduler.c:41-59, :66-72).  Nor a ready thread, with the ticks in the quanta of
\* its process (scheduler.c:253-281).
ReadyComesNearer ==
  [][\A p \in queue :
       /\ state[p] = "READY" => ProcessComesNearer(p)
       /\ \A t \in threadsOf(p) : tstate[p][t] = "T_READY" => ThreadComesNearer(p, t)]_vars

\* No process and no thread starves: a ready thread of a process that is not
\* blocked gets the processor, unless its process dies.
ReadyThreadRuns ==
  \A p \in Pid, t \in Pthread :
    (p \in queue /\ t \in threadsOf(p) /\ Runnable(p) /\ tstate[p][t] = "T_READY")
      ~> ((currentProcess = p /\ currentThread[p] = t) \/ state[p] = "DEAD")
============================================================================
