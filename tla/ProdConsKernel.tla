--------------------------- MODULE ProdConsKernel ---------------------------
(***************************************************************************)
(* The producer and consumer of the shell on the scheduler of the kernel.  *)
(* ProdCons takes it for granted that a thread that has to wait waits;     *)
(* here a thread takes a step whenever the scheduler has it on the         *)
(* processor, between a system call and its yield() as well as after it.   *)
(* Process 1 is the shell, which starts the program and then reads without *)
(* the focus; process 2 is the program, its thread 0 waits for keys.       *)
(***************************************************************************)
EXTENDS Scheduler, ProdCons

kernelVars == <<vars, syncVars, prodconsVars>>

SHELL == 1
PROGRAM == 2

\* The order in which tcreate is called for them.
Tid == [producer |-> 1, consumer |-> 2]

\* There is room for the program and its threads, and a quantum has a tick.
ASSUME KernelAssumption ==
  /\ MaxPid >= PROGRAM
  /\ \A t \in DOMAIN Tid : MaxThreads > Tid[t]
  /\ QUANTUM > 0
  /\ {"T_BLOCKED_IO", "T_BLOCKED_MUTEX"} \subseteq BlockTypes

KernelInit == Init /\ SyncInit /\ ProdConsInit

\* User code of thread t of process p is on the processor.
OnProcessor(p, t) ==
  CanCall /\ currentProcess = p /\ getCurrentPthread = t

----------------------------------------------------------------------------
(* Scheduler and programs. *)

Schedule ==
  /\ Tick \/ Yield
  /\ UNCHANGED <<syncVars, prodconsVars>>

Shell ==
  /\ OnProcessor(SHELL, 0)
  /\ \/ currentPid = PROGRAM /\ AddProcess
     \/ currentPid > PROGRAM /\ Block("T_BLOCKED_IO")
  /\ UNCHANGED <<syncVars, prodconsVars>>

Start ==
  /\ OnProcessor(PROGRAM, 0)
  /\ StartProdCons
  /\ UNCHANGED vars

Create(t) ==
  /\ OnProcessor(PROGRAM, 0)
  /\ CreateThread(t)
  /\ AddThread(PROGRAM)

\* control(): read without a key blocks; with one it returns through its yield().
Control ==
  /\ OnProcessor(PROGRAM, 0) /\ prodcons = "running"
  /\ \/ Block("T_BLOCKED_IO")
     \/ /\ ThenYield
        /\ UNCHANGED <<queue, queueSize, currentProcess, numberOfTicks, currentPid,
                       state, threadVars, freed>>
  /\ UNCHANGED <<syncVars, prodconsVars>>

Key ==
  /\ UnblockAll(PROGRAM, "T_BLOCKED_IO")
  /\ UNCHANGED <<syncVars, prodconsVars>>

----------------------------------------------------------------------------
(* What a statement of producer or consumer does to the scheduler. *)

\* The call at this statement has to wait.
Waits(at) ==
  \/ at = "downItem" /\ mutexStatus[itemMutex] = "MUTEX_LOCKED"
  \/ at = "downEmpty" /\ semaphoreStatus'[emptyCount] < 0
  \/ at = "downFull" /\ semaphoreStatus'[fullCount] < 0

\* The threads an up takes out of a list.
Woken == {Tid[b[3]] : b \in blockedThreads \ blockedThreads'}

\* Which wrappers go on with yield(): that of semaphoreUp does not.
\* Mutant: nor does that of mutexDown.
YieldsButMutexDown(at) == at \in {"downEmpty", "downFull", "upItem"}

Yields(at) == at \in {"downEmpty", "downFull", "downItem", "upItem"}

CallScheduler(t, at) ==
  /\ IF Waits(at)
     THEN blockThread(PROGRAM, Tid[t], "T_BLOCKED_MUTEX")
     ELSE /\ tstate' = [tstate EXCEPT ![PROGRAM] =
                          [u \in Pthread |-> IF u \in Woken /\ @[u] = "T_BLOCKED_MUTEX"
                                             THEN "T_READY" ELSE @[u]]]
          /\ IF Woken = {} THEN UNCHANGED state
                           ELSE unblockProcess(PROGRAM, "BLOCKED_MUTEX")
          /\ UNCHANGED <<numberOfTicks, threadTick>>
  /\ IF Yields(at) THEN ThenYield ELSE UNCHANGED owesYield
  /\ UNCHANGED <<queue, queueSize, currentProcess, currentPid, threadSize,
                 currentThread, currentPThread, freed>>

Statement(t, step) ==
  /\ OnProcessor(PROGRAM, Tid[t])
  /\ ThreadStep(step)
  /\ CallScheduler(t, prodconsAt[t])

KernelNext ==
  \/ Schedule \/ Shell \/ Start \/ Control \/ Key
  \/ \E t \in DOMAIN Tid : Create(t)
  \/ Statement("producer", producer)
  \/ Statement("consumer", consumer)

KernelSpec == KernelInit /\ [][KernelNext]_kernelVars

----------------------------------------------------------------------------
Asleep(t) == tstate[PROGRAM][Tid[t]] = "T_BLOCKED_MUTEX"

\* A thread that goes on although it is blocked at a semaphore, because the
\* quantum of its process ended around its yield(), is switched out at the latest
\* by the yield() of its next call, and has not touched the items by then
\* (scheduler.c:201, shell.c:265-285).
WaiterTouchesNoItem ==
  \A t \in DOMAIN Tid :
    Asleep(t) /\ <<"mutex", itemMutex, t>> \notin blockedThreads =>
      prodconsAt[t] \in {"downItem", "insertItem", "removeItem"}

\* Producer and consumer are not both blocked and off the processor: then nothing
\* would wake them, because only an up of the one wakes the other
\* (shell.c:265-285).
WorkersDoNotBothWait ==
  \E t \in DOMAIN Tid : ~Asleep(t) \/ currentThread[PROGRAM] = Tid[t]
=============================================================================
