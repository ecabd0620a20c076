-------------------------------- MODULE MCIpc --------------------------------
(***************************************************************************)
(* The objects that threads wait at, in one run: a behaviour uses a mutex, *)
(* a semaphore or a pipe, which share nothing.  Strings that end inside    *)
(* the ring of the pipe, that fill it and that do not fit.                 *)
(***************************************************************************)
EXTENDS Mutex, Semaphore, Pipe

VARIABLE part      \* "mutex", "semaphore" or "pipe"

mutexOnly == <<list, status, blockedThreadList, at>>
semaphoreOnly == <<semaphore, value, waitingThreads, semaphoreAt, counts>>
ipcVars == <<part, kernel, mutexOnly, semaphoreOnly, vars>>

MCInit ==
  /\ MutexInit /\ SemaphoreInit /\ Init
  /\ part \in {"mutex", "semaphore", "pipe"}

MCNext ==
  /\ UNCHANGED part
  /\ \/ part = "mutex" /\ MutexNext /\ UNCHANGED <<semaphoreOnly, vars>>
     \/ part = "semaphore" /\ SemaphoreNext /\ UNCHANGED <<mutexOnly, vars>>
     \/ part = "pipe" /\ Next /\ UNCHANGED <<mutexOnly, semaphoreOnly, kernel>>

MCSpec == MCInit /\ [][MCNext]_ipcVars /\ MutexFair /\ PipeFair

MCMessages == {<<>>, <<1>>, <<2>>, <<1, 2>>, <<2, 1, 2>>, <<1, 1, 2, 2, 1>>}
==============================================================================
