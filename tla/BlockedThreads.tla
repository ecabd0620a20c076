--------------------------- MODULE BlockedThreads ---------------------------
(***************************************************************************)
(* What Mutex and Semaphore share: threads, and a kernel that goes on only *)
(* while no handler has used a node that is not there.  A blocked thread   *)
(* takes no step of its program until it is unblocked: Scheduler says when *)
(* the scheduler keeps that promise, ProdConsKernel what happens when it   *)
(* does not.                                                               *)
(***************************************************************************)
EXTENDS Naturals, Sequences, Functions

CONSTANT Thread

ASSUME ThreadAssumption == Thread # {}

VARIABLE kernel      \* "running", or "corrupt" once a handler used a NULL node
=============================================================================
