--------------------------- MODULE MemoryManager ---------------------------
(***************************************************************************)
(* What the page allocator of memoryManager.c promises: a request for n    *)
(* blocks is served with the first run of n blocks that are all available. *)
(* The bitmap usedMap is the set of the blocks whose bit is set; setBit,   *)
(* resetBit and IS_AVAILABLE (bitmap.h) are union, difference and          *)
(* membership.  AllocateScan shows that the loop of allocate finds that    *)
(* run; ProcessHeap builds the heaps of the processes on it.               *)
(***************************************************************************)
EXTENDS Integers

CONSTANT blocksAmount          \* pages the allocator manages

ASSUME BlocksAssumption == blocksAmount \in Nat

Block == 0..(blocksAmount - 1)

\* The value of the NULL pointer.
NULL == -1

Run(first, n) == first..(first + n - 1)

\* Blocks a run of n may start at.
Candidates(n) == 0..(blocksAmount - n)

Available(used, first, n) == Run(first, n) \cap used = {}

FirstFit(used, n, first) ==
  /\ first \in Candidates(n)
  /\ Available(used, first, n)
  /\ \A k \in Candidates(n) : k < first => ~Available(used, k, n)

NoFit(used, n) == \A k \in Candidates(n) : ~Available(used, k, n)

\* What allocate returns: the first block of the run, or NULL.
Allocated(used, n, result) ==
  \/ result # NULL /\ FirstFit(used, n, result)
  \/ result = NULL /\ NoFit(used, n)
============================================================================
