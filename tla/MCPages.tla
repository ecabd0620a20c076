------------------------------ MODULE MCPages ------------------------------
(***************************************************************************)
(* What is kept in pages that keep their old bytes, in one run: the heaps  *)
(* of the processes, on a memory that runs out, and the kernel's own       *)
(* objects.  A behaviour has steps of one of the two.                      *)
(***************************************************************************)
EXTENDS ProcessHeap, KernelObjects, TLC

VARIABLE part              \* "heaps" or "objects"

pagesVars == <<part, heapVars, objectVars>>

MCInit == HeapInit /\ Init /\ part \in {"heaps", "objects"}

MCNext ==
  /\ UNCHANGED part
  /\ \/ part = "heaps" /\ HeapNext /\ UNCHANGED objectVars
     \/ part = "objects" /\ Next /\ UNCHANGED heapVars

MCSpec == MCInit /\ [][MCNext]_pagesVars

Symmetric == Permutations(Kind) \cup Permutations(Process)
=============================================================================
