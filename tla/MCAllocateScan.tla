--------------------------- MODULE MCAllocateScan ---------------------------
(***************************************************************************)
(* The allocator, in one run: memAllocatorInit on memories of many sizes,  *)
(* and a call of allocate on any bitmap.  A behaviour has steps of one of  *)
(* the two.                                                                *)
(***************************************************************************)
EXTENDS AllocateScan, AllocatorInit

VARIABLE part              \* "init" or "scan"

allocatorVars == <<part, vars, initVars>>

MCInit ==
  /\ AllocatorInit /\ Init
  /\ \/ part = "init" /\ usedMap = {} /\ blocksRequest = 0
     \/ part = "scan" /\ totalMem = 0

MCNext ==
  /\ UNCHANGED part
  /\ \/ part = "init" /\ AllocatorNext /\ UNCHANGED vars
     \/ part = "scan" /\ Next /\ UNCHANGED initVars

MCSpec == MCInit /\ [][MCNext]_allocatorVars

\* Pages around the end of each of the first ints of the map; the bytes around
\* what is counted for the map and what it takes.
MCMemories ==
  {n * 4096 + rest : n \in {0, 1, 2, 31, 32, 33, 34, 63, 64, 65, 66, 96, 97, 98},
                     rest \in (0..26) \cup {4095}}
    \cup {28672 * 4096, 32768 * 4096}
=============================================================================
