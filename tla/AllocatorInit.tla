--------------------------- MODULE AllocatorInit ---------------------------
(***************************************************************************)
(* memAllocatorInit (memoryManager.c): the memory it is given is split     *)
(* into pages and, behind the last of them, the map of their bits.         *)
(* getBlocksAmount counts the pages that fit, one by one, and then gives   *)
(* pages up until what remains is enough for the map.                      *)
(***************************************************************************)
EXTENDS Integers

CONSTANT Memories              \* sizes of memory, in bytes, it may be given

\* The pages of a larger memory do not fit an int.
ASSUME MemoriesAssumption ==
  Memories \subseteq Nat /\ \A mem \in Memories : mem \div 4096 < 2147483647

PAGE_SIZE == 4096
INT_BYTES == 4
INT_BITS == 32
POINTER_BYTES == 8

VARIABLES
  totalMem,
  auxMem,
  pages,         \* the code's blocksAmount
  remainingMem,
  at             \* "called", "counting", "counted", "fitting", "ready", "refused"

initVars == <<totalMem, auxMem, pages, remainingMem, at>>

DIV_CEIL(x, y) == (x + y - 1) \div y

\* Ints the map of n blocks takes.
MAP_SIZE(n) == DIV_CEIL(n, INT_BITS)

\* Mutant: the map is given a whole page.
enoughSpaceWholePage(remaining, blocks) == PAGE_SIZE <= remaining

\* The map counts one byte for each of its ints.
enoughSpace(remaining, blocks) == POINTER_BYTES + MAP_SIZE(blocks) <= remaining

\* Where mapInit puts the map, in bytes from initMem, and the end of what it
\* clears.
mapInitStart(blocks) == blocks * PAGE_SIZE
mapInitEnd(blocks) == mapInitStart(blocks) + INT_BYTES * MAP_SIZE(blocks)

----------------------------------------------------------------------------
AllocatorInit ==
  /\ totalMem \in Memories
  /\ auxMem = 0 /\ pages = -1 /\ remainingMem = 0
  /\ at = "called"

Refuse ==
  /\ at = "called" /\ totalMem < PAGE_SIZE
  /\ at' = "refused"
  /\ UNCHANGED <<totalMem, auxMem, pages, remainingMem>>

\* An iteration of the do loop.
CountPage ==
  /\ \/ at = "called" /\ totalMem >= PAGE_SIZE
     \/ at = "counting"
  /\ auxMem' = auxMem + PAGE_SIZE
  /\ pages' = pages + 1
  /\ at' = IF auxMem' <= totalMem THEN "counting" ELSE "counted"
  /\ UNCHANGED <<totalMem, remainingMem>>

Remain ==
  /\ at = "counted"
  /\ auxMem' = auxMem - PAGE_SIZE
  /\ remainingMem' = totalMem - auxMem'
  /\ at' = "fitting"
  /\ UNCHANGED <<totalMem, pages>>

\* An iteration of the while loop.
GiveUpPage ==
  /\ at = "fitting" /\ ~enoughSpace(remainingMem, pages)
  /\ pages' = pages - 1
  /\ remainingMem' = remainingMem + PAGE_SIZE
  /\ UNCHANGED <<totalMem, auxMem, at>>

MapInit ==
  /\ at = "fitting" /\ enoughSpace(remainingMem, pages)
  /\ at' = "ready"
  /\ UNCHANGED <<totalMem, auxMem, pages, remainingMem>>

AllocatorNext == Refuse \/ CountPage \/ Remain \/ GiveUpPage \/ MapInit

AllocatorSpec == AllocatorInit /\ [][AllocatorNext]_initVars

----------------------------------------------------------------------------
\* Pages up to which the map of a memory of whole pages fits the page that is
\* given up for it: 128 MB.  main gives 28672 (kernel.c:390).
MaxPages == 32768

\* The map has its place and no page is wasted, in memories of every size.  The
\* pages and the bytes counted for the map lie inside the memory, and one page
\* more would leave its map too few.  As three of the four bytes of each int are
\* not counted (memoryManager.c:48), the map itself is inside when it has at most
\* two ints and when the memory is whole pages, up to MaxPages of them; it ends
\* behind any other by those bytes, less the pointer's, at most.
MapHasItsPlace ==
  at = "ready" =>
    /\ pages >= 0
    /\ mapInitStart(pages) + POINTER_BYTES + MAP_SIZE(pages) <= totalMem
    /\ mapInitStart(pages + 1) + POINTER_BYTES + MAP_SIZE(pages + 1) > totalMem
    /\ pages <= 2 * INT_BITS => mapInitEnd(pages) <= totalMem
    /\ totalMem % PAGE_SIZE = 0 /\ totalMem <= MaxPages * PAGE_SIZE =>
         mapInitEnd(pages) <= totalMem
    /\ mapInitEnd(pages)
         <= totalMem + (INT_BYTES - 1) * MAP_SIZE(pages) - POINTER_BYTES
============================================================================
