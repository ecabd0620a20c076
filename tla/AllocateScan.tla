---------------------------- MODULE AllocateScan ----------------------------
(***************************************************************************)
(* One call of allocate (memoryManager.c), loop iteration by iteration, on *)
(* any bitmap and any request.  The outer loop jumps over everything up to *)
(* the used block that ended the inner one instead of advancing by one.    *)
(***************************************************************************)
EXTENDS MemoryManager

CONSTANT MaxRequest            \* bound: blocks asked for

ASSUME RequestAssumption == MaxRequest \in Nat

VARIABLES
  usedMap,
  blocksRequest,
  i, j,
  allocFound,
  pc,          \* "outer", "inner": the loop whose condition comes next; "done"
  before,      \* the bitmap when allocate was called
  result       \* what it returned

vars == <<usedMap, blocksRequest, i, j, allocFound, pc, before, result>>

TypeOK ==
  /\ usedMap \subseteq Block
  /\ blocksRequest \in 0..MaxRequest
  /\ i \in 0..(blocksAmount + MaxRequest)
  /\ j \in 0..MaxRequest
  /\ allocFound \in BOOLEAN
  /\ pc \in {"outer", "inner", "done"}
  /\ before \subseteq Block
  /\ result \in (0..blocksAmount) \cup {NULL}

lastIndex == blocksAmount - blocksRequest

Init ==
  /\ usedMap \in SUBSET Block
  /\ blocksRequest \in 0..MaxRequest
  /\ i = 0
  /\ j = 0
  /\ allocFound = FALSE
  /\ pc = "outer"
  /\ before = usedMap
  /\ result = NULL

outerGoesOn == i <= lastIndex /\ ~allocFound

innerGoesOn == j < blocksRequest /\ allocFound

OuterTry ==
  /\ pc = "outer" /\ outerGoesOn
  /\ allocFound' = TRUE
  /\ j' = 0
  /\ pc' = "inner"
  /\ UNCHANGED <<usedMap, blocksRequest, i, before, result>>

InnerTest ==
  /\ pc = "inner" /\ innerGoesOn
  /\ allocFound' = (i + j \notin usedMap)
  /\ j' = j + 1
  /\ UNCHANGED <<usedMap, blocksRequest, i, pc, before, result>>

\* Mutants: the jump skips one block more; it does not advance.
InnerEndSkips ==
  /\ pc = "inner" /\ ~innerGoesOn
  /\ i' = IF allocFound THEN i + j ELSE i + j + 1
  /\ pc' = "outer"
  /\ UNCHANGED <<usedMap, blocksRequest, j, allocFound, before, result>>

InnerEndStays ==
  /\ pc = "inner" /\ ~innerGoesOn
  /\ i' = IF allocFound THEN i + j ELSE i
  /\ pc' = "outer"
  /\ UNCHANGED <<usedMap, blocksRequest, j, allocFound, before, result>>

InnerEnd ==
  /\ pc = "inner" /\ ~innerGoesOn
  /\ i' = i + j
  /\ pc' = "outer"
  /\ UNCHANGED <<usedMap, blocksRequest, j, allocFound, before, result>>

Fail ==
  /\ pc = "outer" /\ ~outerGoesOn /\ ~allocFound
  /\ result' = NULL
  /\ pc' = "done"
  /\ UNCHANGED <<usedMap, blocksRequest, i, j, allocFound, before>>

\* The found run is reserved.
Succeed ==
  /\ pc = "outer" /\ ~outerGoesOn /\ allocFound
  /\ i' = i - j
  /\ usedMap' = usedMap \cup Run(i - j, blocksRequest)
  /\ result' = i - j
  /\ pc' = "done"
  /\ UNCHANGED <<blocksRequest, j, allocFound, before>>

Next == OuterTry \/ InnerTest \/ InnerEnd \/ Fail \/ Succeed

Spec == Init /\ [][Next]_vars

----------------------------------------------------------------------------
\* The loop with its jumps misses no place: allocate returns the first run
\* that fits, NULL only when there is none, and marks exactly that run
\* (memoryManager.c:73-92).
ScanFindsFirstFit ==
  pc = "done" =>
    /\ Allocated(before, blocksRequest, result)
    /\ usedMap = before \cup (IF result = NULL THEN {} ELSE Run(result, blocksRequest))

\* Every bit the loop looks at is one of the map (memoryManager.c:77).
ScanInBounds == pc = "inner" /\ innerGoesOn => i + j \in Block

\* Iterations that are left at most.  An inner loop that ends after j bits moves
\* the outer one by j, so that the two together take a number of iterations
\* linear in the map's size, not one in its product with the request.
IterationsLeft ==
  CASE pc = "done" -> 0
    [] pc = "outer" /\ allocFound -> 1
    [] pc = "outer" /\ ~allocFound -> 3 * (blocksAmount + 2 - i)
    [] pc = "inner" -> 3 * (blocksAmount + 2 - i) - 1 - j

\* allocate returns, and no iteration is wasted, also when the request is 0 blocks
\* or more than there are (memoryManager.c:73-82).
ScanAdvances == [][0 <= IterationsLeft' /\ IterationsLeft' < IterationsLeft]_vars

============================================================================
