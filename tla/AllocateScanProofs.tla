------------------------- MODULE AllocateScanProofs -------------------------
(***************************************************************************)
(* allocate is correct on every bitmap and every request, and              *)
(* memAllocatorInit leaves the map its place in memories of every size.    *)
(***************************************************************************)
EXTENDS AllocateScan, AllocatorInit, TLAPS

\* No run of the size asked for starts before k.
NoneBefore(k) ==
  \A m \in Candidates(blocksRequest) : m < k => ~Available(before, m, blocksRequest)

\* The loop invariants.
OuterInv ==
  pc = "outer" =>
    /\ i <= blocksAmount
    /\ ~allocFound => NoneBefore(i)
    /\ allocFound => j = blocksRequest /\ FirstFit(before, blocksRequest, i - j)

InnerInv ==
  pc = "inner" =>
    /\ NoneBefore(i)
    /\ i <= lastIndex
    /\ j <= blocksRequest
    /\ allocFound => Available(before, i, j)
    /\ ~allocFound => j >= 1 /\ i + j - 1 \in before

ScanInv ==
  /\ TypeOK
  /\ pc # "done" => usedMap = before
  /\ OuterInv
  /\ InnerInv
  /\ ScanFindsFirstFit

LEMMA InitScanInv == Init => ScanInv
<1> SUFFICES ASSUME Init PROVE ScanInv
  OBVIOUS
<1>1. TypeOK
  <2>1. 0 \in 0..(blocksAmount + MaxRequest) /\ 0 \in 0..MaxRequest
    BY BlocksAssumption, RequestAssumption
  <2> QED BY <2>1 DEF Init, TypeOK
<1>2. NoneBefore(i) /\ i <= blocksAmount
  BY BlocksAssumption, RequestAssumption DEF Init, NoneBefore, Candidates
<1> QED
  BY <1>1, <1>2 DEF Init, ScanInv, OuterInv, InnerInv, ScanFindsFirstFit

(* The jump is safe: a used block inside the candidate run is inside every   *)
(* later run that starts before it.                                          *)
LEMMA JumpIsSafe ==
  ASSUME TypeOK, InnerInv, pc = "inner", ~allocFound
  PROVE  NoneBefore(i + j)
<1> SUFFICES ASSUME NEW m \in Candidates(blocksRequest), m < i + j,
                    Available(before, m, blocksRequest)
             PROVE  FALSE
  BY DEF NoneBefore
<1> DEFINE b == i + j - 1
<1>1. b \in before /\ j >= 1 /\ j <= blocksRequest /\ NoneBefore(i)
  BY DEF InnerInv
<1>2. m \in Int /\ i \in Int /\ j \in Int /\ blocksRequest \in Int
  BY BlocksAssumption DEF TypeOK, Candidates
<1>3. CASE m < i
  BY <1>1, <1>3 DEF NoneBefore
<1>4. CASE m >= i
  <2>1. b \in Run(m, blocksRequest)
    BY <1>1, <1>2, <1>4 DEF Run
  <2> QED BY <1>1, <2>1 DEF Available
<1> QED BY <1>2, <1>3, <1>4

LEMMA NextScanInv == ScanInv /\ [Next]_vars => ScanInv'
<1> SUFFICES ASSUME ScanInv, [Next]_vars PROVE ScanInv'
  OBVIOUS
<1> USE BlocksAssumption, RequestAssumption
<1>0. /\ i \in Int /\ j \in Int /\ blocksRequest \in Int /\ 0 <= i /\ 0 <= j
      /\ 0 <= blocksRequest /\ lastIndex \in Int
  BY DEF ScanInv, TypeOK, lastIndex
<1>1. CASE OuterTry
  <2>1. TypeOK'
    BY <1>1 DEF OuterTry, ScanInv, TypeOK
  <2>2. NoneBefore(i)' /\ i' <= lastIndex' /\ j' <= blocksRequest' /\ Available(before', i', j')
    BY <1>0, <1>1 DEF OuterTry, outerGoesOn, ScanInv, OuterInv, NoneBefore, lastIndex, Available, Run
  <2> QED BY <1>1, <2>1, <2>2 DEF OuterTry, ScanInv, OuterInv, InnerInv, ScanFindsFirstFit
<1>2. CASE InnerTest
  <2>1. TypeOK'
    BY <1>2 DEF InnerTest, innerGoesOn, ScanInv, TypeOK
  <2>2. /\ UNCHANGED <<usedMap, blocksRequest, i, pc, before, result>>
        /\ j' = j + 1 /\ j < blocksRequest /\ pc = "inner"
        /\ allocFound' = (i + j \notin before)
        /\ Available(before, i, j)
    BY <1>2 DEF InnerTest, innerGoesOn, ScanInv, InnerInv
  <2>3. Run(i, j + 1) = Run(i, j) \cup {i + j}
    BY <1>0 DEF Run
  <2>4. allocFound' => Available(before', i', j')
    BY <2>2, <2>3 DEF Available
  <2>5. ~allocFound' => j' >= 1 /\ i' + j' - 1 \in before'
    <3>1. j' >= 1 /\ i' + j' - 1 = i + j
      BY <1>0, <2>2
    <3>2. ~allocFound' => i + j \in before'
      BY <2>2
    <3> QED BY <3>1, <3>2
  <2>6. NoneBefore(i)' /\ i' <= lastIndex' /\ j' <= blocksRequest'
    BY <1>0, <2>2 DEF ScanInv, InnerInv, NoneBefore, lastIndex
  <2> QED BY <2>1, <2>2, <2>4, <2>5, <2>6 DEF ScanInv, OuterInv, InnerInv, ScanFindsFirstFit
<1>3. CASE InnerEnd
  <2>1. /\ UNCHANGED <<usedMap, blocksRequest, j, allocFound, before, result>>
        /\ i' = i + j /\ pc = "inner" /\ pc' = "outer"
        /\ i <= lastIndex /\ j <= blocksRequest
    BY <1>3 DEF InnerEnd, ScanInv, InnerInv
  <2>2. TypeOK'
    BY <1>0, <2>1 DEF ScanInv, TypeOK, lastIndex
  <2>3. ~allocFound' => NoneBefore(i)'
    BY <2>1, JumpIsSafe DEF ScanInv, NoneBefore
  <2>4. allocFound => j = blocksRequest /\ FirstFit(before, blocksRequest, i)
    BY <1>0, <1>3 DEF InnerEnd, innerGoesOn, ScanInv, InnerInv, FirstFit, NoneBefore,
                      Candidates, lastIndex
  <2>5. i' - j' = i /\ i' <= blocksAmount'
    BY <1>0, <2>1 DEF lastIndex
  <2> QED BY <2>1, <2>2, <2>3, <2>4, <2>5 DEF ScanInv, OuterInv, InnerInv, ScanFindsFirstFit
<1>4. CASE Fail
  <2>1. TypeOK'
    BY <1>4 DEF Fail, ScanInv, TypeOK
  <2>2. NoFit(before, blocksRequest)
    BY <1>0, <1>4 DEF Fail, outerGoesOn, ScanInv, OuterInv, NoneBefore, NoFit, Candidates, lastIndex
  <2> QED BY <1>4, <2>1, <2>2 DEF Fail, ScanInv, OuterInv, InnerInv, ScanFindsFirstFit, Allocated
<1>5. CASE Succeed
  <2>1. /\ UNCHANGED <<blocksRequest, j, allocFound, before>>
        /\ i' = i - j /\ result' = i - j /\ pc' = "done" /\ pc = "outer"
        /\ usedMap' = before \cup Run(i - j, blocksRequest)
        /\ j = blocksRequest /\ FirstFit(before, blocksRequest, i - j)
    BY <1>5 DEF Succeed, ScanInv, OuterInv
  <2>2. i - j \in Int /\ 0 <= i - j /\ i - j <= blocksAmount - blocksRequest
    BY <1>0, <2>1 DEF FirstFit, Candidates
  <2>3. Run(i - j, blocksRequest) \subseteq Block
    BY <1>0, <2>2 DEF Run, Block
  <2>4. i - j \in 0..blocksAmount
    BY <1>0, <2>2
  <2>5. i - j # NULL
    BY <2>2 DEF NULL
  <2>6. ScanFindsFirstFit'
    BY <2>1, <2>5 DEF ScanFindsFirstFit, Allocated
  <2>7. TypeOK'
    BY <1>0, <2>1, <2>3, <2>4 DEF ScanInv, TypeOK
  <2> QED BY <2>1, <2>6, <2>7 DEF ScanInv, OuterInv, InnerInv
<1>6. CASE UNCHANGED vars
  BY <1>6 DEF vars, ScanInv, TypeOK, OuterInv, InnerInv, ScanFindsFirstFit, NoneBefore, lastIndex
<1> QED BY <1>1, <1>2, <1>3, <1>4, <1>5, <1>6 DEF Next

THEOREM ScanInvariant == Spec => []ScanInv
BY InitScanInv, NextScanInv, PTL DEF Spec

(* Pointers and counters of the scan stay in range: i never passes the end of *)
(* the map by more than the last jump, and j never passes the request.       *)
THEOREM ScanTypeCorrect == Spec => []TypeOK
<1>1. ScanInv => TypeOK
  BY DEF ScanInv
<1> QED BY <1>1, ScanInvariant, PTL

(* For every bitmap and request, allocate returns the first run of available *)
(* blocks that fits, or NULL when there is none, and reserves just that run. *)
THEOREM AllocateIsFirstFit == Spec => []ScanFindsFirstFit
<1>1. ScanInv => ScanFindsFirstFit
  BY DEF ScanInv
<1> QED BY <1>1, ScanInvariant, PTL

(* For every bitmap and request, each iteration of the two loops brings the    *)
(* end nearer: none is left after a number linear in the size of the map.      *)
THEOREM AllocateAdvances == Spec => ScanAdvances
<1>1. ScanInv /\ Next => 0 <= IterationsLeft' /\ IterationsLeft' < IterationsLeft
  <2> SUFFICES ASSUME ScanInv, Next PROVE 0 <= IterationsLeft' /\ IterationsLeft' < IterationsLeft
    OBVIOUS
  <2> USE BlocksAssumption, RequestAssumption
  <2>0. /\ blocksAmount \in Int /\ i \in Int /\ j \in Int /\ blocksRequest \in Int
        /\ 0 <= i /\ 0 <= j /\ 0 <= blocksRequest
    BY DEF ScanInv, TypeOK
  <2>1. CASE OuterTry
    <3>1. /\ pc = "outer" /\ ~allocFound /\ pc' = "inner" /\ i' = i /\ j' = 0
          /\ i <= blocksAmount - blocksRequest
      BY <2>1 DEF OuterTry, outerGoesOn, lastIndex
    <3> QED BY <2>0, <3>1 DEF IterationsLeft
  <2>2. CASE InnerTest
    <3>1. /\ pc = "inner" /\ pc' = "inner" /\ i' = i /\ j' = j + 1 /\ j < blocksRequest
          /\ i <= blocksAmount - blocksRequest
      BY <2>2 DEF InnerTest, innerGoesOn, ScanInv, InnerInv, lastIndex
    <3> QED BY <2>0, <3>1 DEF IterationsLeft
  <2>3. CASE InnerEnd
    <3>1. /\ pc = "inner" /\ pc' = "outer" /\ i' = i + j /\ allocFound' = allocFound
          /\ i <= blocksAmount - blocksRequest /\ j <= blocksRequest
          /\ ~allocFound => j >= 1
      BY <2>3 DEF InnerEnd, ScanInv, InnerInv, lastIndex
    <3> QED BY <2>0, <3>1 DEF IterationsLeft
  <2>4. CASE Fail
    <3>1. pc = "outer" /\ ~allocFound /\ pc' = "done" /\ i <= blocksAmount
      BY <2>4 DEF Fail, ScanInv, OuterInv
    <3> QED BY <2>0, <3>1 DEF IterationsLeft
  <2>5. CASE Succeed
    BY <2>5 DEF Succeed, IterationsLeft
  <2> QED BY <2>1, <2>2, <2>3, <2>4, <2>5 DEF Next
<1>2. ScanInv /\ [Next]_vars => [0 <= IterationsLeft' /\ IterationsLeft' < IterationsLeft]_vars
  BY <1>1
<1> QED BY <1>2, ScanInvariant, PTL DEF Spec, ScanAdvances

(* The scan never reads a bit outside the map. *)
THEOREM AllocateReadsTheMap == Spec => []ScanInBounds
<1>1. ScanInv => ScanInBounds
  BY BlocksAssumption, RequestAssumption
     DEF ScanInv, TypeOK, InnerInv, ScanInBounds, innerGoesOn, lastIndex, Block
<1> QED BY <1>1, ScanInvariant, PTL

----------------------------------------------------------------------------
LEMMA IntsOfMap ==
  ASSUME NEW n \in Nat
  PROVE  /\ MAP_SIZE(n) \in Nat
         /\ n <= INT_BITS * MAP_SIZE(n)
         /\ INT_BITS * MAP_SIZE(n) < n + INT_BITS
BY DEF MAP_SIZE, DIV_CEIL, INT_BITS

\* What the do loop has counted.
CountInv ==
  /\ at = "called" => auxMem = 0 /\ pages = -1
  /\ at = "counting" => pages >= 0 /\ auxMem = (pages + 1) * PAGE_SIZE /\ auxMem <= totalMem
  /\ at = "counted" =>
       /\ pages >= 0 /\ auxMem = (pages + 1) * PAGE_SIZE
       /\ auxMem > totalMem /\ pages * PAGE_SIZE <= totalMem /\ PAGE_SIZE <= totalMem

\* What the while loop keeps: no page more has enough space for its map.
FitInv ==
  at \in {"fitting", "ready"} =>
    /\ PAGE_SIZE <= totalMem /\ pages >= 0
    /\ remainingMem = totalMem - pages * PAGE_SIZE /\ remainingMem >= 0
    /\ ~enoughSpace(totalMem - (pages + 1) * PAGE_SIZE, pages + 1)

AllocatorInv ==
  /\ totalMem \in Nat /\ auxMem \in Nat /\ pages \in Int /\ remainingMem \in Int
  /\ CountInv
  /\ FitInv
  /\ at = "ready" => enoughSpace(remainingMem, pages)

LEMMA AllocatorInitKeeps == AllocatorInit => AllocatorInv
BY MemoriesAssumption DEF AllocatorInit, AllocatorInv, CountInv, FitInv

LEMMA AllocatorStepKeeps ==
  ASSUME AllocatorInv, [AllocatorNext]_initVars
  PROVE  AllocatorInv'
<1>1. CASE Refuse
  BY <1>1 DEF Refuse, AllocatorInv, CountInv, FitInv
<1>2. CASE CountPage
  BY <1>2 DEF CountPage, AllocatorInv, CountInv, FitInv, PAGE_SIZE
<1>3. CASE Remain
  <2>1. /\ totalMem \in Nat /\ pages \in Int /\ pages >= 0 /\ auxMem = (pages + 1) * PAGE_SIZE
        /\ auxMem > totalMem /\ pages * PAGE_SIZE <= totalMem /\ PAGE_SIZE <= totalMem
        /\ at' = "fitting" /\ totalMem' = totalMem /\ pages' = pages
        /\ auxMem' = auxMem - PAGE_SIZE /\ remainingMem' = totalMem - auxMem'
    BY <1>3 DEF Remain, AllocatorInv, CountInv
  <2>2. /\ auxMem' = pages * PAGE_SIZE /\ auxMem' \in Nat
        /\ remainingMem' = totalMem - pages * PAGE_SIZE /\ remainingMem' \in Nat
    BY <2>1 DEF PAGE_SIZE
  <2>3. ~enoughSpace(totalMem - (pages + 1) * PAGE_SIZE, pages + 1)
    <3>1. MAP_SIZE(pages + 1) \in Nat
      BY <2>1, IntsOfMap
    <3> QED BY <2>1, <3>1 DEF enoughSpace, POINTER_BYTES, PAGE_SIZE
  <2> QED BY <2>1, <2>2, <2>3 DEF AllocatorInv, CountInv, FitInv, enoughSpace
<1>4. CASE GiveUpPage
  <2>1. /\ totalMem \in Nat /\ auxMem \in Nat /\ pages \in Int /\ pages >= 0
        /\ PAGE_SIZE <= totalMem /\ remainingMem = totalMem - pages * PAGE_SIZE
        /\ ~enoughSpace(remainingMem, pages) /\ remainingMem >= 0
        /\ at' = "fitting" /\ totalMem' = totalMem /\ auxMem' = auxMem
        /\ pages' = pages - 1 /\ remainingMem' = remainingMem + PAGE_SIZE
    BY <1>4 DEF GiveUpPage, AllocatorInv, FitInv
  <2>2. pages # 0
    <3>1. SUFFICES ASSUME pages = 0 PROVE FALSE
      OBVIOUS
    <3>2. MAP_SIZE(0) = 0
      BY DEF MAP_SIZE, DIV_CEIL, INT_BITS
    <3> QED BY <2>1, <3>1, <3>2 DEF enoughSpace, POINTER_BYTES, PAGE_SIZE
  <2>3. /\ pages' \in Int /\ pages' >= 0 /\ pages' + 1 = pages /\ remainingMem' \in Int
        /\ remainingMem' = totalMem' - pages' * PAGE_SIZE /\ remainingMem' >= 0
    BY <2>1, <2>2 DEF PAGE_SIZE
  <2> QED BY <2>1, <2>3 DEF AllocatorInv, CountInv, FitInv, enoughSpace, MAP_SIZE, DIV_CEIL
<1>5. CASE MapInit
  BY <1>5 DEF MapInit, AllocatorInv, CountInv, FitInv, enoughSpace, MAP_SIZE, DIV_CEIL
<1>6. CASE UNCHANGED initVars
  BY <1>6 DEF initVars, AllocatorInv, CountInv, FitInv, enoughSpace, MAP_SIZE, DIV_CEIL
<1> QED BY <1>1, <1>2, <1>3, <1>4, <1>5, <1>6 DEF AllocatorNext

\* The map of a memory of k whole pages: a page is left for it, which has room
\* for 1024 ints.
LEMMA MapFits ==
  ASSUME NEW k \in Nat, k <= 32768, NEW blocks \in Nat, NEW ints \in Nat,
         blocks <= k, 32 * ints < blocks + 32, 8 + ints <= 4096 * k - 4096 * blocks
  PROVE  4096 * blocks + 4 * ints <= 4096 * k
<1>1. ints <= 1024
  OBVIOUS
<1>2. blocks + 1 <= k
  OBVIOUS
<1> QED BY <1>1, <1>2

(* In memories of every size the pages come first and the map behind them,   *)
(* no page is wasted, and the map ends inside the memory when it has at most *)
(* two ints or the memory is of up to 32768 whole pages, among them the      *)
(* kernel's; any other it overruns by less than three bytes for each int     *)
(* (memoryManager.c:27-59).                                                  *)
THEOREM MapIsBehindThePages == AllocatorSpec => []MapHasItsPlace
<1>1. ASSUME AllocatorInv PROVE MapHasItsPlace
  <2> SUFFICES ASSUME at = "ready" PROVE MapHasItsPlace
    BY DEF MapHasItsPlace
  <2>1. /\ totalMem \in Nat /\ pages \in Nat
        /\ enoughSpace(totalMem - pages * PAGE_SIZE, pages)
        /\ ~enoughSpace(totalMem - (pages + 1) * PAGE_SIZE, pages + 1)
    BY <1>1 DEF AllocatorInv, FitInv
  <2>2. PICK ints \in Nat : ints = MAP_SIZE(pages) /\ 32 * ints < pages + 32
    BY <2>1, IntsOfMap DEF INT_BITS
  <2>3. PICK more \in Nat : more = MAP_SIZE(pages + 1)
    BY <2>1, IntsOfMap
  <2>4. 4096 * pages + 8 + ints <= totalMem
    BY <2>1, <2>2 DEF enoughSpace, POINTER_BYTES, PAGE_SIZE
  <2>5. 4096 * (pages + 1) + 8 + more > totalMem
    BY <2>1, <2>3 DEF enoughSpace, POINTER_BYTES, PAGE_SIZE
  <2>6. mapInitEnd(pages) = 4096 * pages + 4 * ints
    BY <2>1, <2>2 DEF mapInitEnd, mapInitStart, INT_BYTES, PAGE_SIZE
  <2>7. pages <= 64 => 4096 * pages + 4 * ints <= totalMem
    BY <2>1, <2>2, <2>4
  <2>8. ASSUME totalMem % 4096 = 0, totalMem <= 32768 * 4096
        PROVE  4096 * pages + 4 * ints <= totalMem
    <3>1. PICK k \in Nat : totalMem = 4096 * k
      <4>1. totalMem = 4096 * (totalMem \div 4096) /\ totalMem \div 4096 \in Nat
        BY <2>1, <2>8
      <4> QED BY <4>1
    <3>2. k <= 32768 /\ pages <= k
      BY <2>1, <2>2, <2>4, <2>8, <3>1
    <3>3. 8 + ints <= 4096 * k - 4096 * pages
      BY <2>1, <2>2, <2>4, <3>1
    <3> QED BY <2>1, <2>2, <3>1, <3>2, <3>3, MapFits
  <2>9. 4096 * pages + 4 * ints <= totalMem + 3 * ints - 8
    BY <2>1, <2>2, <2>4
  <2>10. /\ mapInitStart(pages) + POINTER_BYTES + MAP_SIZE(pages) <= totalMem
         /\ mapInitStart(pages + 1) + POINTER_BYTES + MAP_SIZE(pages + 1) > totalMem
    BY <2>1, <2>2, <2>3, <2>4, <2>5 DEF mapInitStart, POINTER_BYTES, PAGE_SIZE
  <2>11. pages <= 2 * INT_BITS => mapInitEnd(pages) <= totalMem
    BY <2>6, <2>7 DEF INT_BITS
  <2>12. totalMem % PAGE_SIZE = 0 /\ totalMem <= MaxPages * PAGE_SIZE =>
           mapInitEnd(pages) <= totalMem
    BY <2>6, <2>8 DEF MaxPages, PAGE_SIZE
  <2>13. mapInitEnd(pages) <= totalMem + (INT_BYTES - 1) * MAP_SIZE(pages) - POINTER_BYTES
    BY <2>1, <2>2, <2>6, <2>9 DEF INT_BYTES, POINTER_BYTES
  <2>14. pages >= 0
    BY <2>1
  <2> QED BY <2>10, <2>11, <2>12, <2>13, <2>14 DEF MapHasItsPlace
<1>2. AllocatorInit => AllocatorInv
  BY AllocatorInitKeeps
<1>3. AllocatorInv /\ [AllocatorNext]_initVars => AllocatorInv'
  BY AllocatorStepKeeps
<1> QED BY <1>1, <1>2, <1>3, PTL DEF AllocatorSpec
=============================================================================
