---------------------------- MODULE ProcessHeap ----------------------------
(***************************************************************************)
(* The heap of a process (process.c): pmalloc asks the page allocator for  *)
(* memory and appends a node, itself a page, to the list of the            *)
(* process; pfree unlinks it; freeHeap gives everything back when the      *)
(* scheduler reaps the process.  A page is the unit here: what matters of  *)
(* its bytes is the node they would spell, and they survive                *)
(* deallocate, so that an addHeap that leaves next alone inherits them.    *)
(* RAM is zero at power up.  Pages of other kernel objects are left out.   *)
(***************************************************************************)
EXTENDS MemoryManager, FiniteSets

CONSTANTS
  Process,
  RequestSizes,    \* bound: pages a program asks for
  MaxMallocs       \* bound: calls of malloc

ASSUME HeapAssumption == RequestSizes \subseteq Nat \ {0} /\ MaxMallocs \in Nat

VARIABLES
  heapMap,     \* the bits set in usedMap
  heapNode,    \* the bytes of every page, read as a heapNode
  heap,        \* process->heap
  alive,       \* processes not yet reaped
  held,        \* <<mem, pages>> the program got from malloc and has not freed
  touched,     \* pages that were ever handed out
  reissued,    \* a page was handed out again
  refused,     \* a malloc did not get its pages
  mallocs,
  heapKernel   \* "running"; "lost": follows a list that never ends or bytes
               \* that are no pointer; "fault": touched a non-canonical address

ghosts == <<touched, reissued, refused>>
heapVars == <<heapMap, heapNode, heap, alive, held, ghosts, mallocs, heapKernel>>

\* What a program's own bytes look like when read as a pointer.
WILD == -2

Pointer == Block \cup {NULL, WILD}

ZeroNode == [address |-> NULL, pages |-> 0, next |-> NULL]
Scribbled == [address |-> WILD, pages |-> 0, next |-> WILD]

HeapInit ==
  /\ heapMap = {}
  /\ heapNode = [b \in Block |-> ZeroNode]
  /\ heap = [p \in Process |-> NULL]
  /\ alive = Process
  /\ held = [p \in Process |-> {}]
  /\ touched = {} /\ reissued = FALSE /\ refused = FALSE
  /\ mallocs = 0
  /\ heapKernel = "running"

HeapTypes ==
  /\ heapMap \subseteq Block
  /\ heapNode \in [Block -> [address : Pointer, pages : RequestSizes \cup {0}, next : Pointer]]
  /\ heap \in [Process -> Pointer]
  /\ alive \subseteq Process
  /\ \A p \in Process : \A h \in held[p] : h[1] \in Block /\ h[2] \in RequestSizes
  /\ touched \subseteq Block /\ reissued \in BOOLEAN /\ refused \in BOOLEAN
  /\ mallocs \in 0..MaxMallocs
  /\ heapKernel \in {"running", "lost", "fault"}

----------------------------------------------------------------------------
\* The n-th pointer of p's list; WILD is where a walk is lost.
Pointers(p) ==
  LET at[n \in 0..blocksAmount] ==
        IF n = 0 THEN heap[p]
        ELSE LET prev == at[n - 1] IN IF prev \in Block THEN heapNode[prev].next ELSE prev
  IN at

Ends(p) == Pointers(p)[blocksAmount] = NULL

Entries(p) == LET at == Pointers(p) IN {at[n] : n \in 0..blocksAmount} \cap Block

\* The pages entry b stands for: its own and the ones it records.
PagesOf(b) ==
  {b} \cup (IF heapNode[b].address \in Block
            THEN Run(heapNode[b].address, heapNode[b].pages) ELSE {})

\* What the two calls of deallocate for entry b reset.
deallocated(b) == PagesOf(b)

Lose == /\ heapKernel' = "lost"
        /\ UNCHANGED <<heapMap, heapNode, heap, alive, held, ghosts>>

\* deallocate(NULL): a negative block, divided as an unsigned number.
Fault == /\ heapKernel' = "fault"
         /\ UNCHANGED <<heapMap, heapNode, heap, alive, held, ghosts>>

\* addHeap hangs newNode at the end of the list; newNode->next is not set.
addHeap(p, newNode, mem, n) ==
  LET written == [heapNode EXCEPT ![newNode].address = mem, ![newNode].pages = n]
  IN IF heap[p] = NULL
     THEN /\ heapNode' = written
          /\ heap' = [heap EXCEPT ![p] = newNode]
     ELSE LET last == CHOOSE b \in Entries(p) : heapNode[b].next = NULL
          IN /\ heapNode' = [written EXCEPT ![last].next = newNode]
             /\ UNCHANGED heap

\* A node page that could not be had: the fields are written at address 0,
\* outside the pages of the allocator, and NULL ends the list as before.
addHeapRefused == UNCHANGED <<heapNode, heap>>

pmalloc(p, n, mem, newNode) ==
  LET usedMem == heapMap \cup (IF mem = NULL THEN {} ELSE Run(mem, n))
      usedAll == usedMem \cup (IF newNode = NULL THEN {} ELSE {newNode})
  IN /\ Allocated(heapMap, n, mem)
     /\ Allocated(usedMem, 1, newNode)
     /\ heapMap' = usedAll
     /\ IF newNode = NULL THEN addHeapRefused ELSE addHeap(p, newNode, mem, n)
     /\ held' = IF mem = NULL THEN held
                ELSE [held EXCEPT ![p] = @ \cup {<<mem, n>>}]
     /\ touched' = touched \cup usedAll
     /\ reissued' = (reissued \/ (usedAll \ heapMap) \cap touched # {})
     /\ refused' = (refused \/ NULL \in {mem, newNode})
     /\ UNCHANGED <<alive, heapKernel>>

\* The walk of addHeap to the end of the list comes after the allocation; a
\* walk without an end leaves nothing that matters afterwards.
Malloc(p) ==
  /\ heapKernel = "running" /\ p \in alive
  /\ mallocs < MaxMallocs
  /\ mallocs' = mallocs + 1
  /\ \/ ~Ends(p) /\ Lose
     \/ /\ Ends(p)
        /\ \E n \in RequestSizes, mem \in Block \cup {NULL}, newNode \in Block \cup {NULL} :
             pmalloc(p, n, mem, newNode)

\* The program writes over memory it got.
Write(p) ==
  /\ heapKernel = "running" /\ p \in alive
  /\ \E h \in held[p] :
       heapNode' = [b \in Block |-> IF b \in Run(h[1], h[2]) THEN Scribbled ELSE heapNode[b]]
  /\ UNCHANGED <<heapMap, heap, alive, held, ghosts, mallocs, heapKernel>>

\* First position of p's list whose node records mem, if the walk gets there.
Matches(p, mem) ==
  {n \in 0..blocksAmount : Pointers(p)[n] \in Block /\ heapNode[Pointers(p)[n]].address = mem}
First(S) == CHOOSE n \in S : \A m \in S : n <= m

\* pfreeR: both the memory and the node go back, the list closes over them.
pfreeR(p, n) ==
  LET b == Pointers(p)[n]
  IN /\ heapMap' = heapMap \ deallocated(b)
     /\ IF n = 0
        THEN heap' = [heap EXCEPT ![p] = heapNode[b].next] /\ UNCHANGED heapNode
        ELSE heapNode' = [heapNode EXCEPT ![Pointers(p)[n - 1]].next = heapNode[b].next]
             /\ UNCHANGED heap

Free(p) ==
  /\ heapKernel = "running" /\ p \in alive
  /\ UNCHANGED mallocs
  /\ \E h \in held[p] :
       \/ /\ Matches(p, h[1]) # {}
          /\ pfreeR(p, First(Matches(p, h[1])))
          /\ held' = [held EXCEPT ![p] = @ \ {h}]
          /\ UNCHANGED <<alive, ghosts, heapKernel>>
       \/ /\ Matches(p, h[1]) = {} /\ Ends(p)
          /\ held' = [held EXCEPT ![p] = @ \ {h}]
          /\ UNCHANGED <<heapMap, heapNode, heap, alive, ghosts, heapKernel>>
       \/ Matches(p, h[1]) = {} /\ ~Ends(p) /\ Lose

\* freeHeap gives back every entry, from the first to the last.
\* Mutant: it stops before the last one.
freeHeapShort(p) ==
  /\ heapMap' = heapMap \ UNION {deallocated(b) : b \in {c \in Entries(p) : heapNode[c].next # NULL}}
  /\ UNCHANGED <<heapNode, ghosts, heapKernel>>

freeHeap(p) ==
  /\ heapMap' = heapMap \ UNION {deallocated(b) : b \in Entries(p)}
  /\ UNCHANGED <<heapNode, ghosts, heapKernel>>

\* The scheduler reaps a dead process: freeProcess calls freeHeap.
Exit(p) ==
  /\ heapKernel = "running" /\ p \in alive
  /\ UNCHANGED mallocs
  /\ \/ ~Ends(p) /\ Lose
     \/ Ends(p) /\ (\E b \in Entries(p) : heapNode[b].address = NULL) /\ Fault
     \/ /\ Ends(p) /\ ~\E b \in Entries(p) : heapNode[b].address = NULL
        /\ freeHeap(p)
        /\ alive' = alive \ {p}
        /\ heap' = [heap EXCEPT ![p] = NULL]
        /\ held' = [held EXCEPT ![p] = {}]

HeapNext == \E p \in Process : Malloc(p) \/ Write(p) \/ Free(p) \/ Exit(p)

HeapSpec == HeapInit /\ [][HeapNext]_heapVars

----------------------------------------------------------------------------
\* A list of entries always ends, so that malloc, free and exit come back
\* (process.c:77, :97, :108).
HeapListsEnd == \A p \in alive : Ends(p)

\* What goes wrong takes a page handed out twice or a refused malloc: until
\* then every list ends, and neither malloc, free nor exit is lost
\* (process.c:72-75, where next is left as it was).
FreshListsEnd ==
  /\ ~reissued => HeapListsEnd /\ heapKernel # "lost"
  /\ ~reissued /\ ~refused => heapKernel = "running"

\* On fresh pages, memory handed to a program is reserved, belongs to no other
\* request and holds no entry of any list (process.c:63-79).
HeapsDisjoint ==
  ~reissued =>
    LET Headers == UNION {Entries(p) : p \in alive}
        Requests == UNION {{<<p, h>> : h \in held[p]} : p \in alive}
        Mem(r) == Run(r[2][1], r[2][2])
    IN /\ \A r \in Requests : Mem(r) \subseteq heapMap /\ Mem(r) \cap Headers = {}
       /\ \A r, t \in Requests : r # t => Mem(r) \cap Mem(t) = {}
       /\ \A p, q \in alive : p # q => Entries(p) \cap Entries(q) = {}

\* On fresh pages, every reserved page can be reached from the list of a
\* process that is there: free and exit give everything back, and exactly that
\* (process.c:82-109).  A malloc whose entry got no page loses its memory.
NoPageLeaks ==
  ~reissued /\ ~refused =>
    heapMap = UNION {UNION {PagesOf(b) : b \in Entries(p)} : p \in alive}

\* The heaps of the processes, as long as no page is handed out a second time:
\* lists end, requests are apart, nothing is lost (process.c:63-109).
FreshHeapsAreSound == HeapTypes /\ FreshListsEnd /\ HeapsDisjoint /\ NoPageLeaks

============================================================================
