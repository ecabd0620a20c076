---------------------------- MODULE KernelObjects ----------------------------
(***************************************************************************)
(* The pages kernel objects are made of: processes with their names, slots *)
(* in the scheduler, threads and stacks (process.c, threads.c,             *)
(* scheduler.c), and the lists of mutexes and semaphores with the threads  *)
(* that wait (mutex.c, semaphores.c).  Each object is a page of its own    *)
(* that is read as words of eight bytes; deallocate leaves the words as    *)
(* they are, and a new object on the page sets only some of them.  Where   *)
(* it takes over a pointer it should not have, the model ends in "stale".  *)
(* Programs leave the words at the beginning of their stacks' pages alone. *)
(* The pages of init and of the shell, which never end, are left out.      *)
(***************************************************************************)
EXTENDS MemoryManager, FiniteSets, Sequences, Functions

CONSTANTS
  Kind,                      \* mutexes and semaphores: lists of the same form
  NUMBER_OF_PAGES,           \* of a stack
  MaxCreated                 \* bound: processes, threads, objects, waits and tkills

ASSUME StackAssumption == NUMBER_OF_PAGES \in Nat \ {0}

VARIABLES
  usedMap,
  word,          \* page -> its first words
  process,       \* pid -> its page, slot and name, threadSize, currentPThread (as many nodes
                 \* are linked), and how often tkill was called for it; while it is there
  currentPid,    \* the next pid
  list,          \* kind -> first node
  counter,       \* kind -> the next identifier
  waiting,       \* kind -> identifier -> threads that wait, while the object is there
  created,       \* processes, threads and objects created, waits and tkills
  leaked,        \* pages nobody will give back
  handedOut,     \* pages that were ever handed out
  reused,        \* a page was handed out twice
  bequeathed,    \* what was freed with pointers in it
  kernel         \* "running", "stale", or "corrupt" after a write through a bad pointer

processes == <<process, currentPid>>
objects == <<list, counter, waiting>>
history == <<leaked, handedOut, reused, bequeathed>>
objectVars == <<usedMap, word, processes, objects, created, history, kernel>>

\* The words of the structures.  thread and next are those of threadLibrary; next
\* is also that of a mutexNode and of a blockedThreadNode.
thread == 0
next == 1
baseStack == 2
blockedThreadList == 2
threadLibrary == 3
currentThread == 4

JUNK == -2             \* no pointer, and not zero

Zeroed == [field \in 0..4 |-> NULL]

Init ==
  /\ usedMap = {}
  /\ word = [b \in Block |-> Zeroed]
  /\ process = [pid \in {} |-> NULL] /\ currentPid = 0
  /\ list = [k \in Kind |-> NULL]
  /\ counter = [k \in Kind |-> 0]
  /\ waiting = [k \in Kind |-> [id \in {} |-> 0]]
  /\ created = 0
  /\ leaked = {} /\ handedOut = {} /\ reused = FALSE /\ bequeathed = {}
  /\ kernel = "running"

----------------------------------------------------------------------------
\* The results of calls of allocate for so many pages each, one after the other.
allocate(sizes) ==
  LET FirstRun(used, n) == CHOOSE b \in Block \cup {NULL} : Allocated(used, n, b)
      got[k \in 0..Len(sizes)] ==
        IF k = 0 THEN <<>>
        ELSE LET before == got[k - 1]
                 taken == UNION {Run(before[j], sizes[j]) : j \in DOMAIN before}
             IN Append(before, FirstRun(usedMap \cup taken, sizes[k]))
  IN got[Len(sizes)]

\* The pages are there and belong to the caller now.
Reserve(pages, sizes) ==
  LET new == UNION {Run(pages[k], sizes[k]) : k \in DOMAIN pages}
  IN /\ NULL \notin Range(pages)
     /\ usedMap' = usedMap \cup new
     /\ handedOut' = handedOut \cup new
     /\ reused' = (reused \/ new \cap handedOut # {})

\* The words of a page that is given back stay; what matters of them from then on is
\* which are zero.
GiveBack(words, pages) ==
  /\ usedMap' = usedMap \ pages
  /\ word' = [b \in Block |->
       IF b \notin pages THEN words[b]
       ELSE [field \in 0..4 |-> IF words[b][field] = NULL THEN NULL ELSE JUNK]]

\* A NULL is written through: at address 0 are the tables of the processor.
RefusedPages(pages) ==
  /\ NULL \in Range(pages)
  /\ kernel' = "corrupt"
  /\ UNCHANGED <<usedMap, word, processes, objects, created, history>>

\* The new object takes over a pointer of an old one.
TakesOver ==
  /\ kernel' = "stale"
  /\ UNCHANGED <<usedMap, word, processes, objects, created, history>>

\* addThreadToProcess hangs a thread behind the first one; the page of the stack comes
\* after that of the thread.
\* Mutant: the sizes of the two are swapped.
threadSizesSwapped == <<NUMBER_OF_PAGES, 1, 1>>

threadSizes == <<1, NUMBER_OF_PAGES, 1>>

withThread(words, page, t, stack, library) ==
  LET made == [words EXCEPT ![t][baseStack] = stack, ![t][next] = JUNK, ![t][thread] = JUNK,
                            ![library][thread] = t]
      head == words[page][threadLibrary]
  IN IF words[page][currentThread] = NULL
     THEN [made EXCEPT ![library][next] = library,
                       ![page][threadLibrary] = library, ![page][currentThread] = library]
     ELSE [made EXCEPT ![library][next] = words[head][next], ![head][next] = library]

\* createProcess, addProcessToQueue and addThreadToProcess; threadLibrary and
\* currentThread of the new process are left as they are.
addProcess ==
  LET sizes == <<1, 1, 1>> \o threadSizes
      got == allocate(sizes)
      page == got[1]  name == got[2]  slot == got[3]
      made == [word EXCEPT ![page][thread] = JUNK, ![page][next] = NULL, ![page][2] = name,
                           ![slot][thread] = page, ![slot][next] = JUNK]
  IN /\ kernel = "running" /\ created < MaxCreated
     /\ \/ RefusedPages(got)
        \/ NULL \notin Range(got) /\ word[page][currentThread] # NULL /\ TakesOver
        \/ /\ Reserve(got, sizes)
           /\ word[page][currentThread] = NULL
           /\ word' = withThread(made, page, got[4], got[5], got[6])
           /\ process' = [pid \in DOMAIN process \cup {currentPid} |->
                            IF pid = currentPid
                            THEN [page |-> page, slot |-> slot, name |-> name, threadSize |-> 1,
                                  currentPThread |-> 1, tkilled |-> 0]
                            ELSE process[pid]]
           /\ currentPid' = currentPid + 1
           /\ created' = created + 1
           /\ UNCHANGED <<objects, leaked, bequeathed, kernel>>

addThreadToProcess(pid) ==
  LET got == allocate(threadSizes)
  IN /\ kernel = "running" /\ created < MaxCreated
     /\ \/ RefusedPages(got)
        \/ /\ Reserve(got, threadSizes)
           /\ word' = withThread(word, process[pid].page, got[1], got[2], got[3])
           /\ process' = [process EXCEPT ![pid].threadSize = @ + 1,
                                             ![pid].currentPThread = @ + 1]
           /\ created' = created + 1
           /\ UNCHANGED <<currentPid, objects, leaked, bequeathed, kernel>>

\* tkill: the thread becomes T_DEAD and its node stays in the ring.  threadSize counts
\* one less, also when the thread was dead before.  There is no pthread from
\* currentPThread on, and the state is written through NULL.
removeThread(pid, pthread) ==
  /\ kernel = "running" /\ created < MaxCreated
  /\ \/ /\ pthread < process[pid].currentPThread
        /\ process' = [process EXCEPT ![pid].threadSize = @ - 1, ![pid].tkilled = @ + 1]
        /\ created' = created + 1
        /\ UNCHANGED <<usedMap, word, currentPid, objects, history, kernel>>
     \/ /\ pthread >= process[pid].currentPThread
        /\ kernel' = "corrupt"
        /\ UNCHANGED <<usedMap, word, processes, objects, created, history>>

\* The nodes of the threads of a process, from threadLibrary on.
Walk(words, first, size) ==
  LET at[k \in 1..size] == IF k = 1 THEN first ELSE words[at[k - 1]][next]
  IN at

Library(pid) == Walk(word, word[process[pid].page][threadLibrary], process[pid].currentPThread)

StackOf(node) == Run(word[word[node][thread]][baseStack], NUMBER_OF_PAGES)

ThreadPages(node) == {node, word[node][thread]} \cup StackOf(node)

\* Mutant: the loop stops before the last thread.
freeThreadLibraryShort(pid) ==
  UNION {ThreadPages(Library(pid)[k]) : k \in 1..(process[pid].threadSize - 1)}

\* The walk takes threadSize nodes.
freeThreadLibrary(pid) ==
  UNION {ThreadPages(Library(pid)[k]) : k \in 1..process[pid].threadSize}

\* One thread for each call of tkill, from the end of the ring on: the oldest, and the
\* first one last, whichever were killed.
TkilledPages(pid) ==
  UNION {ThreadPages(Library(pid)[k]) :
           k \in {n \in DOMAIN Library(pid) :
                    n > process[pid].currentPThread - process[pid].tkilled}}

\* The scheduler reaps a dead process: all but its name and the threads the walk does
\* not reach.  prev of the first turn of
\* the loop has no value; the word it is taken to point to may matter or not.
freeProcess(pid) ==
  LET own == process[pid]
  IN /\ kernel = "running"
     /\ \/ /\ GiveBack([word EXCEPT ![own.page][next] = JUNK],      \* DEAD
                       freeThreadLibrary(pid) \cup {own.page, own.slot})
           /\ process' = [q \in DOMAIN process \ {pid} |-> process[q]]
           /\ leaked' = leaked \cup {own.name} \cup TkilledPages(pid)
           /\ bequeathed' = bequeathed \cup {"process"}
           /\ UNCHANGED <<currentPid, objects, created, handedOut, reused, kernel>>
        \/ /\ kernel' = "corrupt"
           /\ UNCHANGED <<usedMap, word, processes, objects, created, history>>

----------------------------------------------------------------------------
\* The nodes from one on to the end of their list.
Chain(words, first) ==
  LET upTo[n \in 0..blocksAmount] ==
        IF n = 0 THEN <<>>
        ELSE LET before == upTo[n - 1]
                 node == IF before = <<>> THEN first ELSE words[before[Len(before)]][next]
             IN IF node \in Block THEN Append(before, node) ELSE before
  IN upTo[blocksAmount]

Nodes(k) == Chain(word, list[k])

Find(k, id) ==
  LET nodes == Nodes(k) IN CHOOSE i \in DOMAIN nodes : word[nodes[i]][thread] = id

\* createMutex and createSemaphore: next and blockedThreadList are left as they are.
\* A free page is looked at before it is known whether there is one.
Create(k) ==
  LET got == allocate(<<1>>)
      node == got[1]
      nodes == Nodes(k)
      made == [word EXCEPT ![node][thread] = counter[k]]
  IN /\ kernel = "running" /\ created < MaxCreated
     /\ \/ RefusedPages(got)
        \/ /\ node # NULL
           /\ word[node][next] # NULL \/ word[node][blockedThreadList] # NULL
           /\ TakesOver
        \/ /\ Reserve(got, <<1>>)
           /\ word[node][next] = NULL /\ word[node][blockedThreadList] = NULL
           /\ IF nodes = <<>>
              THEN list' = [list EXCEPT ![k] = node] /\ word' = made
              ELSE /\ word' = [made EXCEPT ![nodes[Len(nodes)]][next] = node]
                   /\ UNCHANGED list
           /\ waiting' = [waiting EXCEPT ![k] =
                [id \in DOMAIN waiting[k] \cup {counter[k]} |->
                   IF id = counter[k] THEN 0 ELSE waiting[k][id]]]
           /\ counter' = [counter EXCEPT ![k] = @ + 1]
           /\ created' = created + 1
           /\ UNCHANGED <<processes, leaked, bequeathed, kernel>>

\* addThreadToMutexList, addThreadToSemaphoreList: in front of those that wait.
\* Mutant: the first one is linked to itself, as the first thread of a process is.
withWaiterRing(object, node) ==
  [word EXCEPT ![node][thread] = JUNK, ![node][next] = node, ![object][blockedThreadList] = node]

withWaiter(object, node) ==
  [word EXCEPT ![node][thread] = JUNK, ![node][next] = word[object][blockedThreadList],
               ![object][blockedThreadList] = node]

RequestAccess(k, id) ==
  LET got == allocate(<<1>>)
  IN /\ kernel = "running" /\ created < MaxCreated
     /\ \/ RefusedPages(got)
        \/ /\ Reserve(got, <<1>>)
           /\ word' = withWaiter(Nodes(k)[Find(k, id)], got[1])
           /\ waiting' = [waiting EXCEPT ![k][id] = @ + 1]
           /\ created' = created + 1
           /\ UNCHANGED <<processes, list, counter, leaked, bequeathed, kernel>>

\* unlockProcesses, unlockSemaphoreProcess.
Unlock(k, id) ==
  LET object == Nodes(k)[Find(k, id)]
  IN /\ kernel = "running" /\ waiting[k][id] > 0
     /\ GiveBack([word EXCEPT ![object][blockedThreadList] = NULL],
                 Range(Chain(word, word[object][blockedThreadList])))
     /\ waiting' = [waiting EXCEPT ![k][id] = 0]
     /\ bequeathed' = IF waiting[k][id] > 1 THEN bequeathed \cup {"waiters"} ELSE bequeathed
     /\ UNCHANGED <<processes, list, counter, created, leaked, handedOut, reused, kernel>>

\* destroyMutex, destroySemaphore: the nodes of those that wait stay.
\* Mutant: the node before is left linked to the one that goes.
unlinkedNot(k, i) == [at |-> list[k], words |-> word]

unlinked(k, i) ==
  LET nodes == Nodes(k)
      after == word[nodes[i]][next]
  IN IF i = 1 THEN [at |-> after, words |-> word]
     ELSE [at |-> list[k], words |-> [word EXCEPT ![nodes[i - 1]][next] = after]]

Destroy(k, id) ==
  LET i == Find(k, id)
      object == Nodes(k)[i]
  IN /\ kernel = "running"
     /\ list' = [list EXCEPT ![k] = unlinked(k, i).at]
     /\ GiveBack(unlinked(k, i).words, {object})
     /\ waiting' = [waiting EXCEPT ![k] = [j \in DOMAIN @ \ {id} |-> @[j]]]
     /\ leaked' = leaked \cup Range(Chain(word, word[object][blockedThreadList]))
     /\ bequeathed' = IF i < Len(Nodes(k)) \/ waiting[k][id] > 0
                      THEN bequeathed \cup {"object"} ELSE bequeathed
     /\ UNCHANGED <<processes, counter, created, handedOut, reused, kernel>>

Next ==
  \/ addProcess
  \/ \E pid \in DOMAIN process :
       \/ addThreadToProcess(pid)
       \/ \E pthread \in 1..process[pid].currentPThread : removeThread(pid, pthread)
       \/ freeProcess(pid)
  \/ \E k \in Kind :
       \/ Create(k)
       \/ \E id \in DOMAIN waiting[k] :
            RequestAccess(k, id) \/ Unlock(k, id) \/ Destroy(k, id)

Spec == Init /\ [][Next]_objectVars

----------------------------------------------------------------------------
Own(pid) == {process[pid].page, process[pid].slot, process[pid].name}

\* A thread of a process is in its list once, with pages that nobody else has: the
\* lists of threads stay right through creations and ends of other processes, on
\* pages that were used before too (threads.c:9-35, :87-107, process.c:38-45).
ThreadsAreOwned ==
  LET Node == UNION {{<<pid, k>> : k \in DOMAIN Library(pid)} : pid \in DOMAIN process}
      pages(n) == ThreadPages(Library(n[1])[n[2]])
  IN /\ \A n \in Node : pages(n) \subseteq usedMap /\ Cardinality(pages(n)) = 2 + NUMBER_OF_PAGES
     /\ \A n, m \in Node : n # m => pages(n) \cap pages(m) = {}
     /\ \A n \in Node, pid \in DOMAIN process : pages(n) \cap Own(pid) = {}
     /\ \A pid \in DOMAIN process :
          word[Library(pid)[process[pid].currentPThread]][next] = Library(pid)[1]

\* The objects that were made and not destroyed are in their list, in the order of
\* their making, each with the threads that wait, whichever were destroyed
\* in between and whoever had the pages before (mutex.c:9-26, :55-70, :94-113,
\* semaphores.c:11-28, :63-78).
ListsAreExact ==
  \A k \in Kind :
    LET nodes == Nodes(k)
    IN /\ {word[nodes[i]][thread] : i \in DOMAIN nodes} = DOMAIN waiting[k]
       /\ \A i, j \in DOMAIN nodes : i < j => word[nodes[i]][thread] < word[nodes[j]][thread]
       /\ \A i \in DOMAIN nodes :
            Len(Chain(word, word[nodes[i]][blockedThreadList])) = waiting[k][word[nodes[i]][thread]]

\* What is reserved belongs to an object that is there, but for three leaks: the names of
\* processes that ended, a thread for each tkill in such a process, and the
\* threads that waited at an object that was destroyed (process.c:38-45,
\* scheduler.c:283-298 with threads.c:87-107, mutex.c:63-67).
OnlyKnownLeaks ==
  LET OfProcess(pid) == Own(pid) \cup UNION {ThreadPages(Library(pid)[k]) : k \in DOMAIN Library(pid)}
      OfObject(node) == {node} \cup Range(Chain(word, word[node][blockedThreadList]))
      OfKind(k) == UNION {OfObject(node) : node \in Range(Nodes(k))}
  IN usedMap = leaked \cup (UNION {OfProcess(pid) : pid \in DOMAIN process})
                 \cup (UNION {OfKind(k) : k \in Kind})

\* The first frame of a thread, which is written below its stack, lies in the page of
\* the thread itself, as long as no page was given back and handed out again
\* (threads.c:44-56).
FrameInOwnThread ==
  ~reused =>
    \A pid \in DOMAIN process : \A k \in DOMAIN Library(pid) :
      LET t == word[Library(pid)[k]][thread] IN word[t][baseStack] - 1 = t

\* The pages of a thread are its own, its first frame included (threads.c:44-56,
\* :83-101).
ThreadsAreApart == ThreadsAreOwned /\ FrameInOwnThread

\* An object takes over old pointers only after a process ended, an object was destroyed
\* that was not the last or had threads waiting, or two threads were woken at
\* once (process.c:14, mutex.c:10, semaphores.c:12).
FirstUseIsClean ==
  kernel = "stale" => bequeathed # {}
==============================================================================
