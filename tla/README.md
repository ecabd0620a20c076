# A TLA+ verification of the x64BareBones teaching kernel

This directory models the kernel in `src/x64barebones/Kernel` and the part of
`src/x64barebones/Userland` that calls it: a single-core, preemptive kernel with
processes and threads, a page allocator, mutexes, semaphores, pipes, a keyboard
with switchable screens and an RTL8139 network driver, and a shell that starts a
producer and consumer, dining philosophers and a dialogue over pipes.  The documents of
the repository that say what the code should do are `src/Informe.pdf` (in Spanish,
cited by page), comments, and the tests of the allocator in `src/tests`.

`PROJECT.json` holds, for each definition, the lines it translates, the runs, the
mutants that show that each property can fail, the findings, the hazards and the
theorems.

## 1. The system

| component | state | operations | talks to |
|---|---|---|---|
| scheduler (`scheduler.c`, `schedulerSwitch.asm`) | circular list of processes, `queueSize`, `currentProcess`, `numberOfTicks` | timer tick, yield, add, remove, block, unblock | everything that blocks calls `blockThread`/`unblockThread` |
| processes (`process.c`) | state, thread list, `threadTick`, heap list, `currentPid` | create, free, `pmalloc`, `pfree` | allocator, scheduler |
| threads (`threads.c`) | state, stack, circular thread list per process | create, free with the process | allocator, scheduler |
| page allocator (`memoryManager.c`, `bitmap.*`) | bitmap of pages | init, `allocate`, `deallocate` | every kernel object is one or more pages |
| mutexes (`mutex.c`) | list of mutexes; status, list of blocked threads | create, down, up, destroy | scheduler, allocator |
| semaphores (`semaphores.c`) | list of semaphores; value, list of blocked threads | create, down, up, destroy | scheduler, allocator |
| pipes (`pipefs.c`) | list of pipes; ring of 4096 characters, two pointers, a name `from-to` | create, send, receive | scheduler (wakes the process in the name) |
| keyboard (`keyBoadDriver.c`) | ring of 100 keys, shift, alt | interrupt, `getKey` | wakes the focused process, switches screens |
| screens (`screenLoader.c`, `videoDriver.c`) | list of screens, focused pid | load, remove, next, previous | `read`, `write`, `pcreate`, `pkill` |
| network (`RTL8139.c`) | ring of 100 frames, the card | interrupt, `getMsg`, `sendMsg` | `read`/`write` on the ethernet descriptor |
| system calls (`Kernel/systemCalls.c`, `Userland/.../systemCalls.c`) | none | dispatch; the user wrapper adds `yield()` to the calls that may block | all |
| shell (`shell.c`) | the line being typed | read a line, start a program | system calls |
| programs of the shell (`shell.c`, `prodcons.h`, `philosophers.h`) | a buffer with `r`, `w`, `aux`; states and mutexes of philosophers; names of pipes: globals that outlive the process | producer and consumer, philosophers, dialogue | mutexes, semaphores, pipes |

All gates of the IDT are interrupt gates, so a handler runs with interrupts off and
is atomic with respect to everything else.  The concurrency is *between* kernel
entries: the timer may come between any two instructions of a program, and in
particular between a system call that blocked its thread and the `yield()` its
wrapper makes next (`Userland/.../systemCalls.c`).

What is hard here: that gap; two loops in the scheduler without a bound; a process
state that summarises the states of several threads; objects whose pages
keep their old bytes when they are reused; walks over lists counted by a
number kept elsewhere; rings in which "full" and "empty" look alike; wake-ups that
must not be lost; a mutex that lets everybody in who waits; a card that loses frames.  The
hazards in `PROJECT.json` list them by line.

What makes each component correct:

* scheduler: its searches end, only the current process is RUNNING, blocked and
  dead threads do not run, dead processes leave the list and stay dead, nobody who
  is ready starves;
* allocator: first fit, inside the map, the map inside the memory;
* heap: lists end, requests are disjoint, nothing leaks;
* processes and threads: a thread's pages are its own, its stack included;
* mutex and semaphore: status and list agree, nobody waits in vain, no
  more passes than the count allows;
* pipe: a FIFO channel without lost wake-ups, found by its name;
* console: the focus is with a process that is there and has a screen, a key wakes the
  reader that may take it, each process has a terminal of its own, but for what `ps` and
  an astray first write put on others;
* network: frames are handed out in order and once, with their length;
* shell: a line is read as it is seen;
* producer and consumer: items arrive in order, none is left behind;
* philosophers: neighbours do not eat together, and they do not all wait;
* dialogue: what is said is heard, and it comes to its end.

## 2. Modules

| module | models | extends / uses |
|---|---|---|
| `Scheduler` | scheduler.c, the process and thread parts of process.c and threads.c, the blocking system calls | |
| `MemoryManager` | what `allocate` promises | |
| `AllocateScan` | one call of `allocate`, loop turn by loop turn | `MemoryManager` |
| `AllocatorInit` | `memAllocatorInit`, its two loops | |
| `ProcessHeap` | `pmalloc`, `pfree`, `freeHeap` over pages with contents | `MemoryManager` |
| `KernelObjects` | the pages of processes, threads, mutexes and semaphores, and the lists they hang in | `MemoryManager` |
| `BlockedThreads` | what a mutex and a semaphore share: their threads, and a kernel that may have used a node that is not there | |
| `Mutex`, `Semaphore` | mutex.c, semaphores.c and the threads that use one object | `BlockedThreads` |
| `Channel` | abstract: a bounded FIFO with a receiver that waits | |
| `Pipe` | pipefs.c, character by character | instance of `Channel` |
| `Terminals` | abstract: one terminal per process | |
| `Console` | keyboard ring, screens, focus, `read`, `write`, `clearScreen`, `ps`, `pcreate`, `pkill` | instance of `Terminals` |
| `Mailbox` | abstract: a lossy bounded FIFO of frames per node | |
| `Network` | RTL8139.c on several nodes, a card and a wire that lose frames | instance of `Mailbox` |
| `Sync` | mutexes and semaphores as programs meet them, by identifier | |
| `ProdCons`, `Philosophers`, `Dialogue` | the programs of shell.c, statement by statement | `Sync` |
| `Shell` | the line editor, the commands, and the programs it starts | the three |
| `ProdConsKernel` | producer and consumer as threads on the scheduler | `Scheduler`, `ProdCons` |
| `MCAllocateScan`, `MCPages`, `MCIpc`, `MCPrograms`, `MCPhilosophers` | instances for the checker | |
| `SchedulerProofs`, `AllocateScanProofs`, `NetworkProofs`, `ConsoleProofs` | theorems | the module of the name |
| `IpcProofs` | theorems about mutex, semaphore and pipe | `Mutex`, `Semaphore`, `Pipe` |
| `PagesProofs` | theorems about heaps, pages and lists | `ProcessHeap`, `KernelObjects` |
| `KernelProofs` | theorems about producer and consumer, alone and on the scheduler | `ProdConsKernel`, `SchedulerProofs` |
| `ProgramsProofs` | theorems about philosophers, dialogue and shell | `Shell` |

Operators that begin a comment with *Mutant* are wrong variants of the definition
that follows them; no specification uses them.

`MCPages`, `MCIpc` and `MCPrograms` put components side by side that share no state, so that
one run checks them.  A behaviour picks one of them (`part`) and has steps of that one only:
interleaving steps of two that share nothing would multiply the states and show nothing more.

### Scheduler

The variables are the static variables of scheduler.c and the fields of the nodes,
as functions of the pid.  Two abstractions need an argument:

* The circular list is a *set* of pids.  `addProcessToQueue` inserts behind the
  head, the head is always init, and pids only grow, so the order of a walk is init
  and then the pids from the highest to the lowest; `Steps` and `PlaceOfProcess`
  compute places from that.  Thread lists are built in the same way around thread 0.
* `removeDeadProcess` reads `prev->next` of nodes it has just unlinked.  The result
  is that of each run of neighbouring dead nodes every second one stays linked;
  `deadRunBefore` and `unlinkedDead` say so.  Nodes that were freed keep their bytes
  (deallocate only clears bits) and `freed` records them; in the kernel one that stays linked keeps them
  until its page is handed out again.

`Tick` is the timer interrupt, `Yield` is `int 71h`.  `owesYield` holds the threads
between a system call that is followed by `yield()` and that `yield()`; only a thread
not in it can make a new call (`CanCall`).  A `yield()` that would find its caller
neither blocked nor dead does nothing, and is left out after calls that do not
block.  init makes no system calls.  If a search finds nothing to stop at, the real kernel
hangs; in the model the step is disabled, and `SwitchTerminates` and
`ThreadSwitchTerminates` state that this does not happen.

`KillAny` says whether the programs use the whole interface: `pkill` and `tkill` of anybody, `tcreate`
in any process, every thread waiting for anything.  In the shipped programs (`KillAny = FALSE`) a process makes
threads for itself, which loop for ever and wait only at mutexes and semaphores, beside them its first
thread waits for keys alone (`MayWaitFor`), and a process ends only through `exit()` of that one.  `unlockProcesses`
calls `unblockThread` for whoever is in the list, which may by then be dead or blocked for another reason; with
`KillAny` `Unblock` may therefore hit any thread.  As the shipped programs are, a thread of a list is blocked at a mutex or not at
all, and in the second case its process is not blocked at a mutex either: nothing changes.

`createProcess` is taken to get a page whose `currentThread` is zero here;
`KernelObjects` shows when that is so.

### ProdConsKernel

The modules of the programs take it for granted that a thread that has to wait takes no
step.  This one does not: a statement of producer or consumer is a step of the thread the
scheduler has on the processor, blocking goes through `blockThread` and a `yield()` that
may come late, and waking through `unblockThread`.  The shell starts the program and then reads
without the focus; the first thread of the program waits for keys, which may come at any moment.
The quanta are those of the kernel, 5 ticks for a process and 1 for a thread.
`Yields` is which wrappers yield: those of `mutexDown`, `mutexUp` and `semaphoreDown` do, and
that of `semaphoreUp` does not.

### MemoryManager, AllocateScan, AllocatorInit

The bitmap is the set of used blocks.  `AllocateScan` starts with *any* bitmap and any
request and does the two nested loops of `allocate`; `MemoryManager!Allocated` is its
contract.  `AllocatorInit` is `memAllocatorInit` loop iteration by iteration, on sizes in bytes;
its `pages` is the code's `blocksAmount`.  `MCAllocateScan` puts the two in one run.

### ProcessHeap

`heapMap` is the set of used pages, and `heapNode` what every page would spell as a `heapNode`.  `deallocate` does not change
it, and `addHeap` does not set `next`: that is how a new entry inherits a pointer.
Fresh RAM is zero.  `heapKernel` becomes `lost` when a walk does not end or follows
bytes that are no pointer, `fault` when `deallocate(NULL)` computes a bit address from a
negative block.  `reissued` and `refused` are history variables: has a page been handed out twice,
has a malloc been refused.  Other kernel objects' pages are not in the model.

### KernelObjects

Each page has the words of eight bytes at its beginning; the fields of the structures are
numbers of words, and fields of different structures share a number where they share an
offset.  A new object sets the words its constructor sets and leaves the rest.  A process is
its page, the page of its name, a slot of the scheduler and, for each thread, a library node, a
thread and a stack.  `currentPThread` nodes are linked, those of threads that `tkill` killed among them, while `threadSize`
counts those that were not; `tkilled` counts the calls.  `freeThreadLibrary` walks `threadSize` nodes.  Mutexes and semaphores have lists of the same form, so `Kind` stands for
the two.  Where an object takes over a pointer that is not zero, the model ends in
`kernel = "stale"`; where it writes through one, in `"corrupt"`.  `bequeathed` records which
frees left pointers behind on a page, and `leaked` the pages nobody will give back.  The pages of
init and of the shell, which never end, are left out.

### BlockedThreads, Mutex, Semaphore

One object, created and destroyed at any moment, and threads that are outside,
waiting or inside (mutex) or running or waiting (semaphore).  Both rely on the
scheduler: a blocked thread takes no step until it is unblocked, which `scheduler_single`
and theorem `WaitersWait` show for processes of one thread, and which `kernel_wait` shows
to be broken for two.  A mutex is used as
producer and consumer use theirs: up comes from a thread that is inside.  The calls on an object
that is not there follow a NULL pointer; the model goes to `kernel = "corrupt"` and stops.

### Pipe and Channel

`Pipe` has one step per character.  The free mark is the character 0, as in the
code.  `Channel` is a queue of at most `Capacity` characters.  The mapping takes the
`Count` characters from the read pointer on as the queue.  `send` drops what
does not fit, which for the channel is a character that was never taken in.

### Console and Terminals

The list of screens is the sequence of their pids (`next` and `prev` agree, because
`addScreen` and `removeScreenInner` set both), what a screen holds is the set of the
processes whose output is on it, and a process has one reading thread.  `loadScreen` takes the
list and the focus as arguments because `pkill` calls it after `removeScreen`.  Wherever a
node is needed, memory may be refused.  `kernel` becomes `lost` where the code follows a
node that is not there (a key with the focus on no process or on one that is gone, an
arrow without a screen of the focused process), writes through a cursor that may be anywhere, or
prints a number that does not end; the model stops there.

Where a cursor is on its screen is left out, but not on whose screen it is: `cursor[p]` is that of
the node of p, and `inVideo` says whether that of the video memory is inside it.
The first write of a process that was never given a screen is why they are there.
`getCurrentScreenNode` adds a node for it and returns the head of the list instead (screenLoader.c:54), so that
`writeToMyScreen` prints at the cursor of the new node and looks for the end on the screen of the
head.  Which of the two lies above the other is up to the allocator, and the model allows
both: below, the text is on the new screen, as it should be; above, the first character is
already past "the end", the head's screen scrolls, and the cursor of the new node and what is left of the text
go to the head's screen (`WriteOnNewScreen`).  From then on the process prints on another's screen
(`printThrough`) until its own is on focus and cleared; `loadScreen` takes the distance along, so that on focus
it prints outside the video memory.  A screen is larger than what shows of it, so that text at such a
cursor may also be seen by nobody (`misplaced`).  Without memory for a new node the text
goes to the head's screen, at the head's cursor.

`ps` prints on the video memory, so that its table is on the screen of whoever has the focus.

A read of 0 bytes on focus waits with keys in the ring (`ReadNothing`); `unwatched` notes it, as it notes
a change of the focus, for `KeyWakesReader`.
Shift, which selects one of two tables, and the value a read returns are data.  A process that is
killed leaves `processes` at once and not at the `yield()` that follows.  The scan code is taken to
be `al`, the only part of `rax` that `getKeyboard` sets.  A tab moves the cursor of the video memory
whoever prints it (videoDriver.c:126); where that cursor is inside the video memory is left out, and so is that
many tabs of a process without the focus could move it past the end.

The mapping to `Terminals` takes the video memory as the text of the focused process, the
node as that of all others (`Text`), the focus as the terminal that is looked at, and the
processes whose cursor is not on their own screen as those that went astray (`Astray`).  Only these, and
`ps`, are allowed to print on a terminal that is not their own, and going astray takes a first
write without a terminal.

### Network and Mailbox

A node has the ring of the driver, a card and one program at a time inside
`read(ETHERNET_FD)`.  The card holds one frame in each direction, because `transmit` always uses
descriptor 0 and the handler looks at one frame and resets the card.  The wire delivers a frame to
any of those it may be for, or to nobody.  A payload is the number of the message and its length;
`BYTE` is how many values the byte has in which the length with its type travels, and `ZeroFirst` are the nodes
whose address begins with a zero byte, which for `slotIsFree` looks like a free slot.  A read whose
length wraps copies over everything behind its buffer: the node goes to `corrupt`.

The mapping to `Mailbox` takes the slots between the two pointers as the queue.  The mailbox
loses all of it when the pointers meet (`Overrun`), as the ring does.

### Sync, ProdCons, Philosophers, Dialogue, Shell

`Sync` keeps mutexes and semaphores by identifier; nothing in the programs destroys one.
The programs are translated statement by statement; a step is what is done
between two accesses to something another thread can change.

* *ProdCons*: globals outlive the process, so that a second run finds `r`, `w` and the buffer of
  the first; `leftOver` records that it began with `r # w`.  A `char` is signed and has `CHAR` values.
* *Philosophers*: every read of a state, and the read and write of `auxCounter`, are steps; the
  first philosophers eat while the main thread sets the others up.
* *Dialogue*: the names of pipes are digits made by `itoa`, pipes are found and receivers
  woken by them.  A message is the sequence of its characters' places with its real length, so that a
  short one leaves the end of a longer one in the buffer.
* *Shell*: a key stands for one word, the buffer is uninitialised stack.  A behaviour starts one of the
  programs, though producer and consumer again and again; it has no arrows, which are in
  `Console`.

## 3. Runs

Bounds are named in the `CONSTANTS` of the modules.

| run | shows | bounds |
|---|---|---|
| `scheduler_single` | a thread that has to wait waits and its wake-up reaches it, list and size agree, dead is final | pids 0..3, 1 thread, all reasons to block, no `pkill` of others |
| `scheduler_api` | the process search ends, and a ready process or thread comes nearer with every tick, with any kill | pids 0..2, 2 threads, quanta 2 and 1, two reasons to block |
| `scheduler_live` | the thread search ends and no ready process or thread starves | the same, as the shipped programs use it |
| `allocate_scan` | the map inside memory and no page wasted; first fit, terminates | 7 pages, requests 0..8: every bitmap, larger requests than memory, exact fits at both ends; for the map memories around one, two and three ints, to the byte, and the kernel's own |
| `pages` | until a page is reused: heaps end, are disjoint and leak nothing; threads have their pages and frames to themselves, lists of objects are exact, three leaks are the only ones, and when an object can take over old pointers at all | 15 pages.  Heaps: 2 processes, 4 mallocs of 1 or 5 pages: memory runs out.  Objects: 5 creations of processes, threads, objects and waits, or tkills, stacks of 2 pages: three objects in a list, the middle one destroyed, a process with two threads, pages handed out again |
| `ipc` | a mutex and a semaphore agree with their lists, every waiter is let in, passes bounded; pipe: ring, wake-ups, an empty receive is followed by a full one, calls end, channel | 4 threads: an owner, two waiters and a newcomer; start 0..2, 4 ups; ring of 4, 2 characters, messages of length 0 to 5: wraps, fills, overflows |
| `kernel` | with the scheduler as it is, items arrive in order and a blocked thread that runs on touches none | 2 processes, threads main, producer and consumer, quanta 5 and 1 as in the kernel, buffer of 2, 4 items: fills, empties, wraps twice |
| `console` | the focus is with a screen and, while parents outlive their children, a process; keys wake the reader, ring, terminals | pids 0..2, ring of 2 keys: the shell and a program, and the screen of init, which a kill of the shell makes: lists of three screens, a first write above and below the head's, `ps` on another's screen; the ring fills and wraps.  The theorems are for any number of processes |
| `programs` | producer and consumer leave nothing behind and never both wait, philosophers never all wait, no wake-up of the dialogue is lost, the dialogue is heard and ends, names address, a line is read as seen; network: in order and once, lengths, mailbox, every frame read | buffer of 2, 5 items, 2 runs, `char` of 4 values: it wraps; 2 philosophers; pids of one to three digits with zeros; lines of 3 words, 4 keys; 2 nodes, ring of 2, 3 messages, bytes of 4 values: a length that fits, one that leaves another and one that wraps |

By name, each defined with its statement in the modules:

| run | properties |
|---|---|
| `scheduler_single` | `BlockedThreadNeverRuns`, `ReadyThreadUnblocksProcess`, `QueueConsistent`, `DeadStaysDead` |
| `scheduler_api` | `SwitchTerminates`, `ReadyComesNearer` |
| `scheduler_live` | `ThreadSwitchTerminates`, `ReadyThreadRuns` |
| `allocate_scan` | `ScanFindsFirstFit`, `ScanAdvances`, `MapHasItsPlace` |
| `pages` | `FreshHeapsAreSound`, `ThreadsAreApart`, `ListsAreExact`, `OnlyKnownLeaks`, `FirstUseIsClean` |
| `heap_reuse` | `HeapListsEnd` |
| `philosophers` | `NeighboursDoNotEat` |
| `console` | `FocusIsThere`, `KeyWakesReader`, `KeyRingConsistent`, `ScreensAreTerminals` |
| `ipc` | `MutexConsistent`, `WaiterComesIn`, `SemaphoreConsistent`, `PipeConsistent`, `SecondReceiveSucceeds`, `CallsEnd`, `PipeIsChannel` |
| `kernel` | `ItemsInOrder`, `WaiterTouchesNoItem` |
| `kernel_wait` | `WorkersDoNotBothWait` |
| `programs` | `ItemsAreConsumed`, `SomePhilosopherRuns`, `HeardIsSaid`, `EllaEnds`, `CommandIsWhatIsSeen`, `InOrderOnce`, `LengthSurvives`, `RingIsMailbox`, `ReaderGetsFrame`, `SomeWorkerRuns`, `WaiterHasNoMessage` |

Quanta are 2 and 1 instead of 5 and 1 in the scheduler's own runs: what matters is that a process
has several ticks, that a thread switch and a process switch can fall on the same tick, and that
either comes first.  Three pids beyond init are enough for a list with two
neighbours behind the head and a process on either side.  Two philosophers are each other's left
and right neighbour; three, as in the program, are in run `philosophers`.

Deadlock is not checked where the modelled thing may stop: one call of `allocate`, a destroyed
mutex or semaphore, memory or messages used up, a console that is lost, programs that have ended.  It is
checked for the scheduler and for `kernel`: there is always somebody to run.

Runs that end in a violation, each of one statement of the documents:

| run | the code | the document |
|---|---|---|
| `kernel_wait` | a consumer blocked at the semaphore runs on, because the quantum of its process ends around its yield, locks the mutex and is switched out with it; producer and consumer wait for each other for ever | yield moves on because the thread is blocked (Informe p.5); a solution to producer-consumer (shell.c:30) |
| `heap_reuse` | malloc, malloc, free, malloc makes the list a cycle | free gives memory back (Informe p.2, 3) |
| `philosophers` | woken waiters are together inside an unlocked mutex, and two neighbours eat at once | a solution to the philosophers problem (shell.c:29), written to show that mutexes work (Informe p.6) |

Other behaviour met while modelling, which the passing runs state their properties around:

* *Two neighbouring dead processes.*  `removeDeadProcess` is to "Remove all dead process"
  (scheduler.c:42).  With A and B next to each other in the list, kill both before the next
  switch.  The walk unlinks A, and then B through the `next` of A, which has left the list:
  B stays linked although its pages are freed.  It takes a `pkill` of another process, or two; with exits
  alone there is one dead process at a time (`QueueConsistent`, theorem
  `ExitKeepsQueueConsistent`).
* *Two threads that wait for different things.*  "Si algún thread de un proceso es desbloqueado,
  entonces el proceso está desbloqueado automáticamente" (Informe p.4).  `unblockProcess` wakes
  a process only for the reason of the thread that blocked last (scheduler.c:150): with one thread at a
  mutex and then one at the keyboard, the wake-up of the first leaves the process blocked.
  Keys, likewise, do not wake a process whose last thread blocked at a mutex.
  `ReadyThreadUnblocksProcess` is checked for processes of one thread.
* *A thread that is in two lists.*  The consumer that runs on while it is blocked may block again at
  the next object; it is then woken by either, and `ItemsInOrder` holds all the same (`kernel`).
* *A process that is woken for nobody.*  `unblockThread` unblocks the process also when it has left the thread as it was
  (scheduler.c:174).  A thread in the list of a mutex that was killed, or that ran on while blocked and then waits for a key,
  can so make its process READY with all threads blocked, and the search of `nextThread` has nothing to stop
  at.  The shipped programs do neither (`MayWaitFor`, no `tkill`), and for those `ThreadSwitchTerminates` holds.
* *A thread for a blocked process.*  `addThreadToProcess` takes any pid and leaves the state of the process (threads.c:9): a thread
  made for a process that is blocked is T_READY and does not run before that process is woken for a thread of its own.
* *Dead threads stay.*  `removeDeadThreads` only advances past a dead node, and the loop stands at the
  head: a thread killed with `tkill` stays in the ring until its process ends (scheduler.c:324).  `threadSize` counts
  one less from then on (scheduler.c:297), also when the thread was dead before, and at the end of the process
  `freeThreadLibrary` takes as many steps from the head on: it never comes to the last nodes of the ring,
  one for each `tkill`.  Those are the *oldest* threads, whichever were killed, and their node, page and
  stack are lost for good (`OnlyKnownLeaks`).  A `tkill` of a thread the process never had writes through NULL.
* *A dead keyboard.*  A reader without the focus is blocked (systemCalls.c:48) and a change of
  the focus does not wake it; `KeyWakesReader` allows exactly that.  The next key does, unless
  the ring is full of keys nobody read: then keys are dropped and wake nobody, and no
  process reads again, although "an on focus process [is] one that can read from keyboard"
  (screenLoader.c:9).
* *A first write that goes astray.*  "If the pid has no screen data assigned, I create one"
  (screenLoader.c:20), and a process in the background is to write on its own.  One that was
  started with `pcreateBackground` and writes before it had the focus may write on the screen of the head of the list
  instead, for good, as section 2 shows.  If the list is empty its nodes are never
  linked and each write allocates three new ones (screenLoader.c:54).
* *A table on another's screen.*  `ps` of a process without the focus prints over what the focused
  one has on the screen (scheduler.c:357, videoDriver.c:63).  Its counters are not initialised (scheduler.c:362), and
  `printDec` of a number of two digits, such as the tenth pid, multiplies `divisor` for ever
  with interrupts off (videoDriver.c:76).
* *A focus on nobody.*  When a parent ends before its child, the exit of the child makes a new screen for
  the parent and gives it the focus; the next key follows a process that is not in the
  list (keyBoadDriver.c:79).  The second half of `FocusIsThere` is about parents that outlive their children.
* *The size of the map.*  `enoughSpace` adds the number of *ints* of the map to a number of
  bytes (memoryManager.c:48).  65 pages and 11 bytes pass the test with 8 + 3 bytes, and the
  three ints end one byte behind the memory.  Memories of whole pages, as `main` gives,
  are not affected up to 32768 pages, nor are those whose map is one or two ints; any other
  is overrun by less than three bytes for each int (`MapHasItsPlace`, for every size in `MapIsBehindThePages`).
* *A refused malloc* is recorded in the heap all the same and the exit of the process then
  calls `deallocate(NULL)` (process.c:66).
* *Objects on used pages.*  `createProcess` does not set `currentThread`, `createMutex` and
  `createSemaphore` set neither `next` nor the list of waiters.  On a page that held another object
  with a pointer there, a new process takes over the threads of an ended one, a new object the
  successor or the waiters of a destroyed one.  `FirstUseIsClean` says what has to come before:
  the end of a process, the destruction of an object that was not the last or had waiters, or two threads
  woken at once.  A second program that is started after one has ended is enough.
* *Stacks grow from their lowest address*: the first frame lies in the page before the stack
  (threads.c:56).  On fresh pages that is the page of the thread itself; on reused ones it may be anybody's.
* *Memory shrinks* with every process by the page of its name and a thread for each `tkill`, and with every
  destroyed mutex by the nodes of those that waited (`OnlyKnownLeaks`).
* *An up with two waiters* raises the value from -2 to -1 and wakes nobody; the next one
  wakes both (semaphores.c:32).  Passes stay bounded, and a free place may stay unused.
* *A receive that had to wait* returns with an empty buffer (pipefs.c:76).
  `SecondReceiveSucceeds` says that calling again is enough.
* *A message without an end.*  `receive` writes no final 0, so that a short message is printed
  with the end of a longer one (`HeardIsSaid` says with what).  joaquin waits for a fourth answer that ella
  does not give, and for ever; `EllaEnds` is about her.
* *A ring of frames that is used once.*  `getMsg` does not clear a slot, and `slotIsFree` looks at the
  first byte of its address: after one turn no frame is taken in any more (theorem
  `SlotsAreWrittenOnce`), unless the address begins with 0.  When the turn ends with nothing read the
  pointers are equal and all of it is lost (`Overrun` of `Mailbox`).
* *The byte of the length.*  A message of 255 characters and its type have length 0 on the wire, and the
  reader copies 65535 bytes (RTL8139.c:123).
* *Programs that are started again.*  A second run of producer and consumer that finds `r # w`
  takes old items for new ones; philosophers started again number themselves past their arrays, because
  `auxCounter` is not reset (shell.c:103); a second dialogue finds the names of the first (shell.c:370).
* *Two philosophers with one number*, when the timer falls between the read of `auxCounter` and its
  increment: one mutex then has nobody at it and all may end waiting.  With different numbers one of
  them may still be passed over for ever.

### Fairness

* `Scheduler`: weak fairness of `Tick`, because the timer interrupts for ever and the
  handler is never masked for good, and of `Yield`, because a thread that has the
  processor executes its next instruction.  No fairness of wake-ups is assumed: a
  blocked process may stay blocked.
* `PipeFair`: the loops of a handler run to their end with interrupts off.
* `MutexFair`: weak fairness of `mutexUp` of each thread: a thread inside is scheduled again
  (`ReadyThreadRuns`) and its critical section ends, as those of producer and consumer do.
* `ProdConsFair`, `DialogueFair`, `ReadFair`: a program that is not blocked is scheduled again
  and goes on to its next statement.  Keys, the wire, creation of messages and the end of a program need
  never come.  `ItemsAreConsumed` rests on the contract that a blocked thread waits; `kernel_wait`
  shows a behaviour of the whole kernel in which that fails.

## 4. Proofs

Checked by TLAPS for every value of the constants under the named assumptions of
the modules (sizes are natural numbers, block types are block types, 0 is no
character).

* **Scheduler.**  `IInv` = types, `RunningIsCurrent`, init is linked and READY or RUNNING
  (`InitAlive`), `queueSize` and `threadSize` do not exceed the identifiers handed out
  (`CountersBounded`, needed for the upper bounds of the types).  `SwitchTerminates` is
  not inductive by itself: it follows from `InitAlive` (init makes no call, so nothing
  blocks it, and `removeProcess` refuses it) and `RunningIsCurrent` (so init, if RUNNING,
  is the process that is switched out).  Theorems `TypeCorrect`, `OnlyCurrentRuns`,
  `SearchTerminates`.
* **Exit.**  For programs of one thread that only exit (`ExitOnly`), `ExitInv` adds that a
  dead process is the current one and owes its yield.  Hence there is at most one, the walk of
  `queueSize` nodes reaches it because the shell lies behind it, and `removeDeadProcess`
  leaves nothing freed in the list: `ExitKeepsQueueConsistent`, `ExitIsFinal`.  Without
  the assumption both are false (two neighbouring dead processes, section 3).
* **Blocking.**  For processes of one thread, `SingleInv`: a process and its thread are blocked together
  and for the same reason, and a blocked current thread owes its yield and has no quantum left
  (`BlockedLeaves`), because `blockProcess` sets `numberOfTicks` to `QUANTUM`.  So whichever
  of tick and yield comes first leaves the process: `WaitersWait`, `WakeUpsReachProcess`.
  With two threads the process is not blocked with its thread and keeps its quantum: that is `kernel_wait`.
  `ThreadSearchTerminates` holds for any number of threads, as long as nobody uses `tkill`: `ThreadsInv` says
  that a process which is not blocked has a ready thread, and that blocking its last one takes the
  quantum, so that the search for another is not reached.
* **Waiting.**  `ReadyThreadRuns` says that a wait ends; theorem `ReadyOnesComeNearer` gives it a bound,
  for any number of processes and threads and any quanta.  The measure is the steps from the current process along the list to the one that waits, times the ticks of a
  quantum, less the ticks the current one has had (`TicksBefore`).  `WalkNearer`: the search stops at the first ready one, which
  is before the one that waits or is that one.  So a switch takes a step off, which is worth more than the
  ticks that start again (`LessToWait`), and what is inserted has a pid of its own: pids only grow (`PidsAreNew`).
* **allocate.**  `ScanInv` are the loop invariants: no run of the size starts before
  `i`, and the blocks from `i` to `i + j` are free or the last one is used.  Lemma
  `JumpIsSafe`: the used block that ended the inner loop lies in every run the jump skips.
  Theorems `AllocateIsFirstFit`, `AllocateReadsTheMap`, `ScanTypeCorrect`.  `AllocateAdvances`: an inner loop of `j` tests
  takes the outer one `j` blocks on, so that three iterations to a block are enough.  `AllocatorInv`
  are the invariants of the two loops of `getBlocksAmount`: what the first has counted, and that no page more than
  the second has left passes `enoughSpace`.  Because that counts the ints of the map as
  bytes, the map may need more than the test leaves it.  `MapIsBehindThePages`, for memories of every size, says by how
  much, and that it needs no more when the map has one or two ints or the memory is of whole pages, up to the
  32768 whose map fills the page given up for it (`MapFits`; the kernel has 28672).
* **Heaps.**  `HeapsInv`: as long as no page was handed out twice some lists exist (`HeapLayout`), one for each process, such
  that its heap is the chain of the nodes in its list (`Linked`).  Nodes and memory lie in the map and
  apart from each other (`Apart`); a node records memory its program has, each memory once (`Recorded`); a page
  nobody had yet is zero, which is why the `next` that `addHeap` leaves alone ends the list.  While no malloc
  was refused everything a program has is recorded, and the map holds nothing else (`Whole`).  `HeapsStaySound`, for any
  number of processes and pages, and `HeapAssumption`: a program asks for at least one page (those in src ask
  for 10 or 200 bytes; `malloc(0)` is not covered).
* **Kernel objects.**  `PagesInv`: each page has a role (free, leaked, page, slot, name, library, thread, stack,
  object, waiter) and an owner, and words, counts and lists agree with them.  The roles are not in the
  model; the invariant says that some exist (`Layout`).  A process has its three pages and a ring of
  `currentPThread` library nodes, each of these its thread and stack, and `threadSize` is less than that by one for
  each tkill (`ProcessLayout`); a kind has a list with growing identifiers, each
  object a queue of waiters (`ObjectLayout`).  While nothing was bequeathed the words a
  constructor leaves alone are 0 on free pages (`Clean`), and while no page was handed out twice
  a run begins where the one before it ended (`InOrder`), which puts the first frame of a thread into
  its own page.  An action keeps this for what it does not write by lemmas that frame it, and for what
  it writes by what happens to one ring, list or queue.  `KeepsThreadsApart`, `KeepsListsExact`, `OtherPagesComeBack`
  and `FirstPagesAreClean`, for any number of pages and objects, and stacks of any positive size (`StackAssumption`).
* **Mutex.**  The three parts of `MutexConsistent` are inductive together, with the fact that a mutex not
  yet created has neither owner nor waiters: `MutexStaysConsistent`.
* **Semaphore.**  `Conservation`: passes + waiters + value = start + ups.  With it
  `WaitersCoverDeficit` gives `PassesBounded`: `SemaphoreStaysConsistent`.
* **Pipe.**  `IInv` = types, `RingConsistent`, a reader has something to read and a waiting
  receiver stands at a free slot: `PipeTypeCorrect`, `PipeStaysConsistent`.  `RingPut` and `RingTake` say what writing behind the
  taken slots and taking the first one do to a ring of any size.  `PipeImplementsChannel` maps
  every step to a step of `Channel` or to a stutter.  `OneMoreReceive`: the character that woke
  the receiver is still there when it calls again.
* **Console.**  `ConsoleInv` = types, `FocusHasScreen`, `FocusIsAlive`, `KeyWakesReader`, `FocusCursor` (the video memory is printed
  past only by a process whose node has its cursor elsewhere) and `Family`: pids
  grow, so that a parent is younger than nobody it has made, and without orphans every
  screen belongs to a process that is there: `ConsoleTypeCorrect`, `FocusStaysThere`, `NoLostKey`.  The ring of keys has
  an invariant of its own, `Ring(n)`, the slots filled by n keys, which a key takes to n + 1 and a read to n - 1:
  `KeysStayInRing`.  `ScreensImplementTerminals` maps every step to one of `Terminals`
  or a stutter: `LoadShows` says that loading a screen changes no other text and takes no cursor astray or back, because the
  node that loses the focus is written before the new one is shown, `ThroughShows` where text goes that is printed through a cursor,
  and `NewScreenShows` what a first write does.
* **Network.**  `RingInv`: until all slots are written the writer has not come around, and the reader is behind it.
  `WayInv`: identifiers grow along the way of a message: those read, those in the ring, the one in the
  card, the one on its way out.  Theorems `NetworkTypeCorrect`, `SlotsAreWrittenOnce`, `MessagesArriveInOrder`,
  `LengthsArrive`, and `RingImplementsMailbox`, for which the remainders in the queue are replaced
  by a distinction of the two ways the pointers can stand.
* **Producer and consumer.**  `Counts`: the two semaphores account for every slot, which is free, full, or in the
  hands of one of the threads.  `RingHoldsItems` then follows from the counts alone; the
  mutex, which lets both threads in, has no part in `ItemsStayInOrder`.  `WorkersWait`: who waits at the mutex has left the other
  one inside and awake, who waits for a slot finds its count below zero, and both counts are not: `ProdConsDoesNotDeadlock`.
  It takes for granted that a thread that has to wait does; `kernel_wait` shows what happens on the scheduler as it is.
* **Producer and consumer on the scheduler.**  There a thread that has to wait may take more steps.  `KernelInv` adds to
  `IInv`, `ThreadsInv` and the invariant of the program what a waiter can still do.  `Cornered`: one that is blocked at its semaphore
  and is still the thread of its process has used its tick.  Before its `mutexDown` it owes its yield, or the process
  has just been given a new quantum; after it, it owes a yield that takes it off, or it is off and its process blocked.  `MutexAt`: nobody
  waits at the mutex who could be woken without a slot.  So it gets to its `mutexDown` at most
  (`WaitersDoNotTouch`), the counts are those of the program alone, and its invariant is reused:
  `ItemsStayInOrderOnTheKernel`.  `KernelAssumption` asks for a quantum of at least one tick
  and for pids, threads and reasons to block enough for the program.
* **Philosophers.**  `DiningInv` has a part for the main thread that sets them up (`SetUpInv`, `MainInv`), for `auxCounter`
  (`CounterInv`), and for who waits where (`WaitInv`).  `ServedInv`: a hungry philosopher that was let eat finds its mutex
  unlocked, or somebody is about to unlock it.  `HungryInv`: once all are set up and all are hungry, somebody is about to check one of them.
  So not all of them wait: `PhilosophersNeverAllWait`, for any number of them that have numbers of their own.
* **Line.**  `LineInv`: the buffer up to `place` is what is shown: `LineIsRead`.
* **Dialogue.**  `DialogueInv` follows the two through their turns: whose pipe exists, what is in it, and what the buffer
  of the reader still holds.  That the digits of two pids in a name are read back as those pids is
  an induction over `itoa` (`NumberOfItoa`).  `NamesFindTheirPipes`, `HeardIsWhatWasSaid`.
  `PipeWaiters`: a party in the list of waiters is at its receive and no message is on its way to it, because
  a send finds its receiver by the name; and joaquin, who is one message ahead while he listens, leaves ella something
  to read: `NoWakeUpIsLost`.

Where a proof needs induction over numbers, the theorems of the library with an operator as parameter cannot be used;
lemmas about sets of numbers take their place (`LeastNumber`, `UpTo`), and recursive
functions are shown to exist through the well-founded order (`RecursiveFunction`, `MeasureInduction`).

Only model-checked: liveness (`ReadyThreadRuns`, `WaiterComesIn`, `CallsEnd`, `ItemsAreConsumed`,
`EllaEnds`, `ReaderGetsFrame`), which needs fairness the prover does not handle.  What makes the
first one true is proved, as a measure that goes down (`ReadyOnesComeNearer`; for the loop of `allocate`,
`AllocateAdvances`), and of `ItemsAreConsumed` and `EllaEnds` that nobody is left waiting by the other.

## 5. What is left

* The philosophers on the scheduler, and programs that are started again beside one that has
  not ended.
* The heap and the kernel objects on one memory, where a page of one becomes a page of the other; so do the pages
  of pipes and screens.  Three consequences are therefore not seen: a process, mutex or semaphore that takes over what a heap, pipe
  or screen left in its page; a freed process node that is still linked and overwritten (`Scheduler` lets it keep DEAD);
  and a pipe whose `next`, which `createPipe` does not set (pipefs.c:15), leads on into old bytes (`Dialogue` adds it
  at the end of the list, as on a zero page).
* Messages to the network of more than 999 characters: `sendMsg` copies as many as it is told to behind the type, past the end of the
  frame on its stack (RTL8139.c:109).  The messages of `Network` are those that fit.

## 6. Not modelled

The Pure64 bootloader, BMFS and the ModulePacker (third-party, or used only to build the
image); the IDT and PIC setup, PCI and port I/O; drawing on the screen and number
formatting other than the names of pipes; the registers in a stack frame; the test programs in kernel.c that
`main` does not start; the tests of the allocator and the old copy of it they use;
philosophers.c, which is one comment.  Of `ps` only where it prints is modelled
(`Console`), not what.  Of the programs: the pauses, the keys that
multiply and divide them by ten without a limit, and `cant`, which two threads count up and down
without a lock and which is only printed.
