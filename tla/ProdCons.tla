------------------------------ MODULE ProdCons ------------------------------
(***************************************************************************)
(* The producer and consumer of shell.c: two threads, a ring of BUFFERSIZE *)
(* characters, two semaphores that count its free and its full slots, and  *)
(* a mutex.  The main thread waits for keys; q ends it, and with it the    *)
(* process.  The globals of the program outlive the process: a second run  *)
(* finds r, w, aux and the buffer as the first one left them.              *)
(* The pauses, which keys change, and the count cant, which is printed and *)
(* updated by both threads without a lock, are left out: nothing else      *)
(* depends on them.  Each access to r or w is made by one thread only, so  *)
(* that insertItem and removeItem are one step each.                       *)
(***************************************************************************)
EXTENDS Sync, Sequences

CONSTANTS
  BUFFERSIZE,
  CHAR,            \* values of a char
  MaxItems,        \* bound: items produced
  MaxRuns          \* bound: times the program is started

ASSUME ProdConsAssumption ==
  /\ BUFFERSIZE \in Nat \ {0}
  /\ CHAR \in Nat \ {0}
  /\ MaxItems \in Nat /\ MaxRuns \in Nat

VARIABLES
  prodcons,           \* "ended", "starting", "running": the process
  runs,               \* times it was started
  itemMutex, emptyCount, fullCount,
  prodconsAt,         \* next statement of producer and consumer
  aux, item,          \* the next item, the one the producer holds
  buffer, r, w,
  consumed,           \* items the consumer has taken in this run
  first, leftOver     \* aux when the run began; it began with r # w

objects == <<itemMutex, emptyCount, fullCount>>
itemRing == <<buffer, r, w>>
prodconsVars ==
  <<prodcons, runs, objects, prodconsAt, aux, item, itemRing, consumed, first, leftOver>>

ItemSlot == 0..(BUFFERSIZE - 1)

ProdConsInit ==
  /\ prodcons = "ended" /\ runs = 0
  /\ itemMutex = 0 /\ emptyCount = 0 /\ fullCount = 0
  /\ prodconsAt = [t \in {"producer", "consumer"} |-> "none"]
  /\ aux = 1 /\ item = 0
  /\ buffer = [s \in ItemSlot |-> 0] /\ r = 0 /\ w = 0
  /\ consumed = <<>>
  /\ first = 1 /\ leftOver = FALSE

----------------------------------------------------------------------------
\* (char) aux, which is signed.
asChar(n) == ((n + CHAR \div 2) % CHAR) - CHAR \div 2

Goes(t, from, to) ==
  /\ prodcons # "ended" /\ prodconsAt[t] = from
  /\ prodconsAt' = [prodconsAt EXCEPT ![t] = to]

\* The three objects are made before there is anybody else.
StartProdCons ==
  /\ prodcons = "ended" /\ runs < MaxRuns
  /\ prodcons' = "starting"
  /\ runs' = runs + 1
  /\ itemMutex' = counter(mutexStatus)
  /\ emptyCount' = counter(semaphoreStatus)
  /\ fullCount' = counter(semaphoreStatus) + 1
  /\ mutexStatus' = withObject(mutexStatus, itemMutex', "MUTEX_UNLOCKED")
  /\ semaphoreStatus' =
       withObject(withObject(semaphoreStatus, emptyCount', BUFFERSIZE), fullCount', 0)
  /\ consumed' = <<>>
  /\ first' = aux
  /\ leftOver' = (r # w)
  /\ UNCHANGED <<blockedThreads, prodconsAt, aux, item, itemRing>>

\* tcreate, once for each; then the main thread is in control().
CreateThread(t) ==
  /\ prodcons = "starting" /\ prodconsAt[t] = "none"
  /\ t = "consumer" => prodconsAt["producer"] # "none"
  /\ prodconsAt' = [prodconsAt EXCEPT ![t] = IF t = "producer" THEN "produce" ELSE "downFull"]
  /\ prodcons' = IF t = "consumer" THEN "running" ELSE prodcons
  /\ UNCHANGED <<syncVars, runs, objects, aux, item, itemRing, consumed, first, leftOver>>

\* q: control() returns and exec() ends the process with all its threads.
Quit ==
  /\ prodcons = "running"
  /\ prodcons' = "ended"
  /\ prodconsAt' = [t \in DOMAIN prodconsAt |-> "none"]
  /\ blockedThreads' = {b \in blockedThreads : b[3] \notin DOMAIN prodconsAt}
  /\ UNCHANGED <<mutexStatus, semaphoreStatus, runs, objects, aux, item, itemRing, consumed,
                 first, leftOver>>

Produce ==
  /\ aux <= MaxItems
  /\ Goes("producer", "produce", "downEmpty")
  /\ item' = asChar(aux)
  /\ aux' = aux + 1
  /\ UNCHANGED <<syncVars, itemRing, consumed>>

nextSlot(s) == (s + 1) % BUFFERSIZE

insertItem ==
  /\ Goes("producer", "insertItem", "upItem")
  /\ buffer' = [buffer EXCEPT ![w] = item]
  /\ w' = nextSlot(w)
  /\ UNCHANGED <<syncVars, aux, item, r, consumed>>

removeItem ==
  /\ Goes("consumer", "removeItem", "upItem")
  /\ consumed' = Append(consumed, buffer[r])
  /\ r' = nextSlot(r)
  /\ UNCHANGED <<syncVars, aux, item, buffer, w>>

\* The calls that lock and unlock.
LockStep(t, from, to, Call) ==
  /\ Goes(t, from, to)
  /\ Call
  /\ UNCHANGED <<aux, item, itemRing, consumed>>

\* Mutant: the mutex is taken first.
producerLocksFirst ==
  \/ Produce
  \/ LockStep("producer", "downEmpty", "downItem", mutexDown("producer", itemMutex))
  \/ LockStep("producer", "downItem", "insertItem", semaphoreDown("producer", emptyCount))
  \/ insertItem
  \/ LockStep("producer", "upItem", "upFull", mutexUp(itemMutex))
  \/ LockStep("producer", "upFull", "produce", semaphoreUp(fullCount))

producer ==
  \/ Produce
  \/ LockStep("producer", "downEmpty", "downItem", semaphoreDown("producer", emptyCount))
  \/ LockStep("producer", "downItem", "insertItem", mutexDown("producer", itemMutex))
  \/ insertItem
  \/ LockStep("producer", "upItem", "upFull", mutexUp(itemMutex))
  \/ LockStep("producer", "upFull", "produce", semaphoreUp(fullCount))

consumer ==
  \/ LockStep("consumer", "downFull", "downItem", semaphoreDown("consumer", fullCount))
  \/ LockStep("consumer", "downItem", "removeItem", mutexDown("consumer", itemMutex))
  \/ removeItem
  \/ LockStep("consumer", "upItem", "upEmpty", mutexUp(itemMutex))
  \/ LockStep("consumer", "upEmpty", "downFull", semaphoreUp(emptyCount))

\* A statement of one of the two threads; the main thread waits for its key.
ThreadStep(step) == step /\ UNCHANGED <<prodcons, runs, objects, first, leftOver>>

ProducerStep == ThreadStep(producer) /\ ~Blocked("producer")
ConsumerStep == ThreadStep(consumer) /\ ~Blocked("consumer")

ProdConsNext ==
  \/ \E t \in DOMAIN prodconsAt : CreateThread(t)
  \/ Quit
  \/ ProducerStep \/ ConsumerStep

\* The program on its own.
ProdConsSpec ==
  /\ SyncInit /\ ProdConsInit
  /\ [][StartProdCons \/ ProdConsNext]_<<syncVars, prodconsVars>>

\* Main thread, producer and consumer are scheduled again and again; the key
\* that ends the program need not come.
ProdConsFair ==
  LET v == <<syncVars, prodconsVars>>
  IN WF_v(\E t \in DOMAIN prodconsAt : CreateThread(t)) /\ WF_v(ProducerStep)
     /\ WF_v(ConsumerStep)

----------------------------------------------------------------------------
\* The consumer takes what was produced, in that order, nothing twice and nothing
\* left out, although the mutex lets both threads in together; only a run
\* that begins with a full slot of an earlier one does not (shell.c:238-297).
ItemsInOrder ==
  ~leftOver =>
    \A k \in DOMAIN consumed : consumed[k] = asChar(first + k - 1)

\* The two threads never wait for each other: one that waits for a slot has
\* left the other one an item or a slot, and one that waits for the mutex left
\* the other inside, awake (shell.c:238-297).
SomeWorkerRuns ==
  prodcons # "ended" => \E t \in DOMAIN prodconsAt : ~Blocked(t)

\* Every item that was produced is consumed, unless the program is ended: neither
\* thread is left at an object whose other user has passed it (shell.c:265-285).
ItemsAreConsumed ==
  \A k \in 1..MaxItems :
    prodcons = "running" /\ aux - first >= k ~> Len(consumed) >= k \/ prodcons = "ended"
============================================================================
