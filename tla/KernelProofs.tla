---------------------------- MODULE KernelProofs ----------------------------
(***************************************************************************)
(* Producer and consumer hand every item over in order, for every size of  *)
(* the buffer, every number of items and of runs: first with threads that  *)
(* run and wait as they should (ProdCons), then on the scheduler of the    *)
(* kernel (ProdConsKernel), for every quantum.                             *)
(***************************************************************************)
EXTENDS ProdConsKernel, SchedulerProofs, SequenceTheorems

(***************************************************************************)
(* The mutex has no part in the argument, as it must: it lets both threads *)
(* in.  What keeps them apart are the two counts: a slot is free, taken,   *)
(* or in the hands of one of the threads (Counts).                         *)
(***************************************************************************)
Worker == {"producer", "consumer"}
At == {"none", "produce", "downEmpty", "downItem", "insertItem", "upItem", "upFull",
       "downFull", "removeItem", "upEmpty"}

One(t, places) == IF prodconsAt[t] \in places THEN 1 ELSE 0

\* Produced and not yet in the ring; the items of this run that are there.
Held == One("producer", {"downEmpty", "downItem", "insertItem"})
InRing == aux - first - Held - Len(consumed)

\* Slots that are neither free for the producer nor full for the consumer.
ProducerHasSlot == One("producer", {"downItem", "insertItem"})
ProducerOwesUp  == One("producer", {"upItem", "upFull"})
ConsumerHasSlot == One("consumer", {"downItem", "removeItem"})
ConsumerOwesUp  == One("consumer", {"upItem", "upEmpty"})

Counts ==
  /\ semaphoreStatus[emptyCount] = BUFFERSIZE - InRing - ProducerHasSlot - ConsumerOwesUp
  /\ semaphoreStatus[fullCount] = InRing - ProducerOwesUp - ConsumerHasSlot
  /\ InRing \in Int /\ 0 <= InRing /\ InRing <= BUFFERSIZE

\* The slot j places behind s.
Place(s, j) == IF s + j < BUFFERSIZE THEN s + j ELSE s + j - BUFFERSIZE

RingHoldsItems ==
  /\ w = Place(r, InRing)
  /\ \A j \in Int : 0 <= j /\ j < InRing =>
       buffer[Place(r, j)] = asChar(first + Len(consumed) + j)
  /\ Held = 1 => item = asChar(aux - 1)

Semaphores ==
  /\ \E n \in Nat : DOMAIN semaphoreStatus = 0..(n - 1)
  /\ semaphoreStatus = [id \in DOMAIN semaphoreStatus |-> semaphoreStatus[id]]
  /\ \A id \in DOMAIN semaphoreStatus : semaphoreStatus[id] \in Int

ItemTypes ==
  /\ Semaphores
  /\ prodconsAt \in [Worker -> At]
  /\ aux \in Int /\ first \in Int /\ item \in Int
  /\ buffer \in [ItemSlot -> Int] /\ r \in ItemSlot /\ w \in ItemSlot
  /\ consumed \in Seq(Int)

Running ==
  prodcons # "ended" =>
    /\ emptyCount \in DOMAIN semaphoreStatus /\ fullCount \in DOMAIN semaphoreStatus
    /\ emptyCount # fullCount
    /\ Counts
    /\ ~leftOver => RingHoldsItems

Idle == prodcons = "ended" => \A t \in Worker : prodconsAt[t] = "none"

ItemInv == ItemTypes /\ Idle /\ Running /\ ItemsInOrder

----------------------------------------------------------------------------
(* A char is a number. *)
LEMMA CharType == ASSUME NEW n \in Int PROVE asChar(n) \in Int
BY ProdConsAssumption DEF asChar

(* The slots are numbers below the size of the ring, and the next one is one *)
(* place further.                                                            *)
LEMMA Slots ==
  /\ BUFFERSIZE \in Int /\ BUFFERSIZE >= 1
  /\ \A s : s \in ItemSlot <=> s \in Int /\ 0 <= s /\ s < BUFFERSIZE
BY ProdConsAssumption DEF ItemSlot

LEMMA NextSlot ==
  ASSUME NEW s \in ItemSlot
  PROVE  nextSlot(s) \in ItemSlot /\ nextSlot(s) = Place(s, 1)
<1>1. CASE s + 1 < BUFFERSIZE
  BY <1>1, Slots DEF nextSlot, Place
<1>2. CASE s + 1 = BUFFERSIZE
  BY <1>2, Slots DEF nextSlot, Place
<1> QED BY <1>1, <1>2, Slots

(* Places: they are slots, all different within one turn, and a place behind *)
(* the next slot is a place behind this one.                                 *)
LEMMA Places ==
  ASSUME NEW s \in ItemSlot
  PROVE  /\ \A j \in Int : 0 <= j /\ j < BUFFERSIZE => Place(s, j) \in ItemSlot
         /\ \A i, j \in Int : 0 <= i /\ i < j /\ j < BUFFERSIZE => Place(s, i) # Place(s, j)
         /\ \A j \in Int : 0 <= j /\ j < BUFFERSIZE =>
              /\ Place(Place(s, 1), j) = Place(s, j + 1)
              /\ Place(Place(s, j), 1) = Place(s, j + 1)
         /\ Place(s, 0) = s
BY Slots DEF Place

----------------------------------------------------------------------------
(* A fresh run has nothing in the ring.  *)
LEMMA StartsEmpty ==
  ASSUME ItemInv, StartProdCons
  PROVE  Len(consumed') = 0 /\ Held' = 0 /\ InRing' = 0
<1>1. Len(consumed') = 0
  BY DEF StartProdCons
<1>2. Held' = 0
  BY DEF StartProdCons, ItemInv, Idle, Worker, Held, One
<1>3. aux' - first' - 0 - 0 = 0
  BY DEF StartProdCons, ItemInv, ItemTypes
<1> QED BY <1>1, <1>2, <1>3 DEF InRing

(* Its two semaphores are new ones. *)
LEMMA StartStep ==
  ASSUME ItemInv, StartProdCons
  PROVE  ItemInv'
<1> DEFINE e == emptyCount'
           f == fullCount'
           S == semaphoreStatus
<1>0. /\ prodcons = "ended" /\ prodcons' = "starting"
      /\ e = counter(S) /\ f = counter(S) + 1
      /\ semaphoreStatus' = withObject(withObject(S, e, BUFFERSIZE), f, 0)
      /\ consumed' = <<>> /\ first' = aux /\ leftOver' = (r # w)
      /\ UNCHANGED <<blockedThreads, prodconsAt, aux, item, buffer, r, w>>
  BY DEF StartProdCons, itemRing
<1>1. PICK n \in Nat : DOMAIN S = 0..(n - 1)
  BY DEF ItemInv, ItemTypes, Semaphores
<1>2. e = n /\ f = n + 1
  <2>1. Cardinality(0..(n - 1)) = n
    BY <1>1, FS_Interval
  <2> QED BY <1>0, <1>1, <2>1 DEF counter
<1> HIDE DEF e, f
<1>3. semaphoreStatus' = [id \in 0..(n + 1) |-> IF id = n THEN BUFFERSIZE
                                               ELSE IF id = n + 1 THEN 0 ELSE S[id]]
  <2>1. DOMAIN S \cup {n} \cup {n + 1} = 0..(n + 1)
    BY <1>1
  <2>2. n \notin DOMAIN S /\ (n + 1) \notin DOMAIN S
    BY <1>1
  <2> QED BY <1>0, <1>1, <1>2, <2>1, <2>2 DEF withObject
<1>4. Semaphores'
  <2>1. DOMAIN semaphoreStatus' = 0..((n + 2) - 1) /\ n + 2 \in Nat
    BY <1>3
  <2>2. semaphoreStatus' = [id \in DOMAIN semaphoreStatus' |-> semaphoreStatus'[id]]
    BY <1>3
  <2>3. \A id \in DOMAIN semaphoreStatus' : semaphoreStatus'[id] \in Int
    <3>1. ASSUME NEW id \in 0..(n + 1) PROVE id \in DOMAIN S \/ id = n \/ id = n + 1
      BY <1>1
    <3> QED BY <1>3, <3>1, Slots DEF ItemInv, ItemTypes, Semaphores
  <2> QED BY <2>1, <2>2, <2>3 DEF Semaphores
<1>5. ItemTypes'
  BY <1>0, <1>4 DEF ItemInv, ItemTypes
<1>6. Len(consumed') = 0 /\ Held' = 0 /\ InRing' = 0
  BY StartsEmpty
<1>7. Counts'
  <2>1. semaphoreStatus'[e] = BUFFERSIZE /\ semaphoreStatus'[f] = 0
    BY <1>2, <1>3
  <2>2. ProducerHasSlot' = 0 /\ ConsumerOwesUp' = 0 /\ ProducerOwesUp' = 0 /\ ConsumerHasSlot' = 0
    BY <1>0 DEF ItemInv, Idle, Worker, One, ProducerHasSlot, ConsumerOwesUp, ProducerOwesUp, ConsumerHasSlot
  <2> QED BY <1>6, <2>1, <2>2, Slots DEF Counts, e, f
<1>8. ~leftOver' => RingHoldsItems'
  <2>1. r \in Int /\ r < BUFFERSIZE /\ ~(\E j \in Int : 0 <= j /\ j < 0)
    BY Slots DEF ItemInv, ItemTypes
  <2>2. ~leftOver' => w = r
    BY <1>0
  <2>3. ~leftOver' => w' = Place(r', 0)
    BY <1>0, <2>1, <2>2 DEF Place
  <2> QED BY <1>6, <2>1, <2>3 DEF RingHoldsItems
<1>9. e \in DOMAIN semaphoreStatus' /\ f \in DOMAIN semaphoreStatus' /\ e # f
  BY <1>2, <1>3
<1>10. ItemsInOrder'
  BY <1>0 DEF ItemsInOrder
<1> QED BY <1>0, <1>5, <1>7, <1>8, <1>9, <1>10 DEF ItemInv, Running, Idle, e, f

(* Steps that neither touch the items nor change what is in the ring. *)
LEMMA RingSame ==
  ASSUME ItemInv, RingHoldsItems, InRing' = InRing, Held' = 1 => Held = 1,
         UNCHANGED <<aux, item, itemRing, consumed, first>>
  PROVE  RingHoldsItems'
BY DEF RingHoldsItems, itemRing, Place

(* The threads are created, or the program is left. *)
LEMMA CreateStep ==
  ASSUME ItemInv, NEW t \in Worker, CreateThread(t)
  PROVE  ItemInv'
<1>0. /\ prodcons # "ended" /\ prodcons' # "ended"
      /\ prodconsAt[t] = "none"
      /\ prodconsAt' = [prodconsAt EXCEPT ![t] = IF t = "producer" THEN "produce" ELSE "downFull"]
      /\ UNCHANGED <<syncVars, objects, aux, item, itemRing, consumed, first, leftOver>>
  BY DEF CreateThread
<1>1. /\ Held' = Held /\ ProducerHasSlot' = ProducerHasSlot /\ ProducerOwesUp' = ProducerOwesUp
      /\ ConsumerHasSlot' = ConsumerHasSlot /\ ConsumerOwesUp' = ConsumerOwesUp
  BY <1>0 DEF ItemInv, ItemTypes, Worker, At, One, Held, ProducerHasSlot, ProducerOwesUp, ConsumerHasSlot, ConsumerOwesUp
<1>2. InRing' = InRing
  BY <1>0, <1>1 DEF InRing
<1>3. ItemTypes'
  BY <1>0 DEF ItemInv, ItemTypes, Worker, At, Semaphores, syncVars, itemRing
<1>4. Counts'
  BY <1>0, <1>1, <1>2 DEF ItemInv, Running, Counts, objects, syncVars
<1>5. ~leftOver' => RingHoldsItems'
  BY <1>0, <1>1, <1>2, RingSame DEF ItemInv, Running
<1> QED BY <1>0, <1>3, <1>4, <1>5 DEF ItemInv, Running, Idle, ItemsInOrder, objects, syncVars

LEMMA QuitStep ==
  ASSUME ItemInv, Quit
  PROVE  ItemInv'
<1>1. \A t \in Worker : prodconsAt'[t] = "none"
  BY DEF Quit, ItemInv, ItemTypes
<1>2. ItemTypes'
  BY DEF Quit, ItemInv, ItemTypes, Semaphores, Worker, At, itemRing
<1> QED BY <1>1, <1>2 DEF Quit, ItemInv, Running, Idle, ItemsInOrder
----------------------------------------------------------------------------
(***************************************************************************)
(* The steps of producer and consumer.  `Moves' is what all of them share. *)
(***************************************************************************)

Moves(t, from, to) ==
  /\ prodcons # "ended" /\ prodcons' = prodcons
  /\ prodconsAt[t] = from
  /\ prodconsAt' = [prodconsAt EXCEPT ![t] = to]
  /\ UNCHANGED <<objects, first, leftOver>>

LEMMA MovesInv ==
  ASSUME ItemInv, NEW t \in Worker, NEW from, NEW to, Moves(t, from, to),
         ItemTypes', Counts', RingHoldsItems /\ ~leftOver => RingHoldsItems', ItemsInOrder',
         DOMAIN semaphoreStatus' = DOMAIN semaphoreStatus
  PROVE  ItemInv'
BY DEF ItemInv, Moves, Running, Idle, objects

(* Steps that leave the semaphores alone.                                    *)
LEMMA SameCounts ==
  ASSUME ItemInv, NEW t \in Worker, NEW from, NEW to, Moves(t, from, to),
         UNCHANGED semaphoreStatus,
         InRing' \in Int, 0 <= InRing', InRing' <= BUFFERSIZE,
         BUFFERSIZE - InRing' - ProducerHasSlot' - ConsumerOwesUp'
           = BUFFERSIZE - InRing - ProducerHasSlot - ConsumerOwesUp,
         InRing' - ProducerOwesUp' - ConsumerHasSlot'
           = InRing - ProducerOwesUp - ConsumerHasSlot
  PROVE  Counts'
<1>1. Counts
  BY DEF ItemInv, Running, Moves
<1>2. emptyCount' = emptyCount /\ fullCount' = fullCount
  BY DEF Moves, objects
<1> QED BY <1>1, <1>2 DEF Counts

(* Where a worker is decides what it holds. *)
LEMMA ProducerPlaces ==
  ASSUME ItemInv, NEW from, NEW to \in At, Moves("producer", from, to)
  PROVE  /\ ConsumerHasSlot' = ConsumerHasSlot /\ ConsumerOwesUp' = ConsumerOwesUp
         /\ Held = IF from \in {"downEmpty", "downItem", "insertItem"} THEN 1 ELSE 0
         /\ Held' = IF to \in {"downEmpty", "downItem", "insertItem"} THEN 1 ELSE 0
         /\ ProducerHasSlot = IF from \in {"downItem", "insertItem"} THEN 1 ELSE 0
         /\ ProducerHasSlot' = IF to \in {"downItem", "insertItem"} THEN 1 ELSE 0
         /\ ProducerOwesUp = IF from \in {"upItem", "upFull"} THEN 1 ELSE 0
         /\ ProducerOwesUp' = IF to \in {"upItem", "upFull"} THEN 1 ELSE 0
         /\ prodconsAt' \in [Worker -> At]
BY DEF ItemInv, ItemTypes, Worker, Moves, One, Held, ProducerHasSlot, ProducerOwesUp,
       ConsumerHasSlot, ConsumerOwesUp

LEMMA ConsumerPlaces ==
  ASSUME ItemInv, NEW from, NEW to \in At, Moves("consumer", from, to)
  PROVE  /\ Held' = Held
         /\ ProducerHasSlot' = ProducerHasSlot /\ ProducerOwesUp' = ProducerOwesUp
         /\ ConsumerHasSlot = IF from \in {"downItem", "removeItem"} THEN 1 ELSE 0
         /\ ConsumerHasSlot' = IF to \in {"downItem", "removeItem"} THEN 1 ELSE 0
         /\ ConsumerOwesUp = IF from \in {"upItem", "upEmpty"} THEN 1 ELSE 0
         /\ ConsumerOwesUp' = IF to \in {"upItem", "upEmpty"} THEN 1 ELSE 0
         /\ prodconsAt' \in [Worker -> At]
BY DEF ItemInv, ItemTypes, Worker, Moves, One, Held, ProducerHasSlot, ProducerOwesUp,
       ConsumerHasSlot, ConsumerOwesUp

(* A mutex is taken or given back: the semaphores and the items are as they  *)
(* were.                                                                     *)
LEMMA MutexStep ==
  ASSUME ItemInv, NEW t \in Worker, NEW from \in At, NEW to \in At, Moves(t, from, to),
         mutexDown(t, itemMutex) \/ mutexUp(itemMutex),
         UNCHANGED <<aux, item, itemRing, consumed>>,
         \/ t = "producer" /\ <<from, to>> \in {<<"downItem", "insertItem">>, <<"upItem", "upFull">>}
         \/ t = "consumer" /\ <<from, to>> \in {<<"downItem", "removeItem">>, <<"upItem", "upEmpty">>}
  PROVE  ItemInv'
<1>1. /\ Held' = Held
      /\ ProducerHasSlot' = ProducerHasSlot /\ ProducerOwesUp' = ProducerOwesUp
      /\ ConsumerHasSlot' = ConsumerHasSlot /\ ConsumerOwesUp' = ConsumerOwesUp
      /\ prodconsAt' \in [Worker -> At]
  <2>1. CASE t = "producer"
    BY <2>1, ProducerPlaces
  <2>2. CASE t = "consumer"
    BY <2>2, ConsumerPlaces
  <2> QED BY <2>1, <2>2 DEF Worker
<1>2. InRing' = InRing
  BY <1>1 DEF InRing, Moves
<1>3. semaphoreStatus' = semaphoreStatus
  BY DEF mutexDown, mutexUp
<1>5. Counts'
  <2>1. Counts
    BY DEF ItemInv, Running, Moves
  <2> QED BY <1>1, <1>2, <1>3, <2>1, SameCounts DEF Counts
<1>6. ItemTypes'
  BY <1>1, <1>3 DEF ItemInv, ItemTypes, Semaphores, itemRing, Moves
<1>7. RingHoldsItems => RingHoldsItems'
  BY <1>1, <1>2, RingSame DEF Moves
<1>8. ItemsInOrder'
  BY DEF ItemInv, ItemsInOrder, Moves
<1> QED BY <1>3, <1>5, <1>6, <1>7, <1>8, MovesInv
----------------------------------------------------------------------------
(* The two operations of a semaphore, and a semaphore that is not touched.   *)
LEMMA SemaphoreCounts ==
  ASSUME Semaphores, NEW t, NEW id \in DOMAIN semaphoreStatus,
         NEW other \in DOMAIN semaphoreStatus, other # id
  PROVE  /\ semaphoreDown(t, id) => semaphoreStatus'[id] = semaphoreStatus[id] - 1
         /\ semaphoreUp(id) => semaphoreStatus'[id] = semaphoreStatus[id] + 1
         /\ semaphoreDown(t, id) \/ semaphoreUp(id) =>
              semaphoreStatus'[other] = semaphoreStatus[other]
         /\ semaphoreStatus[id] \in Int
BY DEF Semaphores, semaphoreDown, semaphoreUp

LEMMA SemaphoreType ==
  ASSUME Semaphores, NEW t, NEW id \in DOMAIN semaphoreStatus,
         semaphoreDown(t, id) \/ semaphoreUp(id)
  PROVE  Semaphores' /\ DOMAIN semaphoreStatus' = DOMAIN semaphoreStatus
<1>1. DOMAIN semaphoreStatus' = DOMAIN semaphoreStatus
  BY DEF semaphoreDown, semaphoreUp
<1>2. semaphoreStatus' = [i \in DOMAIN semaphoreStatus |-> semaphoreStatus'[i]]
  BY DEF semaphoreDown, semaphoreUp
<1>3. \A i \in DOMAIN semaphoreStatus : semaphoreStatus'[i] \in Int
  BY DEF semaphoreDown, semaphoreUp, Semaphores
<1> QED BY <1>1, <1>2, <1>3 DEF Semaphores

(* A statement of producer or consumer with one of them. *)
LEMMA SemaphoreStep ==
  ASSUME ItemInv, NEW t \in Worker, NEW from \in At, NEW to \in At, Moves(t, from, to),
         UNCHANGED <<aux, item, itemRing, consumed>>,
         \/ /\ t = "producer" /\ from = "downEmpty" /\ to = "downItem"
            /\ semaphoreDown("producer", emptyCount)
         \/ /\ t = "producer" /\ from = "upFull" /\ to = "produce"
            /\ semaphoreUp(fullCount)
         \/ /\ t = "consumer" /\ from = "downFull" /\ to = "downItem"
            /\ semaphoreDown("consumer", fullCount)
         \/ /\ t = "consumer" /\ from = "upEmpty" /\ to = "downFull"
            /\ semaphoreUp(emptyCount)
  PROVE  ItemInv'
<1>0. PICK e, f : e = emptyCount /\ f = fullCount
  OBVIOUS
<1>1. /\ emptyCount' = e /\ fullCount' = f /\ e # f
      /\ e \in DOMAIN semaphoreStatus /\ f \in DOMAIN semaphoreStatus
      /\ Semaphores /\ Counts
      /\ prodconsAt \in [Worker -> At]
      /\ prodconsAt'[t] = to /\ prodconsAt[t] = from
      /\ \A u \in Worker : u # t => prodconsAt'[u] = prodconsAt[u]
  BY <1>0 DEF ItemInv, Running, ItemTypes, Moves, objects
<1>3. Held' = Held
  <2>1. CASE t = "producer"
    BY <2>1, ProducerPlaces
  <2>2. CASE t = "consumer"
    BY <2>2, ConsumerPlaces
  <2> QED BY <2>1, <2>2 DEF Worker
<1>4. InRing' = InRing /\ InRing \in Int
  BY <1>1, <1>3 DEF InRing, Moves, Counts
<1>5. /\ Semaphores' /\ DOMAIN semaphoreStatus' = DOMAIN semaphoreStatus
      /\ Counts'
  <2>1. CASE /\ t = "producer" /\ from = "downEmpty" /\ to = "downItem"
             /\ semaphoreDown("producer", e)
    <3>1. /\ semaphoreStatus'[e] = semaphoreStatus[e] - 1
          /\ semaphoreStatus'[f] = semaphoreStatus[f]
          /\ Semaphores' /\ DOMAIN semaphoreStatus' = DOMAIN semaphoreStatus
      BY <1>1, <2>1, SemaphoreCounts, SemaphoreType
    <3>3. /\ ProducerHasSlot = 0 /\ ProducerHasSlot' = 1
          /\ ProducerOwesUp' = ProducerOwesUp
          /\ ConsumerHasSlot' = ConsumerHasSlot /\ ConsumerOwesUp' = ConsumerOwesUp
      BY <2>1, ProducerPlaces
    <3>4. ConsumerOwesUp \in Int
      BY DEF ConsumerOwesUp, One
    <3> QED BY <1>1, <1>4, <3>1, <3>3, <3>4, Slots, <1>0 DEF Counts
  <2>2. CASE /\ t = "producer" /\ from = "upFull" /\ to = "produce"
             /\ semaphoreUp(f)
    <3>1. /\ semaphoreStatus'[f] = semaphoreStatus[f] + 1
          /\ semaphoreStatus'[e] = semaphoreStatus[e]
          /\ Semaphores' /\ DOMAIN semaphoreStatus' = DOMAIN semaphoreStatus
      BY <1>1, <2>2, SemaphoreCounts, SemaphoreType
    <3>3. /\ ProducerOwesUp = 1 /\ ProducerOwesUp' = 0
          /\ ProducerHasSlot' = ProducerHasSlot
          /\ ConsumerHasSlot' = ConsumerHasSlot /\ ConsumerOwesUp' = ConsumerOwesUp
      BY <2>2, ProducerPlaces
    <3>4. ConsumerHasSlot \in Int
      BY DEF ConsumerHasSlot, One
    <3> QED BY <1>1, <1>4, <3>1, <3>3, <3>4, Slots, <1>0 DEF Counts
  <2>3. CASE /\ t = "consumer" /\ from = "downFull" /\ to = "downItem"
             /\ semaphoreDown("consumer", f)
    <3>1. /\ semaphoreStatus'[f] = semaphoreStatus[f] - 1
          /\ semaphoreStatus'[e] = semaphoreStatus[e]
          /\ Semaphores' /\ DOMAIN semaphoreStatus' = DOMAIN semaphoreStatus
      BY <1>1, <2>3, SemaphoreCounts, SemaphoreType
    <3>3. /\ ConsumerHasSlot = 0 /\ ConsumerHasSlot' = 1
          /\ ConsumerOwesUp' = ConsumerOwesUp
          /\ ProducerHasSlot' = ProducerHasSlot /\ ProducerOwesUp' = ProducerOwesUp
      BY <2>3, ConsumerPlaces
    <3>4. ProducerOwesUp \in Int
      BY DEF ProducerOwesUp, One
    <3> QED BY <1>1, <1>4, <3>1, <3>3, <3>4, Slots, <1>0 DEF Counts
  <2>4. CASE /\ t = "consumer" /\ from = "upEmpty" /\ to = "downFull"
             /\ semaphoreUp(e)
    <3>1. /\ semaphoreStatus'[e] = semaphoreStatus[e] + 1
          /\ semaphoreStatus'[f] = semaphoreStatus[f]
          /\ Semaphores' /\ DOMAIN semaphoreStatus' = DOMAIN semaphoreStatus
      BY <1>1, <2>4, SemaphoreCounts, SemaphoreType
    <3>3. /\ ConsumerOwesUp = 1 /\ ConsumerOwesUp' = 0
          /\ ConsumerHasSlot' = ConsumerHasSlot
          /\ ProducerHasSlot' = ProducerHasSlot /\ ProducerOwesUp' = ProducerOwesUp
      BY <2>4, ConsumerPlaces
    <3>4. ProducerHasSlot \in Int
      BY DEF ProducerHasSlot, One
    <3> QED BY <1>1, <1>4, <3>1, <3>3, <3>4, Slots, <1>0 DEF Counts
  <2> QED BY <1>0, <2>1, <2>2, <2>3, <2>4
<1>6. ItemTypes'
  <2>1. prodconsAt' \in [Worker -> At]
    BY DEF Moves, ItemInv, ItemTypes
  <2> QED BY <1>5, <2>1 DEF ItemInv, ItemTypes, itemRing, Moves
<1>7. RingHoldsItems => RingHoldsItems'
  BY <1>3, <1>4, RingSame DEF Moves
<1>8. ItemsInOrder'
  BY DEF ItemInv, ItemsInOrder, Moves
<1> QED BY <1>5, <1>6, <1>7, <1>8, MovesInv
----------------------------------------------------------------------------
(* The next item is made: it is held, and the ring is as it was. *)
LEMMA ProduceStep ==
  ASSUME ItemInv, Moves("producer", "produce", "downEmpty"),
         item' = asChar(aux), aux' = aux + 1, UNCHANGED <<syncVars, itemRing, consumed>>
  PROVE  ItemInv'
<1>1. /\ Held = 0 /\ Held' = 1
      /\ ProducerHasSlot' = ProducerHasSlot /\ ProducerOwesUp' = ProducerOwesUp
      /\ ConsumerHasSlot' = ConsumerHasSlot /\ ConsumerOwesUp' = ConsumerOwesUp
      /\ prodconsAt' \in [Worker -> At]
  BY ProducerPlaces DEF At
<1>2. aux \in Int /\ first \in Int /\ Len(consumed) \in Nat
  BY DEF ItemInv, ItemTypes
<1>3. InRing' = InRing
  <2>1. (aux + 1) - first - 1 - Len(consumed) = aux - first - 0 - Len(consumed)
    BY <1>2
  <2> QED BY <1>1, <2>1 DEF InRing, Moves
<1>4. Counts'
  <2>1. Counts
    BY DEF ItemInv, Running, Moves
  <2> QED BY <1>1, <1>3, <2>1, SameCounts DEF syncVars, Worker, Counts
<1>5. ItemTypes'
  BY <1>1, <1>2, CharType DEF ItemInv, ItemTypes, Semaphores, syncVars, itemRing, Moves
<1>6. RingHoldsItems => RingHoldsItems'
  <2>1. aux' - 1 = aux
    BY <1>2
  <2> QED BY <1>3, <2>1 DEF RingHoldsItems, Moves, itemRing, Place
<1>7. ItemsInOrder'
  BY DEF ItemInv, ItemsInOrder, Moves
<1> QED BY <1>4, <1>5, <1>6, <1>7, MovesInv DEF syncVars, Worker

(* insertItem, when there is a free slot: the item goes behind those that    *)
(* are there.                                                                *)
LEMMA InsertStep ==
  ASSUME ItemInv, Moves("producer", "insertItem", "upItem"), InRing < BUFFERSIZE,
         buffer' = [buffer EXCEPT ![w] = item], w' = nextSlot(w),
         UNCHANGED <<syncVars, aux, item, r, consumed>>
  PROVE  ItemInv'
<1>1. /\ Held = 1 /\ Held' = 0
      /\ ProducerHasSlot = 1 /\ ProducerHasSlot' = 0
      /\ ProducerOwesUp = 0 /\ ProducerOwesUp' = 1
      /\ ConsumerHasSlot' = ConsumerHasSlot /\ ConsumerOwesUp' = ConsumerOwesUp
      /\ prodconsAt' \in [Worker -> At]
  BY ProducerPlaces DEF At
<1>2. aux \in Int /\ first \in Int /\ Len(consumed) \in Nat
  BY DEF ItemInv, ItemTypes
<1>3. Counts
  BY DEF ItemInv, Running, Moves
<1>4. InRing \in Int /\ 0 <= InRing /\ InRing < BUFFERSIZE
  BY <1>3, Slots DEF Counts
<1>5. InRing' = InRing + 1
  <2>1. aux - first - 0 - Len(consumed) = (aux - first - 1 - Len(consumed)) + 1
    BY <1>2
  <2> QED BY <1>1, <2>1 DEF InRing, Moves
<1>6. Counts'
  <2>1. ConsumerOwesUp \in Int /\ ConsumerHasSlot \in Int
    BY DEF ConsumerOwesUp, ConsumerHasSlot, One
  <2>2. /\ BUFFERSIZE - InRing' - ProducerHasSlot' - ConsumerOwesUp'
             = BUFFERSIZE - InRing - ProducerHasSlot - ConsumerOwesUp
        /\ InRing' - ProducerOwesUp' - ConsumerHasSlot'
             = InRing - ProducerOwesUp - ConsumerHasSlot
    BY <1>1, <1>4, <1>5, <2>1, Slots
  <2> QED BY <1>4, <1>5, <2>2, SameCounts, Slots DEF syncVars, Worker
<1>7. w \in ItemSlot /\ r \in ItemSlot /\ buffer \in [ItemSlot -> Int] /\ item \in Int
  BY DEF ItemInv, ItemTypes
<1>8. ItemTypes'
  BY <1>1, <1>7, NextSlot DEF ItemInv, ItemTypes, Semaphores, syncVars, Moves
<1>9. ASSUME RingHoldsItems PROVE RingHoldsItems'
  <2>1. w = Place(r, InRing) /\ w' = Place(r, InRing + 1)
    BY <1>4, <1>7, <1>9, NextSlot, Places DEF RingHoldsItems
  <2>2. item = asChar(first + Len(consumed) + InRing)
    <3>1. aux - 1 = first + Len(consumed) + InRing
      BY <1>1, <1>2 DEF InRing
    <3> QED BY <1>1, <1>9, <3>1 DEF RingHoldsItems
  <2>3. ASSUME NEW j \in Int, 0 <= j, j < InRing + 1
        PROVE  buffer'[Place(r, j)] = asChar(first + Len(consumed) + j)
    <3>1. CASE j = InRing
      BY <1>7, <2>1, <2>2, <3>1
    <3>2. CASE j < InRing
      <4>1. Place(r, j) # w /\ Place(r, j) \in ItemSlot
        <5> DEFINE n == InRing
        <5>1. n \in Int /\ j < n /\ n < BUFFERSIZE /\ w = Place(r, n)
          BY <1>4, <2>1, <3>2
        <5> HIDE DEF n
        <5>2. Place(r, j) # Place(r, n) /\ Place(r, j) \in ItemSlot
          BY <1>7, <2>3, <5>1, Slots DEF Place
        <5> QED BY <5>1, <5>2
      <4>2. buffer[Place(r, j)] = asChar(first + Len(consumed) + j)
        BY <1>9, <2>3, <3>2 DEF RingHoldsItems
      <4> QED BY <1>7, <4>1, <4>2
    <3> QED BY <1>4, <2>3, <3>1, <3>2
  <2>4. /\ w' = Place(r', InRing')
        /\ \A j \in Int : 0 <= j /\ j < InRing' =>
             buffer'[Place(r', j)] = asChar(first' + Len(consumed') + j)
    BY <1>5, <2>1, <2>3 DEF Moves
  <2> QED BY <1>1, <2>4 DEF RingHoldsItems, Place
<1>10. ItemsInOrder'
  BY DEF ItemInv, ItemsInOrder, Moves
<1> QED BY <1>6, <1>8, <1>9, <1>10, MovesInv DEF syncVars, Worker

(* removeItem, when there is an item: it is the one after the last that was  *)
(* consumed.                                                                 *)
LEMMA RemoveStep ==
  ASSUME ItemInv, Moves("consumer", "removeItem", "upItem"), InRing > 0,
         consumed' = Append(consumed, buffer[r]), r' = nextSlot(r),
         UNCHANGED <<syncVars, aux, item, buffer, w>>
  PROVE  ItemInv'
<1>1. /\ Held' = Held
      /\ ProducerHasSlot' = ProducerHasSlot /\ ProducerOwesUp' = ProducerOwesUp
      /\ ConsumerHasSlot = 1 /\ ConsumerHasSlot' = 0
      /\ ConsumerOwesUp = 0 /\ ConsumerOwesUp' = 1
      /\ prodconsAt' \in [Worker -> At]
  BY ConsumerPlaces DEF At
<1>2. /\ aux \in Int /\ first \in Int /\ Len(consumed) \in Nat /\ Held \in Int
      /\ consumed \in Seq(Int)
      /\ w \in ItemSlot /\ r \in ItemSlot /\ buffer \in [ItemSlot -> Int]
  BY DEF ItemInv, ItemTypes, Held, One
<1>3. /\ Len(consumed') = Len(consumed) + 1 /\ consumed' \in Seq(Int)
      /\ DOMAIN consumed = 1..Len(consumed) /\ DOMAIN consumed' = 1..(Len(consumed) + 1)
      /\ consumed'[Len(consumed) + 1] = buffer[r]
      /\ \A k \in 1..Len(consumed) : consumed'[k] = consumed[k]
  BY <1>2
<1>4. Counts
  BY DEF ItemInv, Running, Moves
<1>5. InRing \in Int /\ 1 <= InRing /\ InRing <= BUFFERSIZE
  BY <1>4, Slots DEF Counts
<1>6. InRing' = InRing - 1
  <2>1. aux - first - Held - (Len(consumed) + 1) = (aux - first - Held - Len(consumed)) - 1
    BY <1>2
  <2> QED BY <1>1, <1>3, <2>1 DEF InRing, Moves
<1>7. Counts'
  <2>1. ProducerOwesUp \in Int /\ ProducerHasSlot \in Int
    BY DEF ProducerOwesUp, ProducerHasSlot, One
  <2>2. /\ BUFFERSIZE - InRing' - ProducerHasSlot' - ConsumerOwesUp'
             = BUFFERSIZE - InRing - ProducerHasSlot - ConsumerOwesUp
        /\ InRing' - ProducerOwesUp' - ConsumerHasSlot'
             = InRing - ProducerOwesUp - ConsumerHasSlot
    BY <1>1, <1>5, <1>6, <2>1, Slots
  <2> QED BY <1>5, <1>6, <2>2, SameCounts, Slots DEF syncVars, Worker
<1>8. ItemTypes'
  BY <1>1, <1>2, <1>3, NextSlot DEF ItemInv, ItemTypes, Semaphores, syncVars, Moves
<1>9. ASSUME RingHoldsItems PROVE RingHoldsItems'
  <2>1. r' = Place(r, 1)
    BY <1>2, NextSlot
  <2>2. w' = Place(r', InRing - 1)
    <3>1. w = Place(r, InRing)
      BY <1>9 DEF RingHoldsItems
    <3> DEFINE n == InRing
    <3> HIDE DEF n
    <3>2. n \in Int /\ 0 <= n - 1 /\ n - 1 < BUFFERSIZE /\ (n - 1) + 1 = n
      BY <1>5, Slots DEF n
    <3>3. Place(Place(r, 1), n - 1) = Place(r, n)
      <4>1. \A j \in Int : 0 <= j /\ j < BUFFERSIZE => Place(Place(r, 1), j) = Place(r, j + 1)
        BY <1>2, Places
      <4>2. Place(Place(r, 1), n - 1) = Place(r, (n - 1) + 1)
        BY <3>2, <4>1
      <4> QED BY <3>2, <4>2
    <3> QED BY <2>1, <3>1, <3>3 DEF n
  <2>3. ASSUME NEW j \in Int, 0 <= j, j < InRing - 1
        PROVE  buffer[Place(r', j)] = asChar(first + (Len(consumed) + 1) + j)
    <3>1. Place(r', j) = Place(r, j + 1)
      BY <1>2, <1>5, <2>1, <2>3, Places, Slots
    <3>2. buffer[Place(r, j + 1)] = asChar(first + Len(consumed) + (j + 1))
      BY <1>5, <1>9, <2>3 DEF RingHoldsItems
    <3>3. first + Len(consumed) + (j + 1) = first + (Len(consumed) + 1) + j
      BY <1>2, <2>3
    <3> QED BY <3>1, <3>2, <3>3
  <2>4. /\ w' = Place(r', InRing')
        /\ \A j \in Int : 0 <= j /\ j < InRing' =>
             buffer'[Place(r', j)] = asChar(first' + Len(consumed') + j)
    BY <1>3, <1>6, <2>2, <2>3 DEF Moves
  <2> QED BY <1>1, <1>9, <2>4 DEF RingHoldsItems, Place
<1>10. ItemsInOrder'
  <2> SUFFICES ASSUME ~leftOver PROVE \A k \in DOMAIN consumed' : consumed'[k] = asChar(first + k - 1)
    BY DEF ItemsInOrder, Moves
  <2>1. RingHoldsItems /\ Place(r, 0) = r
    BY <1>2, Places DEF ItemInv, Running, Moves
  <2>2. buffer[r] = asChar(first + Len(consumed) + 0)
    BY <1>5, <2>1 DEF RingHoldsItems
  <2>3. first + Len(consumed) + 0 = first + (Len(consumed) + 1) - 1
    BY <1>2
  <2>4. \A k \in 1..Len(consumed) : consumed'[k] = asChar(first + k - 1)
    BY <1>3 DEF ItemInv, ItemsInOrder
  <2>5. \A k \in 1..(Len(consumed) + 1) : k \in 1..Len(consumed) \/ k = Len(consumed) + 1
    BY <1>2
  <2> QED BY <1>3, <2>2, <2>3, <2>4, <2>5
<1> QED BY <1>7, <1>8, <1>9, <1>10, MovesInv DEF syncVars, Worker

----------------------------------------------------------------------------
(* Every step of the program keeps the invariant. *)
LEMMA ProducerKeepsInv ==
  ASSUME ItemInv, ThreadStep(producer),
         prodconsAt["producer"] = "insertItem" => InRing < BUFFERSIZE
  PROVE  ItemInv'
<1>1. producer /\ UNCHANGED <<prodcons, objects, first, leftOver>>
  BY DEF ThreadStep
<1>2. CASE Produce
  BY <1>1, <1>2, ProduceStep DEF Produce, Goes, Moves
<1>3. CASE LockStep("producer", "downEmpty", "downItem", semaphoreDown("producer", emptyCount))
  BY <1>1, <1>3, SemaphoreStep DEF LockStep, Goes, Moves, Worker, At
<1>4. CASE LockStep("producer", "downItem", "insertItem", mutexDown("producer", itemMutex))
  BY <1>1, <1>4, MutexStep DEF LockStep, Goes, Moves, Worker, At
<1>5. CASE insertItem
  BY <1>1, <1>5, InsertStep DEF insertItem, Goes, Moves
<1>6. CASE LockStep("producer", "upItem", "upFull", mutexUp(itemMutex))
  BY <1>1, <1>6, MutexStep DEF LockStep, Goes, Moves, Worker, At
<1>7. CASE LockStep("producer", "upFull", "produce", semaphoreUp(fullCount))
  BY <1>1, <1>7, SemaphoreStep DEF LockStep, Goes, Moves, Worker, At
<1> QED BY <1>1, <1>2, <1>3, <1>4, <1>5, <1>6, <1>7 DEF producer

LEMMA ConsumerKeepsInv ==
  ASSUME ItemInv, ThreadStep(consumer),
         prodconsAt["consumer"] = "removeItem" => InRing > 0
  PROVE  ItemInv'
<1>1. consumer /\ UNCHANGED <<prodcons, objects, first, leftOver>>
  BY DEF ThreadStep
<1>2. CASE LockStep("consumer", "downFull", "downItem", semaphoreDown("consumer", fullCount))
  BY <1>1, <1>2, SemaphoreStep DEF LockStep, Goes, Moves, Worker, At
<1>3. CASE LockStep("consumer", "downItem", "removeItem", mutexDown("consumer", itemMutex))
  BY <1>1, <1>3, MutexStep DEF LockStep, Goes, Moves, Worker, At
<1>4. CASE removeItem
  BY <1>1, <1>4, RemoveStep DEF removeItem, Goes, Moves
<1>5. CASE LockStep("consumer", "upItem", "upEmpty", mutexUp(itemMutex))
  BY <1>1, <1>5, MutexStep DEF LockStep, Goes, Moves, Worker, At
<1>6. CASE LockStep("consumer", "upEmpty", "downFull", semaphoreUp(emptyCount))
  BY <1>1, <1>6, SemaphoreStep DEF LockStep, Goes, Moves, Worker, At
<1> QED BY <1>1, <1>2, <1>3, <1>4, <1>5, <1>6 DEF consumer

LEMMA IdleKeepsInv ==
  ASSUME ItemInv, UNCHANGED <<syncVars, prodconsVars>>
  PROVE  ItemInv'
<1>1. UNCHANGED <<semaphoreStatus, blockedThreads, prodcons, emptyCount, fullCount, prodconsAt,
                  aux, item, buffer, r, w, consumed, first, leftOver>>
  BY DEF syncVars, prodconsVars, objects, itemRing
<1>2. ItemTypes' /\ Idle' /\ ItemsInOrder'
  BY <1>1 DEF ItemInv, ItemTypes, Semaphores, Idle, ItemsInOrder
<1>3. Counts => Counts'
  BY <1>1 DEF Counts, InRing, Held, ProducerHasSlot, ProducerOwesUp,
              ConsumerHasSlot, ConsumerOwesUp, One
<1>4. RingHoldsItems => RingHoldsItems'
  BY <1>1 DEF RingHoldsItems, InRing, Held, One, Place
<1> QED BY <1>1, <1>2, <1>3, <1>4 DEF ItemInv, Running

LEMMA InitItemInv == SyncInit /\ ProdConsInit => ItemInv
<1> SUFFICES ASSUME SyncInit, ProdConsInit PROVE ItemInv
  OBVIOUS
<1>1. Semaphores
  <2>1. DOMAIN semaphoreStatus = {} /\ 0..(0 - 1) = {}
    BY DEF SyncInit, NoObject
  <2>2. semaphoreStatus = [id \in DOMAIN semaphoreStatus |-> semaphoreStatus[id]]
    BY DEF SyncInit, NoObject
  <2> QED BY <2>1, <2>2 DEF Semaphores
<1>2. ItemTypes
  BY <1>1, Slots DEF ProdConsInit, ItemTypes, Worker, At
<1> QED BY <1>2 DEF ItemInv, Idle, Running, ItemsInOrder, ProdConsInit, Worker

----------------------------------------------------------------------------
(***************************************************************************)
(* The same program seen from one of its threads, whichever it is.         *)
(***************************************************************************)

Other == [producer |-> "consumer", consumer |-> "producer"]
Touch == [producer |-> "insertItem", consumer |-> "removeItem"]
Program(t) == IF t = "producer" THEN producer ELSE consumer

\* The semaphore a thread takes its slots from.
sem(t) == IF t = "producer" THEN emptyCount ELSE fullCount

\* Where it calls semaphoreDown and semaphoreUp.
DownAt(t) == IF t = "producer" THEN "downEmpty" ELSE "downFull"
UpAt(t)   == IF t = "producer" THEN "upFull" ELSE "upEmpty"

\* What insertItem or removeItem has to find.
HasSlot(t) == IF t = "producer" THEN InRing < BUFFERSIZE ELSE InRing > 0

\* What a statement does to the objects is one of six things.
GoesTo(t, from, to) == prodconsAt[t] \in from /\ prodconsAt'[t] \in to

Makes(t)   == GoesTo(t, {"produce"}, {"downEmpty"}) /\ UNCHANGED syncVars
Downs(t)   == GoesTo(t, {DownAt(t)}, {"downItem"}) /\ semaphoreDown(t, sem(t))
Locks(t)   == GoesTo(t, {"downItem"}, {Touch[t]}) /\ mutexDown(t, itemMutex)
Touches(t) == GoesTo(t, {Touch[t]}, {"upItem"}) /\ UNCHANGED syncVars
Unlocks(t) == GoesTo(t, {"upItem"}, {UpAt(t)}) /\ mutexUp(itemMutex)
Ups(t)     == GoesTo(t, {UpAt(t)}, {"produce", "downFull"}) /\ semaphoreUp(sem(Other[t]))

LEMMA StatementKinds ==
  ASSUME ItemInv, NEW t \in Worker, ThreadStep(Program(t))
  PROVE  /\ prodcons # "ended" /\ UNCHANGED <<prodcons, objects>>
         /\ \A u \in Worker : u # t => prodconsAt'[u] = prodconsAt[u]
         /\ Makes(t) \/ Downs(t) \/ Locks(t) \/ Touches(t) \/ Unlocks(t) \/ Ups(t)
<1>1. prodconsAt \in [Worker -> At]
  BY DEF ItemInv, ItemTypes
<1> USE DEF Makes, Downs, Locks, Touches, Unlocks, Ups, GoesTo, DownAt, UpAt
<1>2. CASE t = "producer"
  BY <1>1, <1>2
     DEF Program, ThreadStep, producer, Produce, insertItem, LockStep, Goes, Worker, Touch, Other, sem
<1>3. CASE t = "consumer"
  BY <1>1, <1>3
     DEF Program, ThreadStep, consumer, removeItem, LockStep, Goes, Worker, Touch, Other, sem
<1> QED BY <1>2, <1>3 DEF Worker

(* Only insertItem and removeItem change what is in the ring, and each makes *)
(* room, or an item, for the other thread.                                   *)
LEMMA SlotChanges ==
  ASSUME ItemInv, NEW t \in Worker, ThreadStep(Program(t)),
         prodconsAt[t] = Touch[t] => HasSlot(t)
  PROVE  /\ prodconsAt[t] # Touch[t] => \A u \in Worker : HasSlot(u)' = HasSlot(u)
         /\ prodconsAt[t] = Touch[t] => HasSlot(Other[t])'
         /\ HasSlot(Other[t]) => HasSlot(Other[t])'
<1>1. /\ prodconsAt \in [Worker -> At] /\ aux \in Int /\ first \in Int
      /\ consumed \in Seq(Int) /\ Len(consumed) \in Nat
  BY DEF ItemInv, ItemTypes
<1>2. InRing \in Int /\ 0 <= InRing /\ InRing <= BUFFERSIZE
  BY StatementKinds DEF ItemInv, Running, Counts
<1>3. CASE t = "producer"
  <2>1. first' = first /\ consumed' = consumed
    BY <1>3 DEF Program, ThreadStep, producer, Produce, insertItem, LockStep
  <2>2. aux' - Held' = IF prodconsAt[t] = "insertItem" THEN aux - Held + 1 ELSE aux - Held
    BY <1>1, <1>3
       DEF Program, ThreadStep, producer, Produce, insertItem, LockStep, Goes, Worker, Held, One
  <2>3. Held \in Int /\ Held' \in Int /\ aux' \in Int
    BY <1>1, <1>3
       DEF Program, ThreadStep, producer, Produce, insertItem, LockStep, Held, One
  <2>4. InRing' = IF prodconsAt[t] = "insertItem" THEN InRing + 1 ELSE InRing
    <3>1. /\ InRing = aux - Held - (first + Len(consumed))
          /\ InRing' = aux' - Held' - (first + Len(consumed))
      BY <1>1, <2>1, <2>3 DEF InRing
    <3> DEFINE d == aux - Held
               d2 == aux' - Held'
    <3>2. d \in Int /\ d2 \in Int
      BY <1>1, <2>3
    <3>3. PICK n \in Int : n = first + Len(consumed)
      BY <1>1
    <3>4. InRing = d - n /\ InRing' = d2 - n
      BY <3>1, <3>3
    <3> HIDE DEF d, d2
    <3>5. CASE prodconsAt[t] = "insertItem"
      <4>1. d2 = d + 1
        BY <2>2, <3>5 DEF d, d2
      <4> QED BY <3>2, <3>3, <3>4, <3>5, <4>1
    <3>6. CASE prodconsAt[t] # "insertItem"
      <4>1. d2 = d
        BY <2>2, <3>6 DEF d, d2
      <4> QED BY <3>4, <3>6, <4>1
    <3> QED BY <3>5, <3>6
  <2> QED BY <1>2, <1>3, <2>4, Slots DEF HasSlot, Touch, Other, Worker
<1>4. CASE t = "consumer"
  <2>1. prodconsAt[t] = "removeItem" => Len(consumed') = Len(consumed) + 1
    BY <1>1, <1>4
       DEF Program, ThreadStep, consumer, removeItem, LockStep, Goes
  <2>2. prodconsAt[t] # "removeItem" => consumed' = consumed
    BY <1>1, <1>4
       DEF Program, ThreadStep, consumer, removeItem, LockStep, Goes
  <2>3. aux' = aux /\ first' = first /\ Held' = Held /\ Held \in Int
    BY <1>1, <1>4
       DEF Program, ThreadStep, consumer, removeItem, LockStep, Goes, Worker, Held, One
  <2>4. InRing' = IF prodconsAt[t] = "removeItem" THEN InRing - 1 ELSE InRing
    BY <1>1, <2>1, <2>2, <2>3 DEF InRing
  <2> QED BY <1>2, <1>4, <2>4, Slots DEF HasSlot, Touch, Other, Worker
<1> QED BY <1>3, <1>4 DEF Worker

(* Whoever is about to touch the ring without a slot has its semaphore below *)
(* zero, and further below while the other thread still owes it an up.       *)
LEMMA NoSlotNegative ==
  ASSUME ItemInv, prodcons # "ended", NEW t \in Worker, prodconsAt[t] \in {"downItem", Touch[t]},
         ~HasSlot(t)
  PROVE  /\ semaphoreStatus[sem(t)] < 0
         /\ prodconsAt[Other[t]] \in {"upItem", UpAt(Other[t])} => semaphoreStatus[sem(t)] < -1
<1>1. Counts
  BY DEF ItemInv, Running
<1>2. ConsumerOwesUp \in 0..1 /\ ProducerOwesUp \in 0..1
  BY DEF ConsumerOwesUp, ProducerOwesUp, One
<1>3. CASE t = "producer"
  BY <1>1, <1>2, <1>3, Slots DEF Counts, HasSlot, sem, ProducerHasSlot, ConsumerOwesUp, One, Touch, Other, UpAt
<1>4. CASE t = "consumer"
  BY <1>1, <1>2, <1>4, Slots DEF Counts, HasSlot, sem, ConsumerHasSlot, ProducerOwesUp, One, Touch, Other, UpAt
<1> QED BY <1>3, <1>4 DEF Worker

(* The two semaphores are different ones, and both exist.                    *)
LEMMA SemaphoresApart ==
  ASSUME ItemInv, prodcons # "ended", NEW t \in Worker
  PROVE  /\ sem(t) \in DOMAIN semaphoreStatus /\ sem(Other[t]) \in DOMAIN semaphoreStatus
         /\ sem(t) # sem(Other[t])
         /\ Other[t] \in Worker /\ Other[t] # t /\ \A u \in Worker : u = t \/ u = Other[t]
         /\ Semaphores /\ semaphoreStatus[sem(t)] \in Int
BY DEF ItemInv, ItemTypes, Semaphores, Running, sem, Other, Worker

LEMMA StatementKeepsInv ==
  ASSUME ItemInv, NEW t \in Worker, ThreadStep(Program(t)),
         prodconsAt[t] = Touch[t] => HasSlot(t)
  PROVE  ItemInv'
BY ProducerKeepsInv, ConsumerKeepsInv DEF Worker, Program, Touch, HasSlot

----------------------------------------------------------------------------
(***************************************************************************)
(* Threads that wait when they have to.  A semaphore below zero is then    *)
(* one thread that waits, and whoever takes a step has its slot.           *)
(***************************************************************************)

WaitsBelowZero ==
  prodcons # "ended" =>
    \A t \in Worker : semaphoreStatus[sem(t)] < 0 =>
      prodconsAt[t] = "downItem" /\ <<"semaphore", sem(t), t>> \in blockedThreads

LEMMA NotNegative ==
  ASSUME WaitsBelowZero, prodcons # "ended", NEW t \in Worker, ~Blocked(t)
  PROVE  ~(semaphoreStatus[sem(t)] < 0)
<1>1. <<"semaphore", sem(t), t>>[3] = t
  OBVIOUS
<1> QED BY <1>1 DEF Blocked, WaitsBelowZero

LEMMA StatementKeepsWaits ==
  ASSUME ItemInv, WaitsBelowZero, NEW t \in Worker, ThreadStep(Program(t)), ~Blocked(t)
  PROVE  ItemInv' /\ WaitsBelowZero'
<1> DEFINE u == Other[t]
<1>0. /\ prodcons # "ended" /\ UNCHANGED <<prodcons, objects>>
      /\ prodconsAt'[u] = prodconsAt[u]
  BY StatementKinds, SemaphoresApart
<1>2. ~(semaphoreStatus[sem(t)] < 0)
  BY <1>0, NotNegative
<1> DEFINE entry(v) == <<"semaphore", sem(v), v>>
<1>3. ItemInv'
  BY <1>0, <1>2, NoSlotNegative, StatementKeepsInv
<1> SUFFICES ASSUME NEW v \in Worker, semaphoreStatus'[sem(v)] < 0
             PROVE  prodconsAt'[v] = "downItem" /\ entry(v) \in blockedThreads'
  <2>1. \A v \in Worker : sem(v)' = sem(v)
    BY <1>0 DEF sem, objects
  <2> QED BY <1>3, <2>1 DEF WaitsBelowZero
<1>a. v = t \/ v = u
  BY <1>0, SemaphoresApart
<1>b. semaphoreStatus[sem(v)] < 0 => v = u /\ prodconsAt'[v] = "downItem" /\ entry(v) \in blockedThreads
  BY <1>0, <1>2, <1>a DEF WaitsBelowZero
<1>4. CASE UNCHANGED semaphoreStatus /\ UNCHANGED blockedThreads
  BY <1>4, <1>b
<1>5. CASE mutexDown(t, itemMutex) \/ mutexUp(itemMutex)
  <2>1. UNCHANGED semaphoreStatus
    BY <1>5 DEF mutexDown, mutexUp
  <2>2. entry(v)[1] # "mutex"
    OBVIOUS
  <2>3. entry(v) \in blockedThreads => entry(v) \in blockedThreads'
    BY <1>5, <2>2 DEF mutexDown, mutexUp, Waiting
  <2> QED BY <1>b, <2>1, <2>3
<1>6. CASE semaphoreDown(t, sem(t)) /\ prodconsAt'[t] = "downItem"
  <2>1. semaphoreStatus'[sem(u)] = semaphoreStatus[sem(u)]
    BY <1>0, <1>6, SemaphoresApart, SemaphoreCounts
  <2>2. /\ semaphoreStatus'[sem(t)] < 0 => entry(t) \in blockedThreads'
        /\ blockedThreads \subseteq blockedThreads'
    BY <1>6 DEF semaphoreDown
  <2> QED BY <1>6, <1>a, <1>b, <2>1, <2>2
<1>7. CASE semaphoreUp(sem(u))
  <2>1. /\ semaphoreStatus'[sem(t)] = semaphoreStatus[sem(t)]
        /\ semaphoreStatus'[sem(u)] = semaphoreStatus[sem(u)] + 1
        /\ semaphoreStatus[sem(u)] \in Int
    BY <1>0, <1>7, SemaphoresApart, SemaphoreCounts
  <2>2. semaphoreStatus'[sem(u)] < 0 => UNCHANGED blockedThreads
    BY <1>7 DEF semaphoreUp
  <2> QED BY <1>2, <1>a, <1>b, <2>1, <2>2
<1> QED
  BY <1>4, <1>5, <1>6, <1>7, StatementKinds
     DEF Makes, Downs, Locks, Touches, Unlocks, Ups, GoesTo, syncVars

LEMMA NextItemInv ==
  ASSUME ItemInv, WaitsBelowZero, [StartProdCons \/ ProdConsNext]_<<syncVars, prodconsVars>>
  PROVE  ItemInv' /\ WaitsBelowZero'
<1>1. CASE StartProdCons
  <2>1. ItemInv'
    BY <1>1, StartStep
  <2>2. prodcons' # "ended" /\ \A t \in Worker : prodconsAt'[t] = "none"
    BY <1>1 DEF StartProdCons, ItemInv, Idle
  <2>3. InRing' = 0 /\ Counts'
    BY <1>1, <2>1, <2>2, StartsEmpty DEF ItemInv, Running
  <2>4. semaphoreStatus'[emptyCount'] >= 0 /\ semaphoreStatus'[fullCount'] >= 0
    <3>1. ProducerHasSlot' = 0 /\ ConsumerOwesUp' = 0 /\ ProducerOwesUp' = 0 /\ ConsumerHasSlot' = 0
      BY <2>2 DEF One, ProducerHasSlot, ConsumerOwesUp, ProducerOwesUp, ConsumerHasSlot, Worker
    <3> QED BY <2>3, <3>1, Slots DEF Counts
  <2>5. ~(semaphoreStatus'[emptyCount'] < 0) /\ ~(semaphoreStatus'[fullCount'] < 0)
    <3>1. semaphoreStatus'[emptyCount'] \in Int /\ semaphoreStatus'[fullCount'] \in Int
      BY <2>1, <2>2 DEF ItemInv, ItemTypes, Semaphores, Running
    <3> QED BY <2>4, <3>1
  <2> QED BY <2>1, <2>5 DEF WaitsBelowZero, sem, Worker
<1>2. ASSUME NEW t \in DOMAIN prodconsAt, CreateThread(t) PROVE ItemInv' /\ WaitsBelowZero'
  <2>1. t \in Worker /\ prodconsAt \in [Worker -> At]
    BY DEF ItemInv, ItemTypes
  <2>2. ItemInv'
    BY <1>2, <2>1, CreateStep
  <2>3. \A u \in Worker : prodconsAt[u] = "downItem" => prodconsAt'[u] = "downItem"
    BY <1>2, <2>1 DEF CreateThread
  <2> QED BY <1>2, <2>2, <2>3 DEF CreateThread, WaitsBelowZero, sem, objects, syncVars
<1>3. CASE Quit
  BY <1>3, QuitStep DEF Quit, WaitsBelowZero
<1>4. CASE ProducerStep \/ ConsumerStep
  BY <1>4, StatementKeepsWaits DEF ProducerStep, ConsumerStep, Program, Worker
<1>5. CASE UNCHANGED <<syncVars, prodconsVars>>
  <2>1. UNCHANGED <<semaphoreStatus, blockedThreads, prodcons, emptyCount, fullCount, prodconsAt>>
    BY <1>5 DEF syncVars, prodconsVars, objects
  <2> QED BY <1>5, <2>1, IdleKeepsInv DEF WaitsBelowZero, sem
<1> QED
  BY <1>1, <1>2, <1>3, <1>4, <1>5 DEF ProdConsNext

(* What the consumer takes is what the producer made, in that order, nothing *)
(* twice and nothing left out, for every size of the buffer and every number *)
(* of runs, as long as the run did not begin with items of an earlier one.   *)
THEOREM ItemsStayInOrder == ProdConsSpec => []ItemsInOrder
<1>1. ItemInv => ItemsInOrder
  BY DEF ItemInv
<1>2. SyncInit /\ ProdConsInit => WaitsBelowZero
  BY DEF ProdConsInit, WaitsBelowZero
<1> QED BY <1>1, <1>2, InitItemInv, NextItemInv, PTL DEF ProdConsSpec

(***************************************************************************)
(* Who waits, and why the other one does not.                              *)
(***************************************************************************)
AwaitsSlot(t) ==
  /\ prodconsAt[t] = "downItem" /\ semaphoreStatus[sem(t)] < 0

\* With the mutex, or let in with whoever had it.
Inside(t) == prodconsAt[t] \in {Touch[t], "upItem"} /\ ~Blocked(t)

AwaitsMutex(t) == prodconsAt[t] = Touch[t] /\ Inside(Other[t])

EntryOf(b, t) ==
  \/ b = <<"semaphore", sem(t), t>> /\ AwaitsSlot(t)
  \/ b = <<"mutex", itemMutex, t>> /\ AwaitsMutex(t)

WorkersWait ==
  IF prodcons = "ended" THEN blockedThreads = {}
  ELSE /\ itemMutex \in DOMAIN mutexStatus
       /\ \A b \in blockedThreads : \E t \in Worker : EntryOf(b, t)
       /\ mutexStatus[itemMutex] = "MUTEX_LOCKED" => \E t \in Worker : Inside(t)

(* A thread that waits is in the list with its reason. *)
LEMMA WaitsFor ==
  ASSUME \A b \in blockedThreads : \E t \in Worker : EntryOf(b, t), NEW t \in Worker, Blocked(t)
  PROVE  /\ AwaitsSlot(t) \/ AwaitsMutex(t)
         /\ Inside(Other[t]) \/ <<"semaphore", sem(t), t>> \in blockedThreads
<1>1. PICK b \in blockedThreads : b[3] = t
  BY DEF Blocked
<1>2. PICK v \in Worker : EntryOf(b, v)
  BY <1>1
<1>3. b[3] = v
  BY <1>2 DEF EntryOf
<1> QED BY <1>1, <1>2, <1>3 DEF EntryOf, AwaitsMutex

(* Where a thread is decides what it waits for.  *)
LEMMA StatementsApart ==
  ASSUME NEW t \in Worker
  PROVE  /\ Touch[t] \notin {"downItem", "upItem", "none", "produce", "downEmpty", "downFull"}
         /\ DownAt(t) \notin {"downItem", "upItem", Touch[t]}
         /\ UpAt(t) \notin {"downItem", "upItem", Touch[t]}
BY DEF Touch, DownAt, UpAt, Worker

(* What the five calls do to the list. *)
LEMMA WorkerStatement ==
  ASSUME ItemInv, WorkersWait, NEW t \in Worker, ThreadStep(Program(t)), ~Blocked(t)
  PROVE  WorkersWait'
<1> DEFINE u == Other[t]
<1>0. /\ prodcons # "ended" /\ prodcons' = prodcons /\ itemMutex' = itemMutex
      /\ prodconsAt'[u] = prodconsAt[u] /\ u \in Worker /\ u # t
      /\ \A v \in Worker : v = t \/ v = u
      /\ Other[t] = u /\ Other[u] = t
      /\ \A v \in Worker : sem(v)' = sem(v)
  <2>1. prodcons # "ended" /\ UNCHANGED <<prodcons, objects>>
    BY StatementKinds
  <2>2. /\ u \in Worker /\ u # t /\ \A v \in Worker : v = t \/ v = u
    BY <2>1, SemaphoresApart
  <2>3. \A v \in Worker : sem(v)' = sem(v)
    BY <2>1 DEF sem, objects
  <2>4. Other[u] = t
    BY DEF Other, Worker
  <2> QED BY <2>1, <2>2, <2>3, <2>4, StatementKinds DEF objects
<1>1. /\ itemMutex \in DOMAIN mutexStatus
      /\ \A b \in blockedThreads : \E v \in Worker : EntryOf(b, v)
      /\ mutexStatus[itemMutex] = "MUTEX_LOCKED" => \E v \in Worker : Inside(v)
  BY <1>0 DEF WorkersWait
<1>2. \A b \in blockedThreads : b[3] # t /\ EntryOf(b, u)
  <2>1. SUFFICES ASSUME NEW b \in blockedThreads PROVE b[3] # t /\ EntryOf(b, u)
    OBVIOUS
  <2>2. b[3] # t
    BY DEF Blocked
  <2>3. ~EntryOf(b, t)
    BY <2>2 DEF EntryOf
  <2> QED BY <1>0, <1>1, <2>2, <2>3
<1> HIDE DEF u
<1>3. SUFFICES /\ itemMutex \in DOMAIN mutexStatus'
               /\ \A b \in blockedThreads' : EntryOf(b, t)' \/ EntryOf(b, u)'
               /\ mutexStatus'[itemMutex] = "MUTEX_LOCKED" => Inside(t)' \/ Inside(u)'
  BY <1>0 DEF WorkersWait
<1>4. CASE UNCHANGED syncVars /\ (Makes(t) \/ Touches(t))
  <2>1. UNCHANGED <<mutexStatus, semaphoreStatus, blockedThreads>>
    BY <1>4 DEF syncVars
  <2>2. Inside(t) => Inside(t)'
    BY <1>4, <2>1, StatementsApart DEF Makes, Touches, GoesTo, Inside, Blocked
  <2>3. Inside(u) => Inside(u)'
    BY <1>0, <2>1 DEF Inside, Blocked
  <2>4. \A b : EntryOf(b, u) => EntryOf(b, u)'
    BY <1>0, <2>1, <2>2 DEF EntryOf, AwaitsSlot, AwaitsMutex
  <2> QED BY <1>0, <1>1, <1>2, <2>1, <2>2, <2>3, <2>4
<1>5. CASE Downs(t)
  <2>1. /\ UNCHANGED mutexStatus
        /\ blockedThreads' = IF semaphoreStatus'[sem(t)] < 0
                             THEN blockedThreads \cup {<<"semaphore", sem(t), t>>}
                             ELSE blockedThreads
    BY <1>5 DEF Downs, semaphoreDown
  <2>2. semaphoreStatus'[sem(u)] = semaphoreStatus[sem(u)]
    BY <1>0, <1>5, SemaphoresApart, SemaphoreCounts DEF Downs, u
  <2>3. ~Inside(t) /\ prodconsAt'[t] = "downItem"
    BY <1>5, StatementsApart DEF Downs, GoesTo, Inside
  <2>4. Inside(u) => Inside(u)'
    BY <1>0, <2>1 DEF Inside, Blocked
  <2>5. \A b : EntryOf(b, u) => EntryOf(b, u)'
    BY <1>0, <2>2, <2>3 DEF EntryOf, AwaitsSlot, AwaitsMutex
  <2>6. semaphoreStatus'[sem(t)] < 0 => EntryOf(<<"semaphore", sem(t), t>>, t)'
    BY <1>0, <2>3 DEF EntryOf, AwaitsSlot
  <2> QED BY <1>0, <1>1, <1>2, <2>1, <2>3, <2>4, <2>5, <2>6
<1>6. CASE Locks(t)
  <2>1. /\ prodconsAt[t] = "downItem" /\ prodconsAt'[t] = Touch[t] /\ ~Inside(t)
        /\ UNCHANGED semaphoreStatus /\ mutexDown(t, itemMutex)
    BY <1>6, StatementsApart DEF Locks, GoesTo, Inside, mutexDown
  <2>2. \A b : EntryOf(b, u) => EntryOf(b, u)'
    BY <1>0, <2>1 DEF EntryOf, AwaitsSlot, AwaitsMutex
  <2>3. CASE mutexStatus[itemMutex] = "MUTEX_LOCKED"
    <3>0. PICK e : e = <<"mutex", itemMutex, t>>
      OBVIOUS
    <3>1. blockedThreads' = blockedThreads \cup {e} /\ UNCHANGED mutexStatus
      BY <2>1, <2>3, <3>0 DEF mutexDown
    <3>2. Inside(u)
      BY <1>0, <1>1, <2>1, <2>3
    <3>3. Inside(u)'
      <4>1. e[3] = t
        BY <3>0
      <4> QED BY <1>0, <3>1, <3>2, <4>1 DEF Inside, Blocked
    <3>4. EntryOf(e, t)'
      BY <1>0, <2>1, <3>0, <3>3 DEF EntryOf, AwaitsMutex
    <3> QED BY <1>1, <1>2, <2>2, <3>1, <3>3, <3>4
  <2>4. CASE mutexStatus[itemMutex] # "MUTEX_LOCKED"
    <3>1. /\ UNCHANGED blockedThreads /\ DOMAIN mutexStatus' = DOMAIN mutexStatus
      BY <2>1, <2>4 DEF mutexDown
    <3>2. Inside(t)'
      BY <2>1, <3>1 DEF Inside, Blocked
    <3> QED BY <1>1, <1>2, <2>2, <3>1, <3>2
  <2> QED BY <2>3, <2>4
<1>7. CASE Unlocks(t)
  <2>1. /\ UNCHANGED semaphoreStatus
        /\ blockedThreads' = blockedThreads \ Waiting("mutex", itemMutex)
        /\ mutexStatus' = [mutexStatus EXCEPT ![itemMutex] = "MUTEX_UNLOCKED"]
    BY <1>7 DEF Unlocks, mutexUp
  <2>2. \A b \in blockedThreads' : EntryOf(b, u)'
    <3>1. SUFFICES ASSUME NEW b \in blockedThreads' PROVE EntryOf(b, u)'
      OBVIOUS
    <3>2. b \in blockedThreads /\ ~(b[1] = "mutex" /\ b[2] = itemMutex)
      BY <2>1, <3>1 DEF Waiting
    <3>3. b = <<"semaphore", sem(u), u>> /\ AwaitsSlot(u)
      BY <1>2, <3>2 DEF EntryOf
    <3> QED BY <1>0, <2>1, <3>3 DEF EntryOf, AwaitsSlot
  <2>3. DOMAIN mutexStatus' = DOMAIN mutexStatus /\ mutexStatus'[itemMutex] = "MUTEX_UNLOCKED"
    BY <1>1, <2>1
  <2> QED BY <1>1, <2>2, <2>3
<1>8. CASE Ups(t)
  <2>1. /\ UNCHANGED mutexStatus /\ semaphoreUp(sem(u))
        /\ ~Inside(t)
    BY <1>8, StatementsApart DEF Ups, GoesTo, Inside, semaphoreUp, u
  <2>2. blockedThreads' \subseteq blockedThreads
    BY <2>1 DEF semaphoreUp
  <2>3. Inside(u) => Inside(u)'
    BY <1>0, <2>2 DEF Inside, Blocked
  <2>4. \A b \in blockedThreads : b = <<"semaphore", sem(u), u>> /\ AwaitsSlot(u)
    BY <1>0, <1>2, <2>1 DEF EntryOf, AwaitsMutex
  <2>5. CASE semaphoreStatus'[sem(u)] < 0
    <3>1. AwaitsSlot(u)' \/ blockedThreads = {}
      BY <1>0, <2>4, <2>5 DEF AwaitsSlot
    <3>2. \A b \in blockedThreads' : EntryOf(b, u)'
      BY <1>0, <2>2, <2>4, <3>1 DEF EntryOf
    <3> QED BY <1>0, <1>1, <2>1, <2>3, <3>2
  <2>6. CASE ~(semaphoreStatus'[sem(u)] < 0)
    <3>1. blockedThreads' = blockedThreads \ Waiting("semaphore", sem(u))
      BY <2>1, <2>6 DEF semaphoreUp
    <3>2. \A b \in blockedThreads : b[1] = "semaphore" /\ b[2] = sem(u)
      BY <2>4
    <3>3. blockedThreads' = {}
      BY <3>1, <3>2 DEF Waiting
    <3> QED BY <1>0, <1>1, <2>1, <2>3, <3>3
  <2> QED BY <2>5, <2>6
<1> QED BY <1>4, <1>5, <1>6, <1>7, <1>8, StatementKinds DEF Makes, Touches

LEMMA NextWorkersWait ==
  ASSUME ItemInv, WorkersWait, [StartProdCons \/ ProdConsNext]_<<syncVars, prodconsVars>>
  PROVE  WorkersWait'
<1>1. CASE StartProdCons
  <2>1. PICK m : m = itemMutex'
    OBVIOUS
  <2>2. /\ prodcons' # "ended" /\ blockedThreads' = {}
        /\ mutexStatus' = withObject(mutexStatus, m, "MUTEX_UNLOCKED")
    BY <1>1, <2>1 DEF StartProdCons, WorkersWait
  <2>3. m \in DOMAIN mutexStatus' /\ mutexStatus'[m] = "MUTEX_UNLOCKED"
    BY <2>2 DEF withObject
  <2> QED BY <2>1, <2>2, <2>3 DEF WorkersWait
<1>2. ASSUME NEW t \in DOMAIN prodconsAt, CreateThread(t) PROVE WorkersWait'
  <2>1. t \in Worker /\ prodconsAt \in [Worker -> At]
    BY DEF ItemInv, ItemTypes
  <2>2. /\ prodcons # "ended" /\ prodcons' # "ended" /\ prodconsAt[t] = "none"
        /\ \A v \in Worker \ {t} : prodconsAt'[v] = prodconsAt[v]
        /\ UNCHANGED <<mutexStatus, semaphoreStatus, blockedThreads, itemMutex, emptyCount, fullCount>>
    BY <1>2, <2>1 DEF CreateThread, syncVars, objects
  <2>3. \A v \in Worker : Inside(v) => Inside(v)'
    BY <2>1, <2>2, StatementsApart DEF Inside, Blocked
  <2>4. \A v \in Worker : sem(v)' = sem(v) /\ Other[v] \in Worker
    BY <2>2 DEF sem, Other, Worker
  <2>5. \A v \in Worker : prodconsAt[v] \in {"downItem", Touch[v]} => prodconsAt'[v] = prodconsAt[v]
    BY <2>2, StatementsApart
  <2>6. \A v \in Worker : (AwaitsSlot(v) => AwaitsSlot(v)') /\ (AwaitsMutex(v) => AwaitsMutex(v)')
    BY <2>2, <2>3, <2>4, <2>5 DEF AwaitsSlot, AwaitsMutex
  <2>7. \A b : \A v \in Worker : EntryOf(b, v) => EntryOf(b, v)'
    BY <2>2, <2>4, <2>6 DEF EntryOf
  <2> QED BY <2>2, <2>3, <2>7 DEF WorkersWait
<1>3. CASE Quit
  <2>1. /\ prodcons # "ended" /\ prodcons' = "ended"
        /\ blockedThreads' = {b \in blockedThreads : b[3] \notin DOMAIN prodconsAt}
        /\ DOMAIN prodconsAt = Worker
    BY <1>3 DEF Quit, ItemInv, ItemTypes
  <2>2. \A b \in blockedThreads : b[3] \in Worker
    BY <2>1 DEF WorkersWait, EntryOf
  <2>3. blockedThreads' = {}
    BY <2>1, <2>2
  <2> QED BY <2>1, <2>3 DEF WorkersWait
<1>4. CASE ProducerStep \/ ConsumerStep
  BY <1>4, WorkerStatement DEF ProducerStep, ConsumerStep, Program, Worker
<1>5. CASE UNCHANGED <<syncVars, prodconsVars>>
  <2>1. UNCHANGED <<mutexStatus, semaphoreStatus, blockedThreads, prodcons, itemMutex,
                    emptyCount, fullCount, prodconsAt>>
    BY <1>5 DEF syncVars, prodconsVars, objects
  <2> QED BY <2>1 DEF WorkersWait, EntryOf, AwaitsSlot, AwaitsMutex, Inside, Blocked, sem
<1> QED
  BY <1>1, <1>2, <1>3, <1>4, <1>5 DEF ProdConsNext

LEMMA OneIsAwake == ItemInv /\ WorkersWait => SomeWorkerRuns
<1> SUFFICES ASSUME ItemInv, WorkersWait, prodcons # "ended", \A t \in Worker : Blocked(t)
             PROVE  FALSE
  BY DEF SomeWorkerRuns, ItemInv, ItemTypes
<1>1. \A t \in Worker : AwaitsSlot(t) \/ AwaitsMutex(t)
  BY WaitsFor DEF WorkersWait
<1>2. \A t \in Worker : Other[t] \in Worker /\ ~AwaitsMutex(t)
  BY DEF AwaitsMutex, Inside, Other, Worker
<1>3. AwaitsSlot("producer") /\ AwaitsSlot("consumer")
  BY <1>1, <1>2 DEF Worker
<1>4. /\ ProducerHasSlot = 1 /\ ConsumerOwesUp = 0 /\ ProducerOwesUp = 0 /\ ConsumerHasSlot = 1
      /\ semaphoreStatus[emptyCount] < 0 /\ semaphoreStatus[fullCount] < 0
  BY <1>3 DEF AwaitsSlot, sem, ProducerHasSlot, ConsumerOwesUp, ProducerOwesUp, ConsumerHasSlot, One
<1>5. Counts
  BY DEF ItemInv, Running
<1> QED BY <1>4, <1>5, Slots DEF Counts

(* Producer and consumer never both wait, for every size of the buffer and    *)
(* every number of runs (shell.c:238-297).                                    *)
THEOREM ProdConsDoesNotDeadlock == ProdConsSpec => []SomeWorkerRuns
<1>1. SyncInit /\ ProdConsInit => WaitsBelowZero /\ WorkersWait
  BY DEF SyncInit, ProdConsInit, WaitsBelowZero, WorkersWait
<1>2. ItemInv /\ WaitsBelowZero /\ WorkersWait /\ [StartProdCons \/ ProdConsNext]_<<syncVars, prodconsVars>>
        => (ItemInv /\ WaitsBelowZero /\ WorkersWait)'
  BY NextItemInv, NextWorkersWait
<1> QED BY <1>1, <1>2, InitItemInv, OneIsAwake, PTL DEF ProdConsSpec

(***************************************************************************)
(* On the scheduler of the kernel.                                         *)
(*                                                                         *)
(* A thread that has to wait may go on: when its process loses the         *)
(* processor around its yield(), it comes back blocked and running.  Then  *)
(* it has one tick, whose end or whose next yield() takes it off (Cornered),*)
(* and in that tick it gets as far as its mutexDown.  Whoever touches the  *)
(* ring therefore has its slot, and ItemInv holds.                         *)
(***************************************************************************)
Listed(t) == <<"mutex", itemMutex, t>> \in blockedThreads
AtSemaphore(t) == <<"semaphore", sem(t), t>> \in blockedThreads

(* The lists of the two programs, and the threads of the process.            *)
Lists ==
  /\ \A b \in blockedThreads : b = <<b[1], b[2], b[3]>> /\ b[3] \in Worker
  /\ prodcons = "ended" => blockedThreads = {}
  /\ prodcons # "ended" => itemMutex \in DOMAIN mutexStatus

Created ==
  /\ state[PROGRAM] # "DEAD"
  /\ prodcons # "ended" \/ PROGRAM \in queue => currentPid > PROGRAM
  /\ prodconsAt["producer"] = "none" => prodconsAt["consumer"] = "none"
  /\ currentPid > PROGRAM =>
       currentPThread[PROGRAM] = IF prodconsAt["producer"] = "none" THEN 1
                                 ELSE IF prodconsAt["consumer"] = "none" THEN 2 ELSE 3

(* Nobody waits at itemMutex who could be let in without a slot: a thread    *)
(* only waits there while the other one, which has just made room, is inside.*)
MutexAt(t) ==
  /\ Listed(t) => prodconsAt[t] \in {Touch[t], "upItem"}
  /\ prodconsAt[Other[t]] = "upItem" /\ mutexStatus[itemMutex] = "MUTEX_LOCKED"
       /\ prodconsAt[t] \notin {Touch[t], "upItem"} => HasSlot(t)
  /\ prodconsAt[Other[t]] = "upItem" /\ Listed(t) /\ prodconsAt[t] = Touch[t] => HasSlot(t)

(* Blocked at the semaphore, before it has touched the ring.                 *)
WaitsForSlot(t) ==
  Asleep(t) /\ prodconsAt[t] \in {"downItem", Touch[t]} /\ semaphoreStatus[sem(t)] < 0

SleepsAt(t) ==
  /\ prodconsAt[t] = "downItem" /\ semaphoreStatus[sem(t)] < 0 => Asleep(t)
  /\ prodconsAt[t] = Touch[t] /\ ~HasSlot(t) => Asleep(t)
  /\ Asleep(t) => Listed(t) \/ (WaitsForSlot(t) /\ AtSemaphore(t))

(* Its tick is used up.  Before its mutexDown it may still be given the      *)
(* processor, with a new quantum; after it, it owes a yield() that takes it  *)
(* off, or it is off and its process blocked.                                *)
Cornered(t) ==
  WaitsForSlot(t) /\ currentThread[PROGRAM] = Tid[t] =>
    /\ threadTick[PROGRAM] = THREAD_QUANTUM
    /\ IF prodconsAt[t] = "downItem"
       THEN currentProcess = PROGRAM /\ <<PROGRAM, Tid[t]>> \notin owesYield => numberOfTicks = 0
       ELSE IF currentProcess = PROGRAM
       THEN <<PROGRAM, Tid[t]>> \in owesYield
            /\ (numberOfTicks = 0 \/ state[PROGRAM] = "BLOCKED_MUTEX")
       ELSE state[PROGRAM] = "BLOCKED_MUTEX"

WorkerInv(t) == MutexAt(t) /\ SleepsAt(t) /\ Cornered(t)

KernelInv ==
  /\ IInv /\ ThreadsInv /\ ItemInv
  /\ Lists /\ Created
  /\ \A t \in Worker : WorkerInv(t)

LEMMA Numbers ==
  /\ PROGRAM = 2 /\ SHELL = 1 /\ PROGRAM \in Pid /\ SHELL \in Pid
  /\ Tid["producer"] = 1 /\ Tid["consumer"] = 2
  /\ \A t \in Worker : Tid[t] \in Pthread /\ Tid[t] # 0
  /\ \A t, u \in Worker : Tid[t] = Tid[u] => t = u
  /\ DOMAIN Tid = Worker
  /\ "T_BLOCKED_IO" \in BlockTypes /\ "T_BLOCKED_MUTEX" \in BlockTypes
  /\ QUANTUM \in Nat /\ THREAD_QUANTUM \in Nat /\ QUANTUM > 0
BY KernelAssumption, BoundsAssumption, QuantumAssumption, Identifiers
   DEF PROGRAM, SHELL, Tid, Worker, Pthread

----------------------------------------------------------------------------
(* Switching threads and processes, on behalf of whomever, wakes nobody and  *)
(* puts no sleeper on the processor.                                         *)
LEMMA RunSchedulerSleep ==
  ASSUME IInv, NEW ticks, NEW tick, runScheduler(ticks, tick), NEW p \in Pid, NEW v \in Pthread
  PROVE  /\ (tstate'[p][v] = "T_BLOCKED_MUTEX") <=> (tstate[p][v] = "T_BLOCKED_MUTEX")
         /\ tstate[p][v] = "T_BLOCKED_MUTEX" /\ currentThread'[p] = v =>
              /\ currentThread[p] = v
              /\ quantumLeft(ticks) /\ p = currentProcess => tick < THREAD_QUANTUM
<1> DEFINE c == currentProcess
           ts == IF tstate[c][currentThread[c]] = "T_RUNNING"
                   THEN [tstate[c] EXCEPT ![currentThread[c]] = "T_READY"]
                   ELSE tstate[c]
<1>1. /\ c \in Pid /\ c \in queue
      /\ tstate \in [Pid -> [Pthread -> threadState]]
      /\ currentThread \in [Pid -> Pthread]
  BY DEF IInv, TypeOK
<1>2. CASE tick >= THREAD_QUANTUM /\ nextThread
  <2>1. PICK t \in threadsOf(c) :
          /\ ts[t] = "T_READY"
          /\ currentThread' = [currentThread EXCEPT ![c] = t]
          /\ tstate' = [tstate EXCEPT ![c] = [ts EXCEPT ![t] = "T_RUNNING"]]
    BY <1>2 DEF nextThread, IsNextThread, IsNextIn
  <2>2. t \in Pthread
    BY <1>1, <2>1, ThreadsArePthreads
  <2>3. ts \in [Pthread -> threadState]
    BY <1>1, StateTypes
  <2>4. (ts[v] = "T_BLOCKED_MUTEX") <=> (tstate[c][v] = "T_BLOCKED_MUTEX")
    BY <1>1
  <2> HIDE DEF ts
  <2>5. (tstate'[p][v] = "T_BLOCKED_MUTEX") <=> (tstate[p][v] = "T_BLOCKED_MUTEX")
    BY <1>1, <2>1, <2>2, <2>3, <2>4
  <2>6. p = c /\ currentThread'[p] = v => v = t
    BY <1>1, <2>1
  <2>7. tstate[p][v] = "T_BLOCKED_MUTEX" /\ currentThread'[p] = v => p # c
    BY <2>1, <2>4, <2>6
  <2>8. p # c => currentThread'[p] = currentThread[p]
    BY <1>1, <2>1
  <2> QED BY <2>5, <2>7, <2>8
<1>3. CASE UNCHANGED <<tstate, currentThread>> /\ tick < THREAD_QUANTUM
  BY <1>3
<1>4. CASE UNCHANGED <<tstate, currentThread>> /\ ~quantumLeft(ticks)
  BY <1>4
<1> QED BY <1>2, <1>3, <1>4 DEF runScheduler, threadCheck, processSwitch

(* Steps that neither wake a sleeper nor move a thread of the program.       *)
LEMMA SamePlaces ==
  ASSUME NEW t \in Worker, MutexAt(t), SleepsAt(t), UNCHANGED <<syncVars, prodconsVars>>,
         Asleep(t)' <=> Asleep(t)
  PROVE  MutexAt(t)' /\ SleepsAt(t)' /\ (WaitsForSlot(t)' <=> WaitsForSlot(t))
BY DEF MutexAt, SleepsAt, WaitsForSlot, Listed, AtSemaphore, HasSlot, sem, InRing, Held, One,
       syncVars, prodconsVars, objects

(* The tick or the yield() takes a cornered thread off.                      *)
LEMMA ScheduleKeepsCornered ==
  ASSUME IInv, ThreadsInv, state[PROGRAM] # "DEAD", NEW t \in Worker, Cornered(t),
         WaitsForSlot(t)' <=> WaitsForSlot(t), UNCHANGED prodconsAt,
         Tick \/ Yield
  PROVE  Cornered(t)'
<1> USE Numbers
<1> DEFINE c == currentProcess
           v == Tid[t]
<1> SUFFICES ASSUME WaitsForSlot(t), currentThread'[PROGRAM] = v
             PROVE  /\ threadTick'[PROGRAM] = THREAD_QUANTUM
                    /\ prodconsAt[t] = "downItem" =>
                         (currentProcess' = PROGRAM /\ <<PROGRAM, v>> \notin owesYield' => numberOfTicks' = 0)
                    /\ prodconsAt[t] # "downItem" =>
                         currentProcess' # PROGRAM /\ state'[PROGRAM] = "BLOCKED_MUTEX"
  BY DEF Cornered
<1>0. /\ c \in Pid /\ c \in queue /\ v \in Pthread
      /\ state \in [Pid -> processState] /\ threadTick \in [Pid -> 0..THREAD_QUANTUM]
      /\ tstate[PROGRAM][v] = "T_BLOCKED_MUTEX"
  BY DEF IInv, TypeOK, WaitsForSlot, Asleep
<1>1. ASSUME NEW ticks, NEW tick, runScheduler(ticks, tick),
             c = PROGRAM => tick = THREAD_QUANTUM,
             c = PROGRAM /\ ~quantumLeft(ticks) => numberOfTicks # 0 \/ isProcessBlocked(state[PROGRAM])
      PROVE  /\ threadTick'[PROGRAM] = THREAD_QUANTUM
             /\ prodconsAt[t] = "downItem" =>
                  (currentProcess' = PROGRAM /\ <<PROGRAM, v>> \notin owesYield' => numberOfTicks' = 0)
             /\ prodconsAt[t] # "downItem" =>
                  currentProcess' # PROGRAM /\ state'[PROGRAM] = "BLOCKED_MUTEX"
  <2>1. /\ currentThread[PROGRAM] = v
        /\ quantumLeft(ticks) /\ c = PROGRAM => tick < THREAD_QUANTUM
    BY <1>0, <1>1, RunSchedulerSleep
  <2>2. quantumLeft(ticks) => c # PROGRAM
    BY <1>1, <2>1
  <2>3. /\ threadTick[PROGRAM] = THREAD_QUANTUM
        /\ c # PROGRAM /\ prodconsAt[t] # "downItem" => state[PROGRAM] = "BLOCKED_MUTEX"
        /\ c = PROGRAM /\ prodconsAt[t] # "downItem" =>
             numberOfTicks = 0 \/ state[PROGRAM] = "BLOCKED_MUTEX"
    BY <2>1 DEF Cornered
  <2>4. CASE quantumLeft(ticks)
    <3>1. UNCHANGED <<currentProcess, state>> /\ threadTick'[PROGRAM] = threadTick[PROGRAM]
      BY <1>0, <1>1, <2>2, <2>4 DEF runScheduler, threadCheck
    <3> QED BY <2>2, <2>3, <2>4, <3>1
  <2>5. CASE ~quantumLeft(ticks)
    <3>1. processSwitch(tick)
      BY <1>1, <2>5 DEF runScheduler
    <3>2. PICK p \in queue :
            requeue[p] = "READY" /\ currentProcess' = p /\ state' = [requeue EXCEPT ![p] = "RUNNING"]
      BY <3>1 DEF processSwitch, IsNextProcess, IsNextIn
    <3>3. numberOfTicks' = 0 /\ threadTick'[PROGRAM] = THREAD_QUANTUM
      BY <1>0, <1>1, <2>3, <3>1 DEF processSwitch
    <3>4. ASSUME prodconsAt[t] # "downItem" PROVE state[PROGRAM] = "BLOCKED_MUTEX"
      <4>1. CASE c = PROGRAM /\ numberOfTicks = 0
        BY <1>1, <2>5, <4>1 DEF ThreadsInv
      <4> QED BY <2>3, <3>4, <4>1
    <3>5. ASSUME state[PROGRAM] = "BLOCKED_MUTEX"
          PROVE  currentProcess' # PROGRAM /\ state'[PROGRAM] = "BLOCKED_MUTEX"
      <4>1. requeue[PROGRAM] = "BLOCKED_MUTEX"
        BY <1>0, <3>5 DEF requeue
      <4>2. requeue \in [Pid -> processState]
        BY <1>0, StateTypes DEF requeue
      <4> QED BY <3>2, <4>1, <4>2
    <3> QED BY <3>3, <3>4, <3>5
  <2> QED BY <2>4, <2>5
<1>2. currentThread[PROGRAM] = v => threadTick[PROGRAM] = THREAD_QUANTUM
  BY DEF Cornered
<1>3. CASE Tick
  <2>1. runScheduler(numberOfTicks, threadTick[c])
    BY <1>3 DEF Tick
  <2>2. currentThread[PROGRAM] = v
    BY <1>0, <2>1, RunSchedulerSleep
  <2>3. ~quantumLeft(numberOfTicks) => numberOfTicks # 0
    BY DEF quantumLeft
  <2> QED BY <1>1, <1>2, <2>1, <2>2, <2>3
<1>4. CASE Yield
  <2>1. CASE yieldLeaves(state[c]) /\ runScheduler(QUANTUM, threadTick[c])
    <3>1. currentThread[PROGRAM] = v
      BY <1>0, <2>1, RunSchedulerSleep
    <3>2. c = PROGRAM => isProcessBlocked(state[PROGRAM])
      BY <2>1 DEF yieldLeaves
    <3> QED BY <1>1, <1>2, <2>1, <3>1, <3>2
  <2>2. CASE runScheduler(numberOfTicks, THREAD_QUANTUM)
    <3>1. ~quantumLeft(numberOfTicks) => numberOfTicks # 0
      BY DEF quantumLeft
    <3> QED BY <1>1, <2>2, <3>1
  <2>3. CASE /\ ~(isThreadBlocked(tstate[c][getCurrentPthread]))
             /\ UNCHANGED <<queue, queueSize, currentProcess, numberOfTicks,
                            currentPid, state, freed, threadVars>>
    <3>1. currentThread[PROGRAM] = v /\ c # PROGRAM
      BY <1>0, <2>3 DEF threadVars, getCurrentPthread, isThreadBlocked, ThreadBlockedStates
    <3>2. /\ threadTick[PROGRAM] = THREAD_QUANTUM
          /\ prodconsAt[t] # "downItem" => state[PROGRAM] = "BLOCKED_MUTEX"
      BY <3>1 DEF Cornered
    <3> QED BY <2>3, <3>1, <3>2 DEF threadVars
  <2> QED BY <1>4, <2>1, <2>2, <2>3 DEF Yield
<1> QED BY <1>3, <1>4

LEMMA ScheduleSleep ==
  ASSUME IInv, Tick \/ Yield, NEW p \in Pid, NEW v \in Pthread
  PROVE  (tstate'[p][v] = "T_BLOCKED_MUTEX") <=> (tstate[p][v] = "T_BLOCKED_MUTEX")
BY RunSchedulerSleep DEF Tick, Yield, threadVars

----------------------------------------------------------------------------
(***************************************************************************)
(* Steps of the kernel, of the shell and of the main thread.               *)
(***************************************************************************)

\* What they leave alone.
Aside ==
  /\ UNCHANGED <<syncVars, prodconsVars>>
  /\ IInv' /\ ThreadsInv' /\ Created'
  /\ \A t \in Worker : Asleep(t)' <=> Asleep(t)

LEMMA AsideKeepsInv ==
  ASSUME KernelInv, Aside, \A t \in Worker : WaitsForSlot(t) => Cornered(t)'
  PROVE  KernelInv'
<1>1. ASSUME NEW t \in Worker PROVE WorkerInv(t)'
  <2>1. MutexAt(t)' /\ SleepsAt(t)' /\ (WaitsForSlot(t)' <=> WaitsForSlot(t))
    BY SamePlaces DEF KernelInv, WorkerInv, Aside
  <2>2. Cornered(t)'
    BY <2>1 DEF Aside, Cornered
  <2> QED BY <2>1, <2>2 DEF WorkerInv
<1>2. Lists'
  BY DEF KernelInv, Aside, Lists, syncVars, prodconsVars, objects
<1>3. ItemInv'
  BY IdleKeepsInv DEF KernelInv, Aside
<1> QED BY <1>1, <1>2, <1>3 DEF KernelInv, Aside

LEMMA ScheduleInv == ASSUME KernelInv, Schedule PROVE KernelInv'
<1>1. (Tick \/ Yield) /\ UNCHANGED <<syncVars, prodconsVars>>
  BY DEF Schedule
<1>2. IInv' /\ ThreadsInv'
  BY <1>1, NextIInv, QuietThreadsInv DEF KernelInv, Next, QuietStep
<1>3. /\ UNCHANGED <<currentPid, currentPThread>> /\ queue' \subseteq queue
      /\ state'[PROGRAM] # "DEAD"
  <2>1. ASSUME NEW ticks, NEW tick, runScheduler(ticks, tick)
        PROVE  /\ UNCHANGED <<currentPid, currentPThread>> /\ queue' \subseteq queue
               /\ state'[PROGRAM] # "DEAD"
    BY <2>1, Numbers DEF runScheduler, processSwitch, removeDeadProcess, requeue, KernelInv, Created, IInv, TypeOK
  <2> QED BY <1>1, <2>1 DEF Tick, Yield, threadVars, KernelInv, Created
<1>4. Created'
  BY <1>1, <1>3 DEF KernelInv, Created, prodconsVars
<1>5. ASSUME NEW t \in Worker PROVE Asleep(t)' <=> Asleep(t)
  BY <1>1, ScheduleSleep, Numbers DEF Asleep, KernelInv
<1>6. Aside
  BY <1>1, <1>2, <1>4, <1>5 DEF Aside
<1>7. ASSUME NEW t \in Worker PROVE Cornered(t)'
  <2>1. WaitsForSlot(t)' <=> WaitsForSlot(t)
    BY <1>1, <1>5, SamePlaces DEF KernelInv, WorkerInv
  <2> QED BY <1>1, <2>1, ScheduleKeepsCornered DEF KernelInv, WorkerInv, Created, prodconsVars
<1> QED BY <1>6, <1>7, AsideKeepsInv

(* Who can make a call is not blocked.                                       *)
LEMMA CallerRuns ==
  ASSUME ThreadsInv, CanCall PROVE ~isProcessBlocked(state[currentProcess])
BY DEF ThreadsInv, CanCall

LEMMA NotStarted ==
  ASSUME KernelInv, prodcons = "ended", NEW t \in Worker
  PROVE  prodconsAt[t] = "none" /\ ~WaitsForSlot(t) /\ ~Listed(t) /\ ~Asleep(t)
BY DEF KernelInv, ItemInv, Idle, Lists, WorkerInv, SleepsAt, WaitsForSlot, Listed, AtSemaphore, Touch, Worker

(* The thread that starts the program creates it, and then is blocked.       *)
LEMMA ShellInv == ASSUME KernelInv, Shell PROVE KernelInv'
<1> USE Numbers
<1>0. /\ currentProcess = SHELL /\ CanCall
      /\ UNCHANGED <<syncVars, prodconsVars>>
  BY DEF Shell, OnProcessor
<1>a. /\ state \in [Pid -> processState] /\ queue \subseteq Pid
      /\ tstate \in [Pid -> [Pthread -> threadState]]
      /\ currentPThread \in [Pid -> 0..MaxThreads]
      /\ getCurrentPthread \in Pthread
  BY DEF KernelInv, IInv, TypeOK, getCurrentPthread
<1>1. CASE currentPid = PROGRAM /\ AddProcess
  <2>1. IInv' /\ ThreadsInv'
    BY <1>1, NextIInv, QuietThreadsInv DEF KernelInv, Next, QuietStep
  <2>2. prodcons = "ended"
    BY <1>1 DEF KernelInv, Created
  <2>3. /\ currentPid' > PROGRAM /\ state'[PROGRAM] = "READY" /\ currentPThread'[PROGRAM] = 1
        /\ \A v \in Pthread : v # 0 => tstate'[PROGRAM][v] = tstate[PROGRAM][v]
    BY <1>1, <1>a DEF AddProcess
  <2>4. \A t \in Worker : prodconsAt[t] = "none"
    BY <2>2, NotStarted
  <2>5. Created'
    BY <1>0, <2>3, <2>4 DEF Created, prodconsVars, Worker
  <2>6. Aside
    BY <1>0, <2>1, <2>3, <2>5 DEF Aside, Asleep
  <2> QED BY <2>2, <2>6, NotStarted, AsideKeepsInv
<1>2. CASE currentPid > PROGRAM /\ Block("T_BLOCKED_IO")
  <2>1. IInv' /\ ThreadsInv'
    BY <1>2, NextIInv, QuietThreadsInv DEF KernelInv, Next, QuietStep
  <2>2. /\ tstate' = [tstate EXCEPT ![SHELL][getCurrentPthread] = "T_BLOCKED_IO"]
        /\ threadTick' = [threadTick EXCEPT ![SHELL] = THREAD_QUANTUM]
        /\ UNCHANGED <<queue, currentProcess, currentPid, currentPThread, currentThread>>
        /\ \/ state' = [state EXCEPT ![SHELL] = getBlockProcessType("T_BLOCKED_IO")]
           \/ UNCHANGED state
    BY <1>0, <1>2 DEF Block, blockThread, blockProcess
  <2>3. /\ tstate'[PROGRAM] = tstate[PROGRAM] /\ threadTick'[PROGRAM] = threadTick[PROGRAM]
        /\ state'[PROGRAM] = state[PROGRAM]
    BY <1>a, <2>2 DEF KernelInv, IInv, TypeOK
  <2>4. Created'
    BY <1>0, <2>2, <2>3 DEF KernelInv, Created, prodconsVars
  <2>5. Aside
    BY <1>0, <2>1, <2>3, <2>4 DEF Aside, Asleep
  <2>6. ASSUME NEW t \in Worker, WaitsForSlot(t) PROVE Cornered(t)'
    BY <1>0, <2>2, <2>3, <2>6 DEF KernelInv, WorkerInv, Cornered, prodconsVars
  <2> QED BY <2>5, <2>6, AsideKeepsInv
<1> QED BY <1>1, <1>2 DEF Shell

(* The main thread is on the processor, so no worker of its process is.      *)
LEMMA MainCorners ==
  ASSUME OnProcessor(PROGRAM, 0), UNCHANGED currentThread, NEW t \in Worker
  PROVE  Cornered(t)'
BY Numbers DEF OnProcessor, getCurrentPthread, Cornered

LEMMA ControlInv == ASSUME KernelInv, Control PROVE KernelInv'
<1> USE Numbers
<1>0. /\ currentProcess = PROGRAM /\ CanCall /\ getCurrentPthread = 0 /\ OnProcessor(PROGRAM, 0)
      /\ UNCHANGED <<syncVars, prodconsVars>>
  BY DEF Control, OnProcessor
<1>a. /\ state \in [Pid -> processState]
      /\ tstate \in [Pid -> [Pthread -> threadState]]
  BY DEF KernelInv, IInv, TypeOK
<1>1. CASE Block("T_BLOCKED_IO")
  <2>1. IInv' /\ ThreadsInv'
    BY <1>1, NextIInv, QuietThreadsInv DEF KernelInv, Next, QuietStep
  <2>2. /\ tstate' = [tstate EXCEPT ![PROGRAM][0] = "T_BLOCKED_IO"]
        /\ UNCHANGED <<queue, currentPid, currentPThread, currentThread>>
        /\ \/ state' = [state EXCEPT ![PROGRAM] = getBlockProcessType("T_BLOCKED_IO")]
           \/ UNCHANGED state
    BY <1>0, <1>1 DEF Block, blockThread, blockProcess
  <2>3. state'[PROGRAM] # "DEAD"
    BY <1>a, <2>2 DEF KernelInv, Created, getBlockProcessType
  <2>4. Created'
    BY <1>0, <2>2, <2>3 DEF KernelInv, Created, prodconsVars
  <2>5. \A t \in Worker : Asleep(t)' <=> Asleep(t)
    BY <1>a, <2>2 DEF Asleep
  <2>6. Aside
    BY <1>0, <2>1, <2>4, <2>5 DEF Aside
  <2> QED BY <1>0, <2>2, <2>6, MainCorners, AsideKeepsInv
<1>2. CASE /\ ThenYield
           /\ UNCHANGED <<queue, queueSize, currentProcess, numberOfTicks, currentPid,
                          state, threadVars, freed>>
  <2>1. owesYield \subseteq owesYield' /\ owesYield' \subseteq Pid \X Pthread
    BY <1>0, <1>2, Identifiers DEF ThenYield, KernelInv, IInv, TypeOK
  <2>2. IInv'
    BY <1>2, <2>1 DEF KernelInv, IInv, TypeOK, RunningIsCurrent, InitAlive, Runnable, CountersBounded, threadVars
  <2>3. ThreadsInv'
    BY <1>2, <2>1 DEF KernelInv, ThreadsInv, HasReady, threadsOf, threadVars, getCurrentPthread
  <2>4. Created'
    BY <1>0, <1>2 DEF KernelInv, Created, prodconsVars, threadVars
  <2>5. Aside
    BY <1>0, <1>2, <2>2, <2>3, <2>4 DEF Aside, Asleep, threadVars
  <2> QED BY <1>0, <1>2, <2>5, MainCorners, AsideKeepsInv DEF threadVars
<1> QED BY <1>1, <1>2 DEF Control

(* The keyboard wakes the main thread, if there is one.                      *)
LEMMA KeyInv == ASSUME KernelInv, Key PROVE KernelInv'
<1> USE Numbers
<1>a. /\ state \in [Pid -> processState] /\ currentProcess \in queue /\ queue \subseteq Pid
      /\ tstate \in [Pid -> [Pthread -> threadState]]
  BY DEF KernelInv, IInv, TypeOK
<1>1. /\ UNCHANGED <<syncVars, prodconsVars>>
      /\ UNCHANGED <<queue, queueSize, currentProcess, numberOfTicks, currentPid,
                     threadTick, threadSize, currentThread, currentPThread, freed, owesYield>>
      /\ UnblockAll(PROGRAM, "T_BLOCKED_IO")
  BY DEF Key, UnblockAll
<1>2. /\ state' = state \/ state' = [state EXCEPT ![PROGRAM] = IF @ = "BLOCKED_IO" THEN "READY" ELSE @]
      /\ tstate' = [tstate EXCEPT ![PROGRAM] =
                      [u \in Pthread |-> IF u \in {x \in VisitedThreads(PROGRAM) : tstate[PROGRAM][x] = "T_BLOCKED_IO"}
                                         THEN "T_READY" ELSE @[u]]]
  BY <1>1 DEF UnblockAll, unblockAllThreads, unblockProcess, getBlockProcessType
<1>3. /\ state' \in [Pid -> processState] /\ state'[PROGRAM] # "DEAD"
      /\ tstate' \in [Pid -> [Pthread -> threadState]]
      /\ state[PROGRAM] = "BLOCKED_MUTEX" => state'[PROGRAM] = "BLOCKED_MUTEX"
      /\ \A p \in Pid : p # PROGRAM => state'[p] = state[p] /\ tstate'[p] = tstate[p]
  BY <1>a, <1>2, StateTypes DEF KernelInv, Created
<1>4. \A t \in Worker : Asleep(t)' <=> Asleep(t)
  BY <1>a, <1>2 DEF Asleep
<1>5. IInv' /\ ThreadsInv'
  <2>1. CASE PROGRAM \in queue
    BY <1>1, <2>1, NextIInv, QuietThreadsInv DEF KernelInv, Next, QuietStep
  <2>2. CASE PROGRAM \notin queue
    <3>1. IInv'
      BY <1>1, <1>3, <2>2, Identifiers
         DEF KernelInv, IInv, TypeOK, RunningIsCurrent, InitAlive, Runnable, CountersBounded
    <3>2. \A p \in queue : p # PROGRAM /\ state'[p] = state[p] /\ tstate'[p] = tstate[p]
      BY <1>a, <1>3, <2>2
    <3>3. ThreadsInv'
      BY <1>a, <1>1, <3>2 DEF KernelInv, ThreadsInv, HasReady, threadsOf, getCurrentPthread
    <3> QED BY <3>1, <3>3
  <2> QED BY <2>1, <2>2
<1>6. Created'
  BY <1>1, <1>3 DEF KernelInv, Created, prodconsVars
<1>7. Aside
  BY <1>1, <1>4, <1>5, <1>6 DEF Aside
<1>8. ASSUME NEW t \in Worker, WaitsForSlot(t) PROVE Cornered(t)'
  BY <1>1, <1>3, <1>8 DEF KernelInv, WorkerInv, Cornered, prodconsVars
<1> QED BY <1>7, <1>8, AsideKeepsInv

(* The main thread makes the three objects, which nobody knows yet.          *)
LEMMA StartInv == ASSUME KernelInv, Start PROVE KernelInv'
<1> USE Numbers
<1>0. /\ OnProcessor(PROGRAM, 0) /\ StartProdCons /\ UNCHANGED vars
      /\ prodcons = "ended" /\ UNCHANGED <<prodconsAt, blockedThreads>>
      /\ itemMutex' = counter(mutexStatus)
      /\ mutexStatus' = withObject(mutexStatus, itemMutex', "MUTEX_UNLOCKED")
  BY DEF Start, StartProdCons
<1>1. ItemInv'
  BY <1>0, StartStep DEF KernelInv
<1>2. IInv' /\ ThreadsInv'
  BY <1>0, NextIInv DEF KernelInv, vars, ThreadsInv, HasReady, threadsOf, getCurrentPthread
<1>3. Lists'
  BY <1>0 DEF KernelInv, Lists, withObject
<1>4. Created'
  BY <1>0 DEF KernelInv, IInv, TypeOK, Created, vars, OnProcessor
<1>5. ASSUME NEW t \in Worker PROVE WorkerInv(t)'
  <2>1. /\ prodconsAt'[t] = "none" /\ prodconsAt'[Other[t]] = "none"
        /\ ~Listed(t)' /\ ~Asleep(t)'
    BY <1>0, NotStarted DEF Worker, Other, Listed, Asleep, vars, KernelInv, Lists
  <2>2. MutexAt(t)' /\ SleepsAt(t)'
    BY <2>1 DEF MutexAt, SleepsAt, Touch, Worker
  <2>3. Cornered(t)'
    BY <1>0, MainCorners DEF vars
  <2> QED BY <2>2, <2>3 DEF WorkerInv
<1> QED BY <1>1, <1>2, <1>3, <1>4, <1>5 DEF KernelInv

(* tcreate gives the thread the number it is known by.                       *)
LEMMA CreateInv == ASSUME KernelInv, NEW t \in Worker, Create(t) PROVE KernelInv'
<1> USE Numbers
<1> DEFINE v == Tid[t]
<1>0. /\ OnProcessor(PROGRAM, 0) /\ currentProcess = PROGRAM /\ CreateThread(t) /\ AddThread(PROGRAM)
      /\ prodcons # "ended" /\ prodcons' # "ended" /\ prodconsAt[t] = "none"
      /\ t = "consumer" => prodconsAt["producer"] # "none"
      /\ prodconsAt' = [prodconsAt EXCEPT ![t] = IF t = "producer" THEN "produce" ELSE "downFull"]
      /\ UNCHANGED <<syncVars, objects, aux, first, consumed>>
  BY DEF Create, OnProcessor, CreateThread
<1>a. /\ prodconsAt \in [Worker -> At]
      /\ tstate \in [Pid -> [Pthread -> threadState]]
      /\ currentPThread \in [Pid -> 0..MaxThreads]
      /\ PROGRAM \in queue /\ currentPid > PROGRAM
  BY <1>0 DEF KernelInv, ItemInv, ItemTypes, IInv, TypeOK, Created
<1>1. ItemInv'
  BY <1>0, CreateStep DEF KernelInv
<1>2. IInv' /\ ThreadsInv'
  BY <1>0, <1>a, NextIInv, QuietThreadsInv DEF KernelInv, Next, QuietStep
<1>3. Lists'
  BY <1>0 DEF KernelInv, Lists, syncVars, objects
<1>4. currentPThread[PROGRAM] = v
  <2>1. t = "consumer" => prodconsAt["consumer"] = "none" /\ prodconsAt["producer"] # "none"
    BY <1>0
  <2> QED BY <1>0, <1>a, <2>1 DEF KernelInv, Created, Worker
<1>5. /\ currentPThread'[PROGRAM] = v + 1
      /\ tstate' = [tstate EXCEPT ![PROGRAM][v] = "T_READY"]
      /\ UNCHANGED <<queue, currentPid, state, currentThread>>
  BY <1>0, <1>4, <1>a DEF AddThread
<1>6. Created'
  <2>1. /\ prodconsAt'["producer"] = IF t = "producer" THEN "produce" ELSE prodconsAt["producer"]
        /\ prodconsAt'["consumer"] = IF t = "consumer" THEN "downFull" ELSE prodconsAt["consumer"]
    BY <1>0, <1>a DEF Worker
  <2>2. t = "producer" => prodconsAt["consumer"] = "none"
    BY <1>0 DEF KernelInv, Created
  <2> QED BY <1>0, <1>5, <1>a, <2>1, <2>2 DEF KernelInv, Created, Worker
<1>7. ASSUME NEW u \in Worker PROVE WorkerInv(u)'
  <2>1. Cornered(u)'
    BY <1>0, <1>5, MainCorners
  <2>2. Asleep(u)' <=> u # t /\ Asleep(u)
    BY <1>5, <1>a DEF Asleep
  <2>3. /\ HasSlot(u)' <=> HasSlot(u)
        /\ sem(u)' = sem(u) /\ (Listed(u)' <=> Listed(u)) /\ (AtSemaphore(u)' <=> AtSemaphore(u))
    <3>1. Held' = Held
      BY <1>0, <1>a DEF Held, One, Worker
    <3> QED BY <1>0, <3>1 DEF HasSlot, InRing, sem, Listed, AtSemaphore, syncVars, objects
  <2>4. /\ u # t => prodconsAt'[u] = prodconsAt[u]
        /\ Other[u] # t => prodconsAt'[Other[u]] = prodconsAt[Other[u]]
        /\ prodconsAt'[t] \in {"produce", "downFull"} /\ Other[u] \in Worker
    BY <1>0, <1>a DEF Worker, Other
  <2>5. Touch[u] \notin {"none", "produce", "downFull"}
    BY DEF Touch, Worker
  <2>6. MutexAt(u) /\ SleepsAt(u)
    BY DEF KernelInv, WorkerInv
  <2>7. MutexAt(u)'
    BY <1>0, <2>3, <2>4, <2>5, <2>6 DEF MutexAt, syncVars, objects
  <2>8. SleepsAt(u)'
    BY <1>0, <2>2, <2>3, <2>4, <2>5, <2>6 DEF SleepsAt, WaitsForSlot, syncVars, objects
  <2> QED BY <2>1, <2>7, <2>8 DEF WorkerInv
<1> QED BY <1>1, <1>2, <1>3, <1>6, <1>7 DEF KernelInv

----------------------------------------------------------------------------
(***************************************************************************)
(* The statements of producer and consumer.                                *)
(***************************************************************************)

(* A thread that takes a step past its mutexDown does not wait for a slot.   *)
LEMMA StepsWithSlot ==
  ASSUME KernelInv, NEW t \in Worker, OnProcessor(PROGRAM, Tid[t]), prodconsAt[t] # "downItem"
  PROVE  ~WaitsForSlot(t)
BY DEF KernelInv, WorkerInv, Cornered, OnProcessor, CanCall, getCurrentPthread

LEMMA TouchesItsSlot ==
  ASSUME KernelInv, NEW t \in Worker, OnProcessor(PROGRAM, Tid[t]), prodcons # "ended",
         prodconsAt[t] = Touch[t]
  PROVE  HasSlot(t)
<1> SUFFICES ASSUME ~HasSlot(t) PROVE FALSE
  OBVIOUS
<1>1. Asleep(t) /\ semaphoreStatus[sem(t)] < 0
  BY NoSlotNegative DEF KernelInv, WorkerInv, SleepsAt
<1>2. prodconsAt[t] # "downItem"
  BY DEF Touch, Worker
<1> QED BY <1>1, <1>2, StepsWithSlot DEF WaitsForSlot

(* The places are all different.                                             *)
LEMMA PlacesApart ==
  ASSUME NEW t \in Worker
  PROVE  /\ Touch[t] \notin {"none", "produce", "downItem", "upItem", DownAt(t), UpAt(t)}
         /\ DownAt(t) \notin {"none", "produce", "downItem", "upItem", UpAt(t)}
         /\ UpAt(t) \notin {"none", "produce", "downItem", "upItem", "downFull"}
         /\ Touch[t] # "downEmpty" /\ Touch[t] # "downFull"
         /\ DownAt(t) \in {"downEmpty", "downFull"}
         /\ UpAt(t) \in {"upFull", "upEmpty"}
         /\ Other[t] \in Worker /\ Other[t] # t /\ Other[Other[t]] = t
         /\ \A u \in Worker : u = t \/ u = Other[t]
BY DEF Touch, DownAt, UpAt, Other, Worker

(* Who is in which list afterwards.                                          *)
LEMMA StatementLists ==
  ASSUME ItemInv, NEW t \in Worker, ThreadStep(Program(t)), NEW v \in Worker
  PROVE  /\ sem(v)' = sem(v) /\ itemMutex' = itemMutex
         /\ Makes(t) \/ Touches(t) => UNCHANGED <<mutexStatus, semaphoreStatus, blockedThreads>>
         /\ Downs(t) => /\ UNCHANGED mutexStatus
                        /\ Listed(v)' <=> Listed(v)
                        /\ AtSemaphore(v) => AtSemaphore(v)'
                        /\ semaphoreStatus'[sem(t)] < 0 => AtSemaphore(t)'
                        /\ semaphoreStatus'[sem(Other[t])] = semaphoreStatus[sem(Other[t])]
                        /\ blockedThreads \subseteq blockedThreads'
         /\ Locks(t) => /\ UNCHANGED semaphoreStatus
                        /\ blockedThreads \subseteq blockedThreads'
                        /\ v # t => (Listed(v)' <=> Listed(v))
                        /\ mutexStatus[itemMutex] = "MUTEX_LOCKED" => Listed(t)'
                        /\ mutexStatus[itemMutex] # "MUTEX_LOCKED" => UNCHANGED blockedThreads
         /\ Unlocks(t) => /\ UNCHANGED semaphoreStatus
                          /\ ~Listed(v)' /\ (AtSemaphore(v) => AtSemaphore(v)')
         /\ Ups(t) => /\ UNCHANGED mutexStatus
                      /\ Listed(v)' <=> Listed(v)
                      /\ semaphoreStatus'[sem(t)] = semaphoreStatus[sem(t)]
                      /\ semaphoreStatus'[sem(Other[t])] = semaphoreStatus[sem(Other[t])] + 1
                      /\ semaphoreStatus'[sem(Other[t])] < 0 => UNCHANGED blockedThreads
                      /\ ~(semaphoreStatus'[sem(Other[t])] < 0) => ~AtSemaphore(Other[t])'
<1>0. prodcons # "ended" /\ UNCHANGED objects
  BY StatementKinds
<1>1. sem(v)' = sem(v) /\ itemMutex' = itemMutex /\ sem(t)' = sem(t) /\ sem(Other[t])' = sem(Other[t])
  BY <1>0 DEF sem, objects
<1>2. /\ sem(t) \in DOMAIN semaphoreStatus /\ sem(Other[t]) \in DOMAIN semaphoreStatus
      /\ sem(t) # sem(Other[t]) /\ Semaphores
  BY <1>0, SemaphoresApart
<1>3. PICK m, e, f : m = itemMutex /\ e = sem(t) /\ f = sem(Other[t])
  OBVIOUS
<1>4. Makes(t) \/ Touches(t) => UNCHANGED <<mutexStatus, semaphoreStatus, blockedThreads>>
  BY DEF Makes, Touches, syncVars
<1>5. \A u, id : /\ <<"mutex", m, u>> \notin Waiting("semaphore", id)
                 /\ <<"semaphore", id, u>> \notin Waiting("mutex", m)
                 /\ <<"mutex", m, u>> \in blockedThreads => <<"mutex", m, u>> \in Waiting("mutex", m)
                 /\ <<"semaphore", id, u>> \in blockedThreads => <<"semaphore", id, u>> \in Waiting("semaphore", id)
                 /\ \A x, id2 : <<"mutex", m, u>> # <<"semaphore", id, x>>
  BY DEF Waiting
<1>6. ASSUME Downs(t)
      PROVE  /\ UNCHANGED mutexStatus /\ blockedThreads \subseteq blockedThreads'
             /\ <<"mutex", m, v>> \in blockedThreads' <=> <<"mutex", m, v>> \in blockedThreads
             /\ semaphoreStatus'[e] < 0 => <<"semaphore", e, t>> \in blockedThreads'
             /\ semaphoreStatus'[f] = semaphoreStatus[f]
  BY <1>2, <1>3, <1>6, SemaphoreCounts, <1>5 DEF Downs, semaphoreDown
<1>7. ASSUME Locks(t)
      PROVE  /\ UNCHANGED semaphoreStatus /\ blockedThreads \subseteq blockedThreads'
             /\ v # t => (<<"mutex", m, v>> \in blockedThreads' <=> <<"mutex", m, v>> \in blockedThreads)
             /\ mutexStatus[m] = "MUTEX_LOCKED" => <<"mutex", m, t>> \in blockedThreads'
             /\ mutexStatus[m] # "MUTEX_LOCKED" => UNCHANGED blockedThreads
  BY <1>3, <1>7 DEF Locks, mutexDown
<1>8. ASSUME Unlocks(t)
      PROVE  /\ UNCHANGED semaphoreStatus /\ <<"mutex", m, v>> \notin blockedThreads'
             /\ \A id : <<"semaphore", id, v>> \in blockedThreads => <<"semaphore", id, v>> \in blockedThreads'
  BY <1>3, <1>5, <1>8 DEF Unlocks, mutexUp
<1>9. ASSUME Ups(t)
      PROVE  /\ UNCHANGED mutexStatus
             /\ <<"mutex", m, v>> \in blockedThreads' <=> <<"mutex", m, v>> \in blockedThreads
             /\ semaphoreStatus'[e] = semaphoreStatus[e] /\ semaphoreStatus'[f] = semaphoreStatus[f] + 1
             /\ semaphoreStatus'[f] < 0 => UNCHANGED blockedThreads
             /\ ~(semaphoreStatus'[f] < 0) => <<"semaphore", f, Other[t]>> \notin blockedThreads'
  BY <1>2, <1>3, <1>5, <1>9, SemaphoreCounts DEF Ups, semaphoreUp
<1> QED BY <1>1, <1>3, <1>4, <1>6, <1>7, <1>8, <1>9 DEF Listed, AtSemaphore

LEMMA StatementMutex ==
  ASSUME ItemInv, NEW t \in Worker, ThreadStep(Program(t)), NEW v \in Worker,
         \A u \in Worker : MutexAt(u), itemMutex \in DOMAIN mutexStatus,
         prodconsAt[t] = Touch[t] => HasSlot(t)
  PROVE  MutexAt(v)'
<1> DEFINE u == Other[t]
<1>0. /\ itemMutex' = itemMutex
      /\ prodconsAt'[u] = prodconsAt[u]
      /\ v = t \/ v = u
      /\ u \in Worker /\ u # t /\ Other[u] = t
  BY StatementKinds, StatementLists, PlacesApart
<1>1. /\ prodconsAt[t] # Touch[t] => \A x \in Worker : HasSlot(x)' = HasSlot(x)
      /\ prodconsAt[t] = Touch[t] => HasSlot(u)'
      /\ HasSlot(u) => HasSlot(u)'
  BY SlotChanges
<1>2. MutexAt(t) /\ MutexAt(u)
  BY <1>0
<1>3. CASE Makes(t)
  BY <1>0, <1>1, <1>2, <1>3, StatementLists, PlacesApart DEF MutexAt, Makes, GoesTo, Listed
<1>4. CASE Downs(t)
  BY <1>0, <1>1, <1>2, <1>4, StatementLists, PlacesApart DEF MutexAt, Downs, GoesTo
<1>5. CASE Locks(t)
  BY <1>0, <1>1, <1>2, <1>5, StatementLists, PlacesApart DEF MutexAt, Locks, GoesTo, Listed
<1>6. CASE Touches(t)
  BY <1>0, <1>1, <1>2, <1>6, StatementLists, PlacesApart DEF MutexAt, Touches, GoesTo, Listed
<1>7. CASE Unlocks(t)
  <2>1. ~Listed(t)' /\ ~Listed(u)' /\ mutexStatus' = [mutexStatus EXCEPT ![itemMutex] = "MUTEX_UNLOCKED"]
    BY <1>0, <1>7, StatementLists DEF Unlocks, mutexUp
  <2>2. mutexStatus'[itemMutex'] = "MUTEX_UNLOCKED"
    BY <1>0, <2>1
  <2> QED BY <1>0, <2>1, <2>2 DEF MutexAt
<1>8. CASE Ups(t)
  BY <1>0, <1>1, <1>2, <1>8, StatementLists, PlacesApart DEF MutexAt, Ups, GoesTo
<1> QED BY <1>3, <1>4, <1>5, <1>6, <1>7, <1>8, StatementKinds

(* A call that need not wait only makes blocked threads ready again.         *)
LEMMA WakeKeepsScheduler ==
  ASSUME IInv, ThreadsInv, CanCall, currentProcess = PROGRAM,
         tstate' = [tstate EXCEPT ![PROGRAM] =
                      [u \in Pthread |-> IF u \in Woken /\ @[u] = "T_BLOCKED_MUTEX"
                                         THEN "T_READY" ELSE @[u]]],
         UNCHANGED state \/ unblockProcess(PROGRAM, "BLOCKED_MUTEX"),
         ThenYield \/ UNCHANGED owesYield,
         UNCHANGED <<numberOfTicks, threadTick, queue, queueSize, currentProcess, currentPid,
                     threadSize, currentThread, currentPThread, freed>>
  PROVE  IInv' /\ ThreadsInv' /\ state' = state
<1> USE Numbers
<1>1. /\ state \in [Pid -> processState] /\ queue \subseteq Pid /\ PROGRAM \in queue
      /\ tstate \in [Pid -> [Pthread -> threadState]]
      /\ currentThread \in [Pid -> Pthread] /\ getCurrentPthread \in Pthread
      /\ owesYield \subseteq Pid \X Pthread
  BY DEF IInv, TypeOK, getCurrentPthread
<1>2. state' = state
  BY <1>1, CallerRuns DEF unblockProcess, isProcessBlocked, ProcessBlockedStates
<1>3. /\ tstate' \in [Pid -> [Pthread -> threadState]]
      /\ \A p \in queue : \A u \in Pthread :
           /\ tstate[p][u] = "T_READY" => tstate'[p][u] = "T_READY"
           /\ tstate[p][u] = "T_RUNNING" => tstate'[p][u] = "T_RUNNING"
  BY <1>1, StateTypes
<1>4. owesYield \subseteq owesYield' /\ owesYield' \subseteq Pid \X Pthread
  BY <1>1 DEF ThenYield
<1>5. IInv'
  BY <1>2, <1>3, <1>4 DEF IInv, TypeOK, RunningIsCurrent, InitAlive, Runnable, CountersBounded
<1>6. \A p \in queue : HasReady(p) => HasReady(p)'
  BY <1>3, ThreadsArePthreads DEF HasReady, threadsOf
<1>7. ThreadsInv'
  BY <1>2, <1>4, <1>6 DEF ThreadsInv, getCurrentPthread
<1> QED BY <1>2, <1>5, <1>7

(* What a statement does to the scheduler: it blocks its thread and ends its *)
(* tick, or it wakes threads.                                                *)
LEMMA CallEffects ==
  ASSUME KernelInv, NEW t \in Worker, Statement(t, Program(t))
  PROVE  /\ IInv' /\ ThreadsInv'
         /\ state'[PROGRAM] # "DEAD"
         /\ UNCHANGED <<queue, currentProcess, currentPid, currentThread, currentPThread>>
         /\ \A v \in Worker :
              Asleep(v)' <=> IF Waits(prodconsAt[t]) THEN Asleep(v) \/ v = t
                                                     ELSE Asleep(v) /\ Tid[v] \notin Woken
         /\ Yields(prodconsAt[t]) => <<PROGRAM, Tid[t]>> \in owesYield'
         /\ IF Waits(prodconsAt[t])
            THEN /\ threadTick'[PROGRAM] = THREAD_QUANTUM
                 /\ UNCHANGED numberOfTicks \/ state'[PROGRAM] = "BLOCKED_MUTEX"
            ELSE UNCHANGED <<threadTick, numberOfTicks>>
<1> USE Numbers
<1>0. /\ currentProcess = PROGRAM /\ getCurrentPthread = Tid[t] /\ CanCall
      /\ CallScheduler(t, prodconsAt[t])
      /\ Yields(prodconsAt[t]) => ThenYield
      /\ ThenYield \/ UNCHANGED owesYield
      /\ UNCHANGED <<queue, queueSize, currentProcess, currentPid, threadSize,
                     currentThread, currentPThread, freed>>
  BY DEF Statement, OnProcessor, CallScheduler
<1>1. /\ state \in [Pid -> processState]
      /\ tstate \in [Pid -> [Pthread -> threadState]]
      /\ threadTick \in [Pid -> 0..THREAD_QUANTUM]
      /\ state[PROGRAM] # "DEAD"
  BY DEF KernelInv, IInv, TypeOK, Created
<1>2. Yields(prodconsAt[t]) => <<PROGRAM, Tid[t]>> \in owesYield'
  BY <1>0 DEF ThenYield
<1>3. CASE Waits(prodconsAt[t])
  <2>1. blockThread(PROGRAM, Tid[t], "T_BLOCKED_MUTEX") /\ ThenYield
    BY <1>0, <1>3 DEF CallScheduler, Waits, Yields
  <2>2. Block("T_BLOCKED_MUTEX")
    BY <1>0, <2>1, Numbers DEF Block, MayWaitFor
  <2>3. IInv' /\ ThreadsInv'
    BY <2>2, NextIInv, QuietThreadsInv DEF KernelInv, Next, QuietStep
  <2>4. /\ tstate' = [tstate EXCEPT ![PROGRAM][Tid[t]] = "T_BLOCKED_MUTEX"]
        /\ threadTick' = [threadTick EXCEPT ![PROGRAM] = THREAD_QUANTUM]
        /\ \/ state' = [state EXCEPT ![PROGRAM] = "BLOCKED_MUTEX"]
           \/ UNCHANGED <<state, numberOfTicks>>
    BY <2>1 DEF blockThread, blockProcess, getBlockProcessType
  <2>5. \A v \in Worker : Asleep(v)' <=> Asleep(v) \/ v = t
    BY <1>1, <2>4 DEF Asleep
  <2> QED BY <1>0, <1>1, <1>2, <1>3, <2>3, <2>4, <2>5
<1>4. CASE ~Waits(prodconsAt[t])
  <2>1. /\ tstate' = [tstate EXCEPT ![PROGRAM] =
                        [u \in Pthread |-> IF u \in Woken /\ @[u] = "T_BLOCKED_MUTEX"
                                           THEN "T_READY" ELSE @[u]]]
        /\ UNCHANGED state \/ unblockProcess(PROGRAM, "BLOCKED_MUTEX")
        /\ UNCHANGED <<numberOfTicks, threadTick>>
    BY <1>0, <1>4 DEF CallScheduler
  <2>2. IInv' /\ ThreadsInv' /\ state' = state
    BY <1>0, <2>1, WakeKeepsScheduler DEF KernelInv
  <2>3. \A v \in Worker : Asleep(v)' <=> Asleep(v) /\ Tid[v] \notin Woken
    BY <1>1, <2>1 DEF Asleep
  <2> QED BY <1>0, <1>1, <1>2, <1>4, <2>1, <2>2, <2>3
<1> QED BY <1>3, <1>4

(* Who is woken was in the list the statement emptied.                       *)
LEMMA WokenWere ==
  ASSUME ItemInv, Lists, NEW t \in Worker, ThreadStep(Program(t)), NEW v \in Worker
  PROVE  /\ blockedThreads \subseteq blockedThreads' => Tid[v] \notin Woken
         /\ Unlocks(t) => (Tid[v] \in Woken <=> Listed(v))
         /\ AtSemaphore(v) /\ ~AtSemaphore(v)' => Tid[v] \in Woken
<1>1. Tid[v] \in Woken <=> \E b \in blockedThreads \ blockedThreads' : b[3] = v
  BY Numbers DEF Woken, Lists
<1>2. blockedThreads \subseteq blockedThreads' => Tid[v] \notin Woken
  BY <1>1
<1>3. ASSUME Unlocks(t) PROVE Tid[v] \in Woken <=> Listed(v)
  <2>0. PICK m : m = itemMutex
    OBVIOUS
  <2>1. blockedThreads' = blockedThreads \ Waiting("mutex", m)
    BY <1>3, <2>0 DEF Unlocks, mutexUp
  <2>2. ASSUME NEW b \in Waiting("mutex", m), b[3] = v PROVE b = <<"mutex", m, v>> /\ b \in blockedThreads
    BY <2>2 DEF Waiting, Lists
  <2>3. ASSUME <<"mutex", m, v>> \in blockedThreads
        PROVE  <<"mutex", m, v>> \in Waiting("mutex", m) /\ <<"mutex", m, v>>[3] = v
    BY <2>3 DEF Waiting
  <2> QED BY <1>1, <2>0, <2>1, <2>2, <2>3 DEF Listed
<1>4. ASSUME AtSemaphore(v), ~AtSemaphore(v)' PROVE Tid[v] \in Woken
  <2>1. sem(v)' = sem(v)
    BY StatementLists
  <2>2. <<"semaphore", sem(v), v>> \in blockedThreads \ blockedThreads' /\ <<"semaphore", sem(v), v>>[3] = v
    BY <1>4, <2>1 DEF AtSemaphore
  <2> QED BY <1>1, <2>2
<1> QED BY <1>2, <1>3, <1>4

(* Which statements find that they have to wait.                             *)
LEMMA WhoWaits ==
  ASSUME ItemInv, NEW t \in Worker, ThreadStep(Program(t))
  PROVE  /\ Makes(t) \/ Touches(t) \/ Unlocks(t) \/ Ups(t) => ~Waits(prodconsAt[t])
         /\ Downs(t) => (Waits(prodconsAt[t]) <=> semaphoreStatus'[sem(t)] < 0)
         /\ Locks(t) => (Waits(prodconsAt[t]) <=> mutexStatus[itemMutex] = "MUTEX_LOCKED")
<1>1. emptyCount' = emptyCount /\ fullCount' = fullCount
  BY StatementKinds DEF objects
<1> USE DEF GoesTo, Waits, Worker
<1>2. Makes(t) \/ Touches(t) \/ Unlocks(t) \/ Ups(t) => ~Waits(prodconsAt[t])
  BY DEF Makes, Touches, Unlocks, Ups, Touch, UpAt
<1>3. Downs(t) => (Waits(prodconsAt[t]) <=> semaphoreStatus'[sem(t)] < 0)
  BY <1>1 DEF Downs, DownAt, sem
<1>4. Locks(t) => (Waits(prodconsAt[t]) <=> mutexStatus[itemMutex] = "MUTEX_LOCKED")
  BY DEF Locks
<1> QED BY <1>2, <1>3, <1>4

LEMMA StatementSleeps ==
  ASSUME KernelInv, NEW t \in Worker, Statement(t, Program(t)), NEW v \in Worker
  PROVE  SleepsAt(v)'
<1> DEFINE u == Other[t]
<1>0. /\ ThreadStep(Program(t)) /\ ItemInv /\ Lists /\ OnProcessor(PROGRAM, Tid[t])
      /\ \A x \in Worker : MutexAt(x) /\ SleepsAt(x)
  BY DEF Statement, KernelInv, WorkerInv
<1>a. /\ prodcons # "ended" /\ UNCHANGED <<prodcons, objects>>
      /\ prodconsAt'[u] = prodconsAt[u]
      /\ v = t \/ v = u
      /\ u \in Worker /\ u # t /\ Other[u] = t
  BY <1>0, StatementKinds, PlacesApart
<1>b. prodconsAt[t] = Touch[t] => HasSlot(t)
  BY <1>0, <1>a, TouchesItsSlot
<1>c. /\ prodconsAt[t] # Touch[t] => \A x \in Worker : HasSlot(x)' = HasSlot(x)
      /\ HasSlot(u) => HasSlot(u)'
  BY <1>0, <1>b, SlotChanges
<1>d. prodconsAt[t] # "downItem" /\ Asleep(t) => Listed(t) /\ prodconsAt[t] \in {Touch[t], "upItem"}
  BY <1>0, StepsWithSlot DEF MutexAt, SleepsAt
<1>e. \A x \in Worker :
        Asleep(x)' <=> IF Waits(prodconsAt[t]) THEN Asleep(x) \/ x = t ELSE Asleep(x) /\ Tid[x] \notin Woken
  BY CallEffects
<1>f. \A x \in Worker : sem(x)' = sem(x)
  BY <1>0, StatementLists
<1>g. /\ sem(t)' = sem(t) /\ sem(u)' = sem(u)
      /\ prodconsAt[t] # "downItem" =>
           (Asleep(t) => Listed(t) /\ prodconsAt[t] \in {Touch[t], "upItem"})
      /\ SleepsAt(t) /\ SleepsAt(u) /\ MutexAt(t) /\ MutexAt(u)
      /\ (HasSlot(u) => HasSlot(u)')
  BY <1>0, <1>a, <1>c, <1>d, <1>f
<1>1. CASE Makes(t)
  <2>1. /\ ~Asleep(t)' /\ (Asleep(u)' <=> Asleep(u))
        /\ UNCHANGED <<mutexStatus, semaphoreStatus, blockedThreads>>
    BY <1>0, <1>a, <1>e, <1>g, <1>1, StatementLists, WhoWaits, WokenWere, PlacesApart DEF Makes, GoesTo
  <2>2. (Listed(u)' <=> Listed(u)) /\ (AtSemaphore(u)' <=> AtSemaphore(u))
    BY <1>a, <1>g, <2>1 DEF Listed, AtSemaphore, objects
  <2>3. SleepsAt(t)'
    BY <1>1, <2>1, PlacesApart DEF SleepsAt, Makes, GoesTo
  <2>4. SleepsAt(u)'
    BY <1>a, <1>g, <2>1, <2>2 DEF SleepsAt, WaitsForSlot
  <2> QED BY <1>a, <2>3, <2>4
<1>2. CASE Downs(t)
  <2>1. /\ Asleep(t)' <=> semaphoreStatus'[sem(t)] < 0
        /\ Asleep(u)' <=> Asleep(u)
        /\ semaphoreStatus'[sem(t)] < 0 => AtSemaphore(t)'
        /\ semaphoreStatus'[sem(u)] = semaphoreStatus[sem(u)]
        /\ (Listed(u)' <=> Listed(u)) /\ (AtSemaphore(u) => AtSemaphore(u)')
    BY <1>0, <1>a, <1>e, <1>g, <1>2, StatementLists, WhoWaits, WokenWere, PlacesApart DEF Downs, GoesTo
  <2>2. SleepsAt(t)'
    BY <1>2, <1>g, <2>1, PlacesApart DEF SleepsAt, WaitsForSlot, Downs, GoesTo
  <2>3. SleepsAt(u)'
    BY <1>a, <1>g, <2>1 DEF SleepsAt, WaitsForSlot
  <2> QED BY <1>a, <2>2, <2>3
<1>3. CASE Locks(t)
  <2>1. /\ prodconsAt[t] = "downItem" /\ prodconsAt'[t] = Touch[t] /\ ~Listed(t)
        /\ mutexStatus[itemMutex] = "MUTEX_LOCKED" => Asleep(t)' /\ Listed(t)'
        /\ mutexStatus[itemMutex] # "MUTEX_LOCKED" => (Asleep(t)' <=> Asleep(t)) /\ UNCHANGED blockedThreads
        /\ Asleep(u)' <=> Asleep(u)
        /\ UNCHANGED semaphoreStatus
        /\ Listed(u)' <=> Listed(u)
        /\ blockedThreads \subseteq blockedThreads'
    BY <1>0, <1>a, <1>e, <1>g, <1>3, StatementLists, WhoWaits, WokenWere, PlacesApart DEF Locks, GoesTo, MutexAt
  <2>2. (AtSemaphore(t) => AtSemaphore(t)') /\ (AtSemaphore(u) => AtSemaphore(u)')
    BY <1>g, <2>1 DEF AtSemaphore
  <2>3. HasSlot(t)' = HasSlot(t)
    BY <1>c, <2>1, PlacesApart
  <2>4. ~HasSlot(t) => Asleep(t)
    BY <1>0, <1>a, <1>g, <2>1, NoSlotNegative DEF SleepsAt
  <2>5. SleepsAt(t)'
    BY <1>g, <2>1, <2>2, <2>3, <2>4, PlacesApart DEF SleepsAt, WaitsForSlot
  <2>6. SleepsAt(u)'
    BY <1>a, <1>g, <2>1, <2>2 DEF SleepsAt, WaitsForSlot
  <2> QED BY <1>a, <2>5, <2>6
<1>4. CASE Touches(t)
  <2>1. /\ (Asleep(t)' <=> Asleep(t)) /\ (Asleep(u)' <=> Asleep(u))
        /\ UNCHANGED <<mutexStatus, semaphoreStatus, blockedThreads>>
        /\ prodconsAt'[t] = "upItem" /\ prodconsAt[t] # "downItem"
    BY <1>0, <1>a, <1>e, <1>4, StatementLists, WhoWaits, WokenWere, PlacesApart DEF Touches, GoesTo
  <2>2. \A x \in Worker : (Listed(x)' <=> Listed(x)) /\ (AtSemaphore(x)' <=> AtSemaphore(x))
    BY <1>a, <1>f, <2>1 DEF Listed, AtSemaphore, objects
  <2>3. SleepsAt(t)'
    BY <1>g, <2>1, <2>2, PlacesApart DEF SleepsAt
  <2>4. SleepsAt(u)'
    BY <1>a, <1>g, <2>1, <2>2 DEF SleepsAt, WaitsForSlot
  <2> QED BY <1>a, <2>3, <2>4
<1>5. CASE Unlocks(t)
  <2>1. /\ prodconsAt[t] = "upItem" /\ prodconsAt'[t] = UpAt(t)
        /\ (Asleep(t)' <=> Asleep(t) /\ ~Listed(t)) /\ (Asleep(u)' <=> Asleep(u) /\ ~Listed(u))
        /\ UNCHANGED semaphoreStatus
        /\ AtSemaphore(u) => AtSemaphore(u)'
    BY <1>0, <1>a, <1>e, <1>5, StatementLists, WhoWaits, WokenWere DEF Unlocks, GoesTo
  <2>2. HasSlot(u)' = HasSlot(u) /\ ~Asleep(t)'
    BY <1>a, <1>c, <1>g, <2>1, PlacesApart
  <2>3. SleepsAt(t)'
    BY <2>1, <2>2, PlacesApart DEF SleepsAt
  <2>4. prodconsAt[u] = "downItem" => ~Listed(u)
    BY <1>g, PlacesApart DEF MutexAt
  <2>5. Listed(u) /\ prodconsAt[u] = Touch[u] => HasSlot(u)
    BY <1>a, <1>g, <2>1 DEF MutexAt
  <2>6. SleepsAt(u)'
    BY <1>a, <1>g, <2>1, <2>2, <2>4, <2>5 DEF SleepsAt, WaitsForSlot
  <2> QED BY <1>a, <2>3, <2>6
<1>6. CASE Ups(t)
  <2>1. /\ prodconsAt[t] = UpAt(t) /\ prodconsAt'[t] \in {"produce", "downFull"}
        /\ ~Asleep(t)' /\ (Asleep(u)' <=> Asleep(u) /\ Tid[u] \notin Woken)
        /\ semaphoreStatus'[sem(u)] = semaphoreStatus[sem(u)] + 1
        /\ semaphoreStatus'[sem(u)] < 0 => UNCHANGED blockedThreads
        /\ ~(semaphoreStatus'[sem(u)] < 0) => ~AtSemaphore(u)'
        /\ Listed(u)' <=> Listed(u)
    BY <1>0, <1>a, <1>e, <1>g, <1>6, StatementLists, WhoWaits, PlacesApart DEF Ups, GoesTo
  <2>2. HasSlot(u)' = HasSlot(u) /\ semaphoreStatus[sem(u)] \in Int
    BY <1>0, <1>a, <1>c, <2>1, PlacesApart, SemaphoresApart
  <2>3. SleepsAt(t)'
    BY <2>1, PlacesApart DEF SleepsAt
  <2>4. semaphoreStatus'[sem(u)] < 0 => Tid[u] \notin Woken
    BY <1>0, <1>a, <2>1, WokenWere
  <2>5. prodconsAt[u] = Touch[u] /\ ~HasSlot(u) => semaphoreStatus[sem(u)] < -1
    BY <1>0, <1>a, <2>1, NoSlotNegative
  <2>6. semaphoreStatus'[sem(u)] < 0 => (AtSemaphore(u)' <=> AtSemaphore(u))
    BY <1>g, <2>1 DEF AtSemaphore
  <2>7. ~(semaphoreStatus'[sem(u)] < 0) /\ AtSemaphore(u) => Tid[u] \in Woken
    BY <1>0, <1>a, <2>1, WokenWere
  <2>8. SleepsAt(u)'
    BY <1>a, <1>g, <2>1, <2>2, <2>4, <2>5, <2>6, <2>7 DEF SleepsAt, WaitsForSlot
  <2> QED BY <1>a, <2>3, <2>8
<1> QED BY <1>0, <1>1, <1>2, <1>3, <1>4, <1>5, <1>6, StatementKinds

(* A thread that goes on with its slot still missing has no tick left.       *)
LEMMA StatementCornered ==
  ASSUME KernelInv, NEW t \in Worker, Statement(t, Program(t)), NEW v \in Worker
  PROVE  Cornered(v)'
<1> USE Numbers
<1>0. /\ ThreadStep(Program(t)) /\ ItemInv /\ OnProcessor(PROGRAM, Tid[t])
      /\ MutexAt(t) /\ SleepsAt(t) /\ Cornered(t)
      /\ currentProcess = PROGRAM /\ currentThread[PROGRAM] = Tid[t]
      /\ <<PROGRAM, Tid[t]>> \notin owesYield
  BY DEF Statement, KernelInv, WorkerInv, OnProcessor, CanCall, getCurrentPthread
<1>1. /\ currentThread'[PROGRAM] = Tid[t] /\ currentProcess' = PROGRAM
      /\ Yields(prodconsAt[t]) => <<PROGRAM, Tid[t]>> \in owesYield'
      /\ IF Waits(prodconsAt[t])
         THEN /\ threadTick'[PROGRAM] = THREAD_QUANTUM
              /\ UNCHANGED numberOfTicks \/ state'[PROGRAM] = "BLOCKED_MUTEX"
         ELSE UNCHANGED <<threadTick, numberOfTicks>>
      /\ Asleep(t)' <=> IF Waits(prodconsAt[t]) THEN Asleep(t) \/ t = t
                                              ELSE Asleep(t) /\ Tid[t] \notin Woken
  BY <1>0, CallEffects
<1>2. CASE v # t
  BY <1>1, <1>2 DEF Cornered
<1>3. CASE Downs(t) /\ v = t
  <2>1. /\ Yields(prodconsAt[t]) /\ prodconsAt'[t] = "downItem"
        /\ Waits(prodconsAt[t]) <=> semaphoreStatus'[sem(t)] < 0
        /\ sem(t)' = sem(t)
    BY <1>0, <1>3, WhoWaits, StatementLists DEF Downs, GoesTo, DownAt, Yields
  <2> QED BY <1>1, <1>3, <2>1 DEF Cornered, WaitsForSlot
<1>4. CASE Locks(t) /\ v = t
  <2>1. /\ prodconsAt[t] = "downItem" /\ prodconsAt'[t] = Touch[t] /\ Yields(prodconsAt[t])
        /\ UNCHANGED semaphoreStatus /\ sem(t)' = sem(t)
    BY <1>0, <1>4, StatementLists DEF Locks, GoesTo, Yields
  <2>2. ASSUME WaitsForSlot(t)'
        PROVE  numberOfTicks = 0 /\ threadTick[PROGRAM] = THREAD_QUANTUM
    <3>1. WaitsForSlot(t)
      BY <1>0, <2>1, <2>2 DEF WaitsForSlot, SleepsAt
    <3> QED BY <1>0, <2>1, <3>1 DEF Cornered
  <2>3. prodconsAt'[t] # "downItem"
    BY <2>1, PlacesApart
  <2>4. WaitsForSlot(t)' => threadTick'[PROGRAM] = THREAD_QUANTUM
                           /\ (numberOfTicks' = 0 \/ state'[PROGRAM] = "BLOCKED_MUTEX")
    BY <1>1, <2>2
  <2> QED BY <1>1, <1>4, <2>1, <2>3, <2>4 DEF Cornered
<1>5. CASE (Makes(t) \/ Touches(t) \/ Unlocks(t) \/ Ups(t)) /\ v = t
  <2>1. prodconsAt'[t] \notin {"downItem", Touch[t]}
    BY <1>5, PlacesApart DEF Makes, Touches, Unlocks, Ups, GoesTo
  <2> QED BY <1>5, <2>1 DEF Cornered, WaitsForSlot
<1> QED BY <1>0, <1>2, <1>3, <1>4, <1>5, StatementKinds

LEMMA StatementInv == ASSUME KernelInv, NEW t \in Worker, Statement(t, Program(t)) PROVE KernelInv'
<1>0. /\ ThreadStep(Program(t)) /\ ItemInv /\ Lists /\ Created
      /\ OnProcessor(PROGRAM, Tid[t])
      /\ prodcons # "ended" /\ UNCHANGED <<prodcons, objects>>
  BY StatementKinds DEF Statement, KernelInv
<1>1. prodconsAt[t] = Touch[t] => HasSlot(t)
  BY <1>0, TouchesItsSlot
<1>2. ItemInv'
  BY <1>0, <1>1, StatementKeepsInv
<1>3. Lists'
  <2>1. DOMAIN mutexStatus' = DOMAIN mutexStatus
    BY <1>0, StatementKinds
       DEF Makes, Downs, Locks, Touches, Unlocks, Ups, syncVars,
           mutexDown, mutexUp, semaphoreDown, semaphoreUp
  <2>2. PICK m, e : m = itemMutex /\ e = sem(t)
    OBVIOUS
  <2>3. blockedThreads' \subseteq blockedThreads \cup {<<"mutex", m, t>>, <<"semaphore", e, t>>}
    BY <1>0, <2>2, StatementKinds
       DEF Makes, Downs, Locks, Touches, Unlocks, Ups, syncVars,
           mutexDown, mutexUp, semaphoreDown, semaphoreUp
  <2>4. ASSUME NEW b \in {<<"mutex", m, t>>, <<"semaphore", e, t>>}
        PROVE  b = <<b[1], b[2], b[3]>> /\ b[3] \in Worker
    BY <2>4
  <2>5. \A b \in blockedThreads' : b = <<b[1], b[2], b[3]>> /\ b[3] \in Worker
    BY <1>0, <2>3, <2>4 DEF Lists
  <2> QED BY <1>0, <2>1, <2>5 DEF Lists, objects
<1>4. Created'
  <2>1. prodconsAt \in [Worker -> At] /\ prodconsAt'[t] # "none" /\ prodconsAt[t] # "none"
    <3>1. prodconsAt[t] # "none" /\ prodconsAt'[t] # "none"
      BY <1>0, StatementKinds, PlacesApart DEF Makes, Downs, Locks, Touches, Unlocks, Ups, GoesTo
    <3> QED BY <3>1 DEF KernelInv, ItemInv, ItemTypes
  <2>2. \A u \in Worker : prodconsAt'[u] = "none" <=> prodconsAt[u] = "none"
    BY <1>0, <2>1, StatementKinds
  <2> QED BY <1>0, <2>2, CallEffects DEF Created, Worker
<1>5. ASSUME NEW v \in Worker PROVE WorkerInv(v)'
  <2>1. MutexAt(v)'
    BY <1>0, <1>1, StatementMutex DEF KernelInv, WorkerInv, Lists
  <2> QED BY <2>1, StatementSleeps, StatementCornered DEF WorkerInv
<1> QED BY <1>2, <1>3, <1>4, <1>5, CallEffects DEF KernelInv

----------------------------------------------------------------------------
LEMMA NextKernelInv == KernelInv /\ [KernelNext]_kernelVars => KernelInv'
<1> SUFFICES ASSUME KernelInv, [KernelNext]_kernelVars PROVE KernelInv'
  OBVIOUS
<1>1. CASE Statement("producer", producer)
  BY <1>1, StatementInv DEF Program, Worker
<1>2. CASE Statement("consumer", consumer)
  BY <1>2, StatementInv DEF Program, Worker
<1>3. ASSUME NEW t \in DOMAIN Tid, Create(t) PROVE KernelInv'
  BY <1>3, CreateInv, Numbers
<1>4. CASE UNCHANGED kernelVars
  <2>1. UNCHANGED vars /\ UNCHANGED <<syncVars, prodconsVars>>
    BY <1>4 DEF kernelVars
  <2>2. IInv' /\ ThreadsInv'
    BY <2>1, NextIInv DEF KernelInv, vars, ThreadsInv, HasReady, threadsOf, getCurrentPthread
  <2>3. Created' /\ \A t \in Worker : Asleep(t)' <=> Asleep(t)
    BY <2>1 DEF KernelInv, Created, Asleep, vars, prodconsVars
  <2>4. \A t \in Worker : WaitsForSlot(t) => Cornered(t)'
    BY <2>1 DEF KernelInv, WorkerInv, Cornered, vars, prodconsVars
  <2> QED BY <2>1, <2>2, <2>3, <2>4, AsideKeepsInv DEF Aside
<1> QED
  BY <1>1, <1>2, <1>3, <1>4, ScheduleInv, ShellInv, StartInv, ControlInv, KeyInv DEF KernelNext

LEMMA InitKernelInv == KernelInit => KernelInv
<1> SUFFICES ASSUME KernelInit PROVE KernelInv
  OBVIOUS
<1>1. IInv /\ ThreadsInv /\ ItemInv
  BY InitIInv, InitThreadsInv, InitItemInv DEF KernelInit
<1>2. /\ prodcons = "ended" /\ blockedThreads = {}
      /\ \A t \in Worker : prodconsAt[t] = "none"
      /\ queue = {0, 1} /\ currentPid = 2 /\ \A p \in Pid : state[p] = "READY"
      /\ \A t \in Worker : tstate[PROGRAM][Tid[t]] = "T_READY" /\ currentThread[PROGRAM] = 0
  BY Numbers DEF KernelInit, Init, SyncInit, ProdConsInit, Worker
<1>3. Lists
  BY <1>2 DEF Lists
<1>4. Created
  BY <1>2, Numbers DEF Created, Worker
<1>5. ASSUME NEW t \in Worker PROVE WorkerInv(t)
  BY <1>2, Numbers, PlacesApart DEF WorkerInv, MutexAt, SleepsAt, Cornered, Listed, Asleep
<1> QED BY <1>1, <1>3, <1>4, <1>5 DEF KernelInv

LEMMA KernelInvHolds == KernelSpec => []KernelInv
BY InitKernelInv, NextKernelInv, PTL DEF KernelSpec

(* On the scheduler of the kernel, which lets a thread go on that has to     *)
(* wait, every item is still handed over in order, for every size of the     *)
(* buffer, every quantum and every number of items (shell.c:238-297).        *)
THEOREM ItemsStayInOrderOnTheKernel == KernelSpec => []ItemsInOrder
<1>1. KernelInv => ItemsInOrder
  BY DEF KernelInv, ItemInv
<1> QED BY <1>1, KernelInvHolds, PTL

(* A thread that goes on although it is blocked at a semaphore gets no       *)
(* further than the ring, which it does not touch (scheduler.c:201,          *)
(* shell.c:265-285).                                                         *)
THEOREM WaitersDoNotTouch == KernelSpec => []WaiterTouchesNoItem
<1>1. ASSUME KernelInv PROVE WaiterTouchesNoItem
  <2>1. ASSUME NEW t \in Worker, Asleep(t), ~Listed(t)
        PROVE  prodconsAt[t] \in {"downItem", "insertItem", "removeItem"}
    BY <1>1, <2>1 DEF KernelInv, WorkerInv, SleepsAt, WaitsForSlot, Touch, Worker
  <2> QED BY <2>1, Numbers DEF WaiterTouchesNoItem, Listed
<1> QED BY <1>1, KernelInvHolds, PTL
=============================================================================
