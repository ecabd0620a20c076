--------------------------- MODULE NetworkProofs ---------------------------
(***************************************************************************)
(* Proofs about Network, for any nodes, addresses, ring size and messages: *)
(* the ring is well formed, a slot is written once, and messages reach a   *)
(* program in order, once, and with their length.                          *)
(***************************************************************************)
EXTENDS Network, TLAPS

N == MESSAGE_BUFFER_SIZE

\* The interrupt of a received frame comes with the frame.
CardHoldsFrame == \A n \in Node : "ROK" \in isr[n] => rx[n] # NONE

\* Slots are written one after the other: until all are, the writer has not come
\* around, and the reader is behind it.
WrittenFromStart ==
  \A n \in Node :
    \/ \A s \in Slot : messages[n][s] # NONE
    \/ /\ nextToRead[n] <= nexToWrite[n]
       /\ \A s \in Slot : s < nexToWrite[n] => messages[n][s] # NONE

RingInv == TypeOK /\ CardHoldsFrame /\ WrittenFromStart

\* A remainder that is none.
LEMMA SmallMod ==
  ASSUME NEW m \in Nat \ {0}, NEW k \in 0..(m - 1)
  PROVE  k % m = k
OBVIOUS

LEMMA WholeMod ==
  ASSUME NEW m \in Nat \ {0}
  PROVE  m % m = 0
OBVIOUS

\* One slot further.
LEMMA WrapStep ==
  ASSUME NEW p \in Slot
  PROVE  wrap(p + 1) = IF p + 1 = N THEN 0 ELSE p + 1
<1>1. CASE p + 1 = N
  BY <1>1, WholeMod, NetworkAssumption DEF wrap, N
<1>2. CASE p + 1 # N
  <2>1. p + 1 \in 0..(N - 1)
    BY <1>2, NetworkAssumption DEF Slot, N
  <2> QED
    BY <2>1, <1>2, SmallMod, NetworkAssumption DEF wrap, N
<1> QED
  BY <1>1, <1>2

LEMMA WrapInRing ==
  ASSUME NEW p \in Slot
  PROVE  wrap(p + 1) \in Slot
BY WrapStep, NetworkAssumption DEF Slot, N

LEMMA WireLengthInRange ==
  ASSUME NEW l \in Nat
  PROVE  wireLength(l) \in 0..(BYTE - 1)
BY NetworkAssumption DEF wireLength

----------------------------------------------------------------------------
LEMMA RingInit == Init => RingInv
<1> SUFFICES ASSUME Init PROVE RingInv
  OBVIOUS
<1> USE NetworkAssumption DEF Init
<1>1. 0 \in Slot
  BY DEF Slot
<1>2. TypeOK
  <2>1. got \in [Node -> Seq(Frame)]
    <3>1. <<>> \in Seq(Frame)
      OBVIOUS
    <3> QED
      BY <3>1
  <2> QED
    BY <1>1, <2>1 DEF TypeOK
<1>3. CardHoldsFrame
  BY DEF CardHoldsFrame
<1>4. WrittenFromStart
  <2>1. \A s \in Slot : ~(s < 0)
    BY DEF Slot
  <2> SUFFICES ASSUME NEW n \in Node
               PROVE  /\ nextToRead[n] <= nexToWrite[n]
                      /\ \A s \in Slot : s < nexToWrite[n] => messages[n][s] # NONE
    BY DEF WrittenFromStart
  <2>2. nextToRead[n] = 0 /\ nexToWrite[n] = 0
    OBVIOUS
  <2>3. 0 <= 0
    OBVIOUS
  <2> QED
    BY <2>1, <2>2, <2>3
<1> QED
  BY <1>2, <1>3, <1>4 DEF RingInv

LEMMA SendKeepsRing ==
  ASSUME RingInv, NEW n \in Node, NEW dest \in (Node \ {n}) \cup {BROADCAST},
         sendMsg(n, dest)
  PROVE  RingInv'
<1> USE DEF RingInv, sendMsg, ring
<1>1. sends' \in 1..MaxSends
  BY NetworkAssumption DEF TypeOK
<1>2. Length[sends'] \in Nat
  BY <1>1, NetworkAssumption
<1>3. wireLength(Length[sends']) \in 0..(BYTE - 1)
  BY <1>2, WireLengthInRange
<1>4. [id |-> sends', macDest |-> dest, macSrc |-> n,
       length |-> wireLength(Length[sends'])] \in Frame
  BY <1>1, <1>3 DEF Frame
<1>5. TypeOK'
  BY <1>1, <1>4 DEF TypeOK
<1>6. CardHoldsFrame' /\ WrittenFromStart'
  BY DEF CardHoldsFrame, WrittenFromStart
<1> QED
  BY <1>5, <1>6

LEMMA CardSendsKeepsRing ==
  ASSUME RingInv, NEW n \in Node, NEW lost \in SUBSET (Node \ {n}), CardSends(n, lost)
  PROVE  RingInv'
<1> USE DEF RingInv, CardSends, ring
<1>1. tx[n] \in Frame
  BY DEF TypeOK
<1>2. TypeOK'
  BY <1>1 DEF TypeOK
<1>3. CardHoldsFrame'
  <2> SUFFICES ASSUME NEW m \in Node, "ROK" \in isr'[m] PROVE rx'[m] # NONE
    BY DEF CardHoldsFrame
  <2>1. CASE "ROK" \in isr[m]
    BY <2>1 DEF CardHoldsFrame
  <2>2. CASE "ROK" \notin isr[m]
    BY <2>2
  <2> QED
    BY <2>1, <2>2
<1>4. WrittenFromStart'
  BY DEF WrittenFromStart
<1> QED
  BY <1>2, <1>3, <1>4

\* A frame more in the ring.
LEMMA TakeInKeepsRing ==
  ASSUME RingInv, NEW n \in Node, NEW frame \in Frame, takeIn(n, frame),
         UNCHANGED nextToRead
  PROVE  /\ messages' \in [Node -> [Slot -> Frame \cup {NONE}]]
         /\ nexToWrite' \in [Node -> Slot]
         /\ WrittenFromStart'
<1> USE DEF takeIn
<1>1. nexToWrite[n] \in Slot /\ wrap(nexToWrite[n] + 1) \in Slot
  BY WrapInRing DEF RingInv, TypeOK
<1>2. messages' \in [Node -> [Slot -> Frame \cup {NONE}]]
  BY DEF RingInv, TypeOK
<1>3. nexToWrite' \in [Node -> Slot]
  BY <1>1 DEF RingInv, TypeOK
<1>4. frame # NONE
  BY NetworkAssumption
<1>5. WrittenFromStart'
  <2> SUFFICES ASSUME NEW m \in Node
               PROVE  \/ \A s \in Slot : messages'[m][s] # NONE
                      \/ /\ nextToRead'[m] <= nexToWrite'[m]
                         /\ \A s \in Slot : s < nexToWrite'[m] => messages'[m][s] # NONE
    BY DEF WrittenFromStart
  <2>1. \A s \in Slot : messages[m][s] # NONE => messages'[m][s] # NONE
    BY <1>4 DEF RingInv, TypeOK
  <2>2. CASE m # n
    BY <2>2 DEF RingInv, TypeOK, WrittenFromStart
  <2>3. CASE m = n /\ \A s \in Slot : messages[m][s] # NONE
    BY <2>1, <2>3
  <2>4. CASE /\ m = n /\ nextToRead[m] <= nexToWrite[m]
             /\ \A s \in Slot : s < nexToWrite[m] => messages[m][s] # NONE
    <3> DEFINE w == nexToWrite[n]
    <3>1. messages'[n][w] # NONE
      BY <1>1, <1>4 DEF RingInv, TypeOK
    <3>2. \A s \in Slot : s <= w => messages'[n][s] # NONE
      BY <2>1, <2>4, <3>1, <1>1 DEF Slot
    <3>3. nexToWrite'[n] = IF w + 1 = N THEN 0 ELSE w + 1
      BY <1>1, WrapStep DEF RingInv, TypeOK
    <3>4. nextToRead'[n] \in Slot
      BY DEF RingInv, TypeOK
    <3>5. CASE w + 1 = N
      BY <2>4, <3>2, <3>5, <1>1, NetworkAssumption DEF Slot, N
    <3>6. CASE w + 1 # N
      BY <2>4, <3>2, <3>3, <3>4, <3>6, <1>1, NetworkAssumption DEF Slot, N
    <3> QED
      BY <3>5, <3>6
  <2> QED
    BY <2>2, <2>3, <2>4 DEF RingInv, WrittenFromStart
<1> QED
  BY <1>2, <1>3, <1>5

LEMMA HandlerKeepsRing ==
  ASSUME RingInv, NEW n \in Node, rtlHandler(n)
  PROVE  RingInv'
<1> USE DEF rtlHandler, initRTL
<1>1. /\ messages' \in [Node -> [Slot -> Frame \cup {NONE}]]
      /\ nexToWrite' \in [Node -> Slot]
      /\ WrittenFromStart'
  <2>1. CASE "ROK" \in isr[n] /\ slotIsFree(n) /\ isForMe(n, rx[n])
    <3>1. rx[n] \in Frame
      BY <2>1 DEF RingInv, TypeOK, CardHoldsFrame
    <3> QED
      BY <2>1, <3>1, TakeInKeepsRing
  <2>2. CASE ~("ROK" \in isr[n] /\ slotIsFree(n) /\ isForMe(n, rx[n]))
    BY <2>2 DEF RingInv, TypeOK, WrittenFromStart
  <2> QED
    BY <2>1, <2>2
<1>2. TypeOK'
  BY <1>1 DEF RingInv, TypeOK
<1>3. CardHoldsFrame'
  BY DEF RingInv, TypeOK, CardHoldsFrame
<1> QED
  BY <1>1, <1>2, <1>3 DEF RingInv

\* The slot a message is read from has been written.
LEMMA ReadsFrame ==
  ASSUME RingInv, NEW n \in Node, getMsg(n)
  PROVE  messages[n][nextToRead[n]] \in Frame
<1>1. nextToRead[n] \in Slot /\ nexToWrite[n] \in Slot /\ nextToRead[n] # nexToWrite[n]
  BY DEF RingInv, TypeOK, getMsg
<1>2. messages[n][nextToRead[n]] # NONE
  BY <1>1, NetworkAssumption DEF RingInv, WrittenFromStart, Slot
<1> QED
  BY <1>1, <1>2 DEF RingInv, TypeOK

LEMMA GetMsgKeepsRing ==
  ASSUME RingInv, NEW n \in Node, getMsg(n)
  PROVE  RingInv'
<1> USE DEF getMsg, card
<1>1. messages[n][nextToRead[n]] \in Frame
  BY ReadsFrame
<1>2. nextToRead[n] \in Slot /\ wrap(nextToRead[n] + 1) \in Slot
  BY WrapInRing DEF RingInv, TypeOK
<1>3. TypeOK'
  <2>1. got' \in [Node -> Seq(Frame)]
    BY <1>1 DEF RingInv, TypeOK
  <2> QED
    BY <1>2, <2>1 DEF RingInv, TypeOK
<1>4. CardHoldsFrame'
  BY DEF RingInv, CardHoldsFrame
<1>5. WrittenFromStart'
  <2> SUFFICES ASSUME NEW m \in Node
               PROVE  \/ \A s \in Slot : messages[m][s] # NONE
                      \/ /\ nextToRead'[m] <= nexToWrite[m]
                         /\ \A s \in Slot : s < nexToWrite[m] => messages[m][s] # NONE
    BY DEF WrittenFromStart
  <2>1. CASE m # n
    BY <2>1 DEF RingInv, TypeOK, WrittenFromStart
  <2>2. CASE m = n /\ \E s \in Slot : messages[m][s] = NONE
    <3>1. nextToRead[n] < nexToWrite[n] /\ nexToWrite[n] \in Slot
      <4>1. nextToRead[n] <= nexToWrite[n]
        BY <2>2 DEF RingInv, WrittenFromStart
      <4>2. nexToWrite[n] \in Slot /\ nextToRead[n] # nexToWrite[n]
        BY DEF RingInv, TypeOK
      <4> QED
        BY <4>1, <4>2, <1>2, NetworkAssumption DEF Slot
    <3>2. nextToRead'[n] = nextToRead[n] + 1
      BY <3>1, <1>2, WrapStep, NetworkAssumption DEF RingInv, TypeOK, Slot, N
    <3> QED
      BY <2>2, <3>1, <3>2, <1>2, NetworkAssumption DEF RingInv, WrittenFromStart, Slot
  <2> QED
    BY <2>1, <2>2
<1> QED
  BY <1>3, <1>4, <1>5 DEF RingInv

LEMMA RingStep == RingInv /\ [Next]_vars => RingInv'
<1> SUFFICES ASSUME RingInv, [Next]_vars PROVE RingInv'
  OBVIOUS
<1>1. ASSUME NEW n \in Node, NEW dest \in (Node \ {n}) \cup {BROADCAST}, sendMsg(n, dest)
      PROVE  RingInv'
  BY <1>1, SendKeepsRing
<1>2. ASSUME NEW n \in Node, NEW lost \in SUBSET (Node \ {n}), CardSends(n, lost)
      PROVE  RingInv'
  BY <1>2, CardSendsKeepsRing
<1>3. ASSUME NEW n \in Node, rtlHandler(n) PROVE RingInv'
  BY <1>3, HandlerKeepsRing
<1>4. ASSUME NEW n \in Node, Read(n) PROVE RingInv'
  BY <1>4 DEF RingInv, Read, ring, card, TypeOK, CardHoldsFrame, WrittenFromStart
<1>5. ASSUME NEW n \in Node, getMsg(n) PROVE RingInv'
  BY <1>5, GetMsgKeepsRing
<1>6. CASE UNCHANGED vars
  BY <1>6 DEF RingInv, vars, ring, card, TypeOK, CardHoldsFrame, WrittenFromStart
<1> QED
  BY <1>1, <1>2, <1>3, <1>4, <1>5, <1>6 DEF Next

\* The ring, the card and the pointers stay in range, for a ring of any size
\* (RTL8139.c:53-55, :156-187).
THEOREM NetworkTypeCorrect == Spec => []TypeOK
<1>1. RingInv => TypeOK
  BY DEF RingInv
<1> QED
  BY <1>1, RingInit, RingStep, PTL DEF Spec

\* A slot that was written is not written again, unless the address in it begins
\* with zero: of MESSAGE_BUFFER_SIZE frames the last is the last for ever
\* (RTL8139.c:115-132, :164).
THEOREM SlotsAreWrittenOnce == Spec => WrittenOnce
<1> DEFINE A == \A n \in Node, s \in Slot :
                  messages[n][s] # NONE /\ messages[n][s].macDest \notin ZeroFirst
                    => messages'[n][s] = messages[n][s]
<1>1. RingInv /\ [Next]_vars => A
  <2> SUFFICES ASSUME RingInv, [Next]_vars,
                      NEW n \in Node, NEW s \in Slot,
                      messages[n][s] # NONE, messages[n][s].macDest \notin ZeroFirst
               PROVE  messages'[n][s] = messages[n][s]
    OBVIOUS
  <2>1. CASE UNCHANGED messages
    BY <2>1
  <2>2. ASSUME NEW m \in Node, takeIn(m, rx[m]), slotIsFree(m)
        PROVE  messages'[n][s] = messages[n][s]
    BY <2>2 DEF RingInv, TypeOK, takeIn, slotIsFree
  <2> QED
    BY <2>1, <2>2 DEF Next, sendMsg, CardSends, rtlHandler, Read, getMsg, vars, ring
<1> QED
  BY <1>1, RingInit, RingStep, PTL DEF Spec, WrittenOnce

----------------------------------------------------------------------------
(* The way of a message: tx, rx, the slots from nextToRead on, got.  On each   *)
(* part of it the messages of one sender are behind those of the next part.    *)

\* Slot s lies between the pointers r and w; the reader comes to s before t.
Between(r, w, s) == IF r <= w THEN r <= s /\ s < w ELSE r <= s \/ s < w
Ahead(r, s, t) == IF r <= s THEN t < r \/ s < t ELSE t < r /\ s < t

IsUnread(n, s) == Between(nextToRead[n], nexToWrite[n], s)

Earlier(f, g) == f.macSrc = g.macSrc => f.id < g.id

\* What is true of every message sent.
Sent(f) == f.id <= sends /\ f.length = wireLength(Length[f.id])

OnItsWayOut == \A n \in Node : tx[n] # NONE => tx[n].macSrc = n /\ Sent(tx[n])

\* A message the card of n holds.
Arrived(n, f) ==
  /\ f.macSrc # n /\ Sent(f)
  /\ tx[f.macSrc] # NONE => f.id < tx[f.macSrc].id

\* A message the driver of n took in.
Settled(n, f) ==
  /\ Arrived(n, f)
  /\ f.macDest \in {n, BROADCAST}
  /\ rx[n] # NONE => Earlier(f, rx[n])

NodeInOrder(n) ==
  /\ rx[n] # NONE => Arrived(n, rx[n])
  /\ \A s \in Slot : IsUnread(n, s) => Settled(n, messages[n][s])
  /\ \A j \in DOMAIN got[n] : Settled(n, got[n][j])
  /\ \A s, t \in Slot :
       IsUnread(n, s) /\ IsUnread(n, t) /\ Ahead(nextToRead[n], s, t) =>
         Earlier(messages[n][s], messages[n][t])
  /\ \A j \in DOMAIN got[n], s \in Slot :
       IsUnread(n, s) => Earlier(got[n][j], messages[n][s])
  /\ \A j \in DOMAIN got[n] : \A i \in 1..(j - 1) : Earlier(got[n][i], got[n][j])

WayInv == RingInv /\ OnItsWayOut /\ \A n \in Node : NodeInOrder(n)

LEMMA TakenIsLast ==
  ASSUME NEW r \in Slot, NEW w \in Slot, NEW s \in Slot,
         Between(r, wrap(w + 1), s)
  PROVE  /\ s # w => Between(r, w, s) /\ ~Ahead(r, w, s)
BY WrapStep, NetworkAssumption DEF Slot, N, Between, Ahead

LEMMA ReadIsFirst ==
  ASSUME NEW r \in Slot, NEW w \in Slot, r # w
  PROVE  /\ Between(r, w, r)
         /\ \A s \in Slot : Between(wrap(r + 1), w, s) =>
              Between(r, w, s) /\ Ahead(r, r, s)
         /\ \A s, t \in Slot :
              /\ Between(wrap(r + 1), w, s) /\ Between(wrap(r + 1), w, t)
              /\ Ahead(wrap(r + 1), s, t)
              => Ahead(r, s, t)
BY WrapStep, NetworkAssumption DEF Slot, N, Between, Ahead

\* Node n keeps what it has, and what is sent is later than that.
LEMMA NodeKeepsOrder ==
  ASSUME RingInv, NEW n \in Node, NodeInOrder(n),
         UNCHANGED <<messages[n], nexToWrite[n], nextToRead[n], got[n], rx[n]>>,
         sends' \in Nat, sends <= sends', tx' \in [Node -> Frame \cup {NONE}],
         \A m \in Node : tx'[m] # NONE => tx'[m] = tx[m] \/ tx'[m].id > sends
  PROVE  NodeInOrder(n)'
<1> USE DEF RingInv
<1>1. ASSUME NEW f \in Frame, Arrived(n, f) PROVE Arrived(n, f)'
  <2>1. f.id \in Nat /\ f.macSrc \in Node /\ sends \in Nat /\ f.id <= sends
    BY <1>1 DEF Arrived, Sent, Frame, TypeOK
  <2>2. ASSUME tx'[f.macSrc] # NONE PROVE f.id < tx'[f.macSrc].id
    <3>1. tx'[f.macSrc].id \in Nat
      BY <2>1, <2>2 DEF Frame
    <3> QED
      BY <1>1, <2>1, <2>2, <3>1 DEF Arrived
  <2>3. Sent(f)'
    BY <1>1, <2>1 DEF Arrived, Sent
  <2> QED
    BY <1>1, <2>2, <2>3 DEF Arrived
<1>2. ASSUME NEW f \in Frame, Settled(n, f) PROVE Settled(n, f)'
  BY <1>1, <1>2 DEF Settled, Earlier
<1>3. \A s \in Slot : IsUnread(n, s)' <=> IsUnread(n, s)
  BY DEF IsUnread
<1>4. \A s \in Slot : IsUnread(n, s) => messages[n][s] \in Frame
  <2> SUFFICES ASSUME NEW s \in Slot, IsUnread(n, s) PROVE messages[n][s] # NONE
    BY DEF TypeOK
  <2>1. nextToRead[n] \in Slot /\ nexToWrite[n] \in Slot
    BY DEF TypeOK
  <2> QED
    BY <2>1, NetworkAssumption DEF WrittenFromStart, IsUnread, Between, Slot
<1>5. \A j \in DOMAIN got[n] : got[n][j] \in Frame
  BY DEF TypeOK
<1>6. rx[n] # NONE => rx[n] \in Frame
  BY DEF TypeOK
<1> QED
  BY <1>1, <1>2, <1>3, <1>4, <1>5, <1>6 DEF NodeInOrder, Earlier

LEMMA WayInit == Init => WayInv
<1> SUFFICES ASSUME Init PROVE WayInv
  OBVIOUS
<1>1. RingInv
  BY RingInit
<1>2. OnItsWayOut
  BY DEF Init, OnItsWayOut
<1>3. ASSUME NEW n \in Node PROVE NodeInOrder(n)
  <2>1. rx[n] = NONE /\ got[n] = <<>> /\ nextToRead[n] = 0 /\ nexToWrite[n] = 0
    BY DEF Init
  <2>2. \A s \in Slot : ~IsUnread(n, s)
    BY <2>1, NetworkAssumption DEF IsUnread, Between, Slot
  <2> QED
    BY <2>1, <2>2 DEF NodeInOrder
<1> QED
  BY <1>1, <1>2, <1>3 DEF WayInv

LEMMA SendKeepsWay ==
  ASSUME WayInv, NEW n \in Node, NEW dest \in (Node \ {n}) \cup {BROADCAST},
         sendMsg(n, dest)
  PROVE  WayInv'
<1>1. RingInv'
  BY SendKeepsRing DEF WayInv
<1>2. sends \in Nat /\ sends' = sends + 1 /\ tx' \in [Node -> Frame \cup {NONE}]
  BY <1>1, NetworkAssumption DEF WayInv, RingInv, TypeOK, sendMsg
<1>3. tx'[n].id = sends' /\ tx'[n].macSrc = n /\ tx'[n].length = wireLength(Length[sends'])
  BY DEF WayInv, RingInv, TypeOK, sendMsg
<1>4. \A m \in Node \ {n} : tx'[m] = tx[m]
  BY DEF WayInv, RingInv, TypeOK, sendMsg
<1>5. OnItsWayOut'
  <2> SUFFICES ASSUME NEW m \in Node, tx'[m] # NONE
               PROVE  tx'[m].macSrc = m /\ Sent(tx[m])'
    BY DEF OnItsWayOut
  <2>1. CASE m = n
    BY <1>2, <1>3, <2>1 DEF Sent
  <2>2. CASE m # n
    <3>1. tx[m].id \in Nat /\ tx[m].id <= sends /\ tx'[m] = tx[m]
      BY <1>4, <2>2 DEF WayInv, RingInv, TypeOK, OnItsWayOut, Sent, Frame
    <3> QED
      BY <1>2, <2>2, <3>1 DEF WayInv, OnItsWayOut, Sent
  <2> QED
    BY <2>1, <2>2
<1>6. ASSUME NEW m \in Node PROVE NodeInOrder(m)'
  <2>1. UNCHANGED <<messages[m], nexToWrite[m], nextToRead[m], got[m], rx[m]>>
    BY DEF sendMsg, ring
  <2>2. \A k \in Node : tx'[k] # NONE => tx'[k] = tx[k] \/ tx'[k].id > sends
    BY <1>2, <1>3, <1>4
  <2> QED
    BY <1>2, <2>1, <2>2, NodeKeepsOrder DEF WayInv
<1> QED
  BY <1>1, <1>5, <1>6 DEF WayInv

LEMMA CardSendsKeepsWay ==
  ASSUME WayInv, NEW n \in Node, NEW lost \in SUBSET (Node \ {n}), CardSends(n, lost)
  PROVE  WayInv'
<1>1. RingInv'
  BY CardSendsKeepsRing DEF WayInv
<1>2. /\ sends \in Nat /\ sends' = sends
      /\ tx \in [Node -> Frame \cup {NONE}] /\ tx' = [tx EXCEPT ![n] = NONE]
  BY NetworkAssumption DEF WayInv, RingInv, TypeOK, CardSends
<1>3. OnItsWayOut'
  BY <1>2 DEF WayInv, OnItsWayOut, Sent
<1>4. ASSUME NEW m \in Node PROVE NodeInOrder(m)'
  <2>1. CASE rx'[m] = rx[m]
    <3>1. UNCHANGED <<messages[m], nexToWrite[m], nextToRead[m], got[m], rx[m]>>
      BY <2>1 DEF CardSends, ring
    <3>2. tx' \in [Node -> Frame \cup {NONE}]
      BY <1>2
    <3> QED
      BY <1>2, <3>1, <3>2, NodeKeepsOrder DEF WayInv
  <2>2. CASE rx'[m] # rx[m]
    <3>1. rx'[m] = tx[n] /\ rx[m] = NONE /\ m # n /\ tx[n] \in Frame
      BY <2>2 DEF WayInv, RingInv, TypeOK, CardSends
    <3>2. tx[n].macSrc = n /\ Sent(tx[n])
      BY <3>1, NetworkAssumption DEF WayInv, OnItsWayOut
    <3>3. Arrived(m, rx[m])'
      BY <1>2, <3>1, <3>2 DEF Arrived, Sent
    <3>4. ASSUME NEW f, Settled(m, f) PROVE Settled(m, f)'
      <4>1. Arrived(m, f)'
        BY <1>2, <3>4 DEF Settled, Arrived, Sent
      <4>2. Earlier(f, rx'[m])
        BY <3>1, <3>2, <3>4, NetworkAssumption DEF Settled, Arrived, Earlier
      <4> QED
        BY <3>4, <4>1, <4>2 DEF Settled, Earlier
    <3>5. UNCHANGED <<messages[m], nexToWrite[m], nextToRead[m], got[m]>>
      BY DEF CardSends, ring
    <3> QED
      BY <3>3, <3>4, <3>5 DEF WayInv, NodeInOrder, IsUnread, Earlier
  <2> QED
    BY <2>1, <2>2
<1> QED
  BY <1>1, <1>3, <1>4 DEF WayInv

LEMMA HandlerKeepsWay ==
  ASSUME WayInv, NEW n \in Node, rtlHandler(n)
  PROVE  WayInv'
<1>1. RingInv'
  BY HandlerKeepsRing DEF WayInv
<1>2. /\ sends' = sends /\ got' = got /\ nextToRead' = nextToRead
      /\ rx' = [rx EXCEPT ![n] = NONE] /\ tx' = [tx EXCEPT ![n] = NONE]
      /\ rx \in [Node -> Frame \cup {NONE}] /\ tx \in [Node -> Frame \cup {NONE}]
  BY DEF WayInv, RingInv, TypeOK, rtlHandler, initRTL
<1>3. OnItsWayOut'
  BY <1>2 DEF WayInv, OnItsWayOut, Sent
<1>4. ASSUME NEW m \in Node, NEW f, Arrived(m, f) PROVE Arrived(m, f)'
  BY <1>2, <1>4 DEF Arrived, Sent
<1>5. ASSUME NEW m \in Node, NEW f, Settled(m, f) PROVE Settled(m, f)'
  BY <1>2, <1>4, <1>5 DEF Settled, Earlier
<1>6. ASSUME NEW m \in Node PROVE NodeInOrder(m)'
  <2>1. CASE UNCHANGED <<messages[m], nexToWrite[m]>>
    <3>1. rx'[m] # NONE => Arrived(m, rx[m])'
      BY <1>2, <1>4 DEF WayInv, NodeInOrder
    <3> QED
      BY <1>2, <1>5, <2>1, <3>1 DEF WayInv, NodeInOrder, IsUnread, Earlier
  <2>2. CASE m = n /\ "ROK" \in isr[n] /\ slotIsFree(n) /\ isForMe(n, rx[n])
    <3> DEFINE w == nexToWrite[n]
               r == nextToRead[n]
    <3>1. rx[n] \in Frame /\ rx[n] # NONE
      BY <2>2 DEF WayInv, RingInv, TypeOK, CardHoldsFrame
    <3>2. /\ w \in Slot /\ r \in Slot
          /\ messages'[n] = [messages[n] EXCEPT ![w] = rx[n]]
          /\ nexToWrite'[n] = wrap(w + 1)
          /\ messages[n] \in [Slot -> Frame \cup {NONE}]
      BY <2>2 DEF WayInv, RingInv, TypeOK, rtlHandler, takeIn
    <3>3. \A s \in Slot : IsUnread(n, s)' /\ s # w => IsUnread(n, s) /\ ~Ahead(r, w, s)
      BY <1>2, <3>2, TakenIsLast DEF IsUnread
    <3>4. messages'[n][w] = rx[n] /\ \A s \in Slot \ {w} : messages'[n][s] = messages[n][s]
      BY <3>2
    <3>5. ASSUME NEW f, f = rx[n] PROVE Settled(n, f)'
      <4>1. Arrived(n, f)'
        BY <1>4, <3>1, <3>5 DEF WayInv, NodeInOrder
      <4>2. rx'[n] = NONE /\ f.macDest \in {n, BROADCAST}
        BY <1>2, <2>2, <3>5 DEF isForMe
      <4> QED
        BY <4>1, <4>2 DEF Settled
    <3>6. ASSUME NEW s \in Slot, IsUnread(n, s)' PROVE Settled(n, messages[n][s])'
      <4>1. CASE s = w
        BY <3>4, <3>5, <4>1
      <4>2. CASE s # w
        BY <1>5, <3>3, <3>4, <3>6, <4>2 DEF WayInv, NodeInOrder
      <4> QED
        BY <4>1, <4>2
    <3>7. ASSUME NEW s \in Slot, NEW t \in Slot, IsUnread(n, s)', IsUnread(n, t)',
                 Ahead(r, s, t)
          PROVE  Earlier(messages'[n][s], messages'[n][t])
      <4>1. CASE s = w
        BY <3>2, <3>3, <3>7, <4>1 DEF Ahead, Slot
      <4>2. CASE s # w /\ t = w
        BY <3>1, <3>3, <3>4, <3>7, <4>2 DEF WayInv, NodeInOrder, Settled
      <4>3. CASE s # w /\ t # w
        BY <3>3, <3>4, <3>7, <4>3 DEF WayInv, NodeInOrder
      <4> QED
        BY <4>1, <4>2, <4>3
    <3>8. ASSUME NEW j \in DOMAIN got[n], NEW s \in Slot, IsUnread(n, s)'
          PROVE  Earlier(got[n][j], messages'[n][s])
      <4>1. CASE s = w
        BY <3>1, <3>4, <4>1 DEF WayInv, NodeInOrder, Settled
      <4>2. CASE s # w
        BY <3>3, <3>4, <3>8, <4>2 DEF WayInv, NodeInOrder
      <4> QED
        BY <4>1, <4>2
    <3>9. rx'[n] = NONE
      BY <1>2
    <3> QED
      BY <1>2, <1>5, <2>2, <3>6, <3>7, <3>8, <3>9 DEF WayInv, NodeInOrder, Earlier
  <2> QED
    BY <2>1, <2>2 DEF WayInv, RingInv, TypeOK, rtlHandler, takeIn
<1> QED
  BY <1>1, <1>3, <1>6 DEF WayInv

LEMMA GetMsgKeepsWay ==
  ASSUME WayInv, NEW n \in Node, getMsg(n)
  PROVE  WayInv'
<1> DEFINE r == nextToRead[n]
           w == nexToWrite[n]
<1>1. RingInv'
  BY GetMsgKeepsRing DEF WayInv
<1>2. UNCHANGED <<messages, nexToWrite, rx, tx, sends>>
  BY DEF getMsg, card
<1>3. OnItsWayOut'
  BY <1>2 DEF WayInv, OnItsWayOut, Sent
<1>4. ASSUME NEW m \in Node, NEW f, Settled(m, f) PROVE Settled(m, f)'
  BY <1>2, <1>4 DEF Settled, Arrived, Earlier, Sent
<1>5. ASSUME NEW m \in Node PROVE NodeInOrder(m)'
  <2>1. rx'[m] # NONE => Arrived(m, rx[m])'
    BY <1>2, <1>5 DEF WayInv, NodeInOrder, Arrived, Sent
  <2>2. CASE m # n
    <3>1. UNCHANGED <<nextToRead[m], got[m]>>
      BY <2>2 DEF WayInv, RingInv, TypeOK, getMsg
    <3> QED
      BY <1>2, <1>4, <2>1, <3>1 DEF WayInv, NodeInOrder, IsUnread, Earlier
  <2>3. CASE m = n
    <3>1. /\ r \in Slot /\ w \in Slot /\ r # w
          /\ got[n] \in Seq(Frame) /\ messages[n][r] \in Frame
          /\ got'[n] = Append(got[n], messages[n][r])
          /\ nextToRead'[n] = wrap(r + 1)
      BY ReadsFrame DEF WayInv, RingInv, TypeOK, getMsg
    <3>2. IsUnread(n, r)
      BY <3>1, ReadIsFirst DEF IsUnread
    <3>3. \A s \in Slot : IsUnread(n, s)' => IsUnread(n, s) /\ Ahead(r, r, s)
      BY <1>2, <3>1, ReadIsFirst DEF IsUnread
    <3>4. \A s, t \in Slot :
            IsUnread(n, s)' /\ IsUnread(n, t)' /\ Ahead(wrap(r + 1), s, t) => Ahead(r, s, t)
      BY <1>2, <3>1, ReadIsFirst DEF IsUnread
    <3>5. \A j \in DOMAIN got'[n] :
            \/ j \in DOMAIN got[n] /\ got'[n][j] = got[n][j]
            \/ j = Len(got[n]) + 1 /\ got'[n][j] = messages[n][r]
      BY <3>1
    <3>6. \A s \in Slot : IsUnread(n, s)' => Settled(n, messages[n][s])'
      BY <1>2, <1>4, <3>3 DEF WayInv, NodeInOrder
    <3>7. \A j \in DOMAIN got'[n] : Settled(n, got[n][j])'
      <4> SUFFICES ASSUME NEW f, Settled(n, f) PROVE Settled(n, f)'
        BY <3>1, <3>2, <3>5 DEF WayInv, NodeInOrder
      <4> QED
        BY <1>4
    <3>8. \A s, t \in Slot :
            IsUnread(n, s)' /\ IsUnread(n, t)' /\ Ahead(wrap(r + 1), s, t) =>
              Earlier(messages[n][s], messages[n][t])
      BY <3>3, <3>4 DEF WayInv, NodeInOrder
    <3>9. \A j \in DOMAIN got'[n], s \in Slot :
            IsUnread(n, s)' => Earlier(got'[n][j], messages[n][s])
      BY <3>1, <3>2, <3>3, <3>5 DEF WayInv, NodeInOrder
    <3>10. \A j \in DOMAIN got'[n] : \A i \in 1..(j - 1) : Earlier(got'[n][i], got'[n][j])
      <4> SUFFICES ASSUME NEW j \in DOMAIN got'[n], NEW i \in 1..(j - 1)
                   PROVE  Earlier(got'[n][i], got'[n][j])
        OBVIOUS
      <4>1. i \in DOMAIN got[n] /\ got'[n][i] = got[n][i]
        BY <3>1
      <4>2. CASE j \in DOMAIN got[n] /\ got'[n][j] = got[n][j]
        BY <4>1, <4>2 DEF WayInv, NodeInOrder
      <4>3. CASE got'[n][j] = messages[n][r]
        BY <3>1, <3>2, <4>1, <4>3 DEF WayInv, NodeInOrder
      <4> QED
        BY <3>5, <4>2, <4>3
    <3> QED
      BY <1>2, <2>1, <2>3, <3>1, <3>6, <3>7, <3>8, <3>9, <3>10 DEF NodeInOrder, Earlier
  <2> QED
    BY <2>2, <2>3
<1> QED
  BY <1>1, <1>3, <1>5 DEF WayInv

LEMMA WayStep == WayInv /\ [Next]_vars => WayInv'
<1> SUFFICES ASSUME WayInv, [Next]_vars PROVE WayInv'
  OBVIOUS
<1>1. ASSUME NEW n \in Node, NEW dest \in (Node \ {n}) \cup {BROADCAST}, sendMsg(n, dest)
      PROVE  WayInv'
  BY <1>1, SendKeepsWay
<1>2. ASSUME NEW n \in Node, NEW lost \in SUBSET (Node \ {n}), CardSends(n, lost)
      PROVE  WayInv'
  BY <1>2, CardSendsKeepsWay
<1>3. ASSUME NEW n \in Node, rtlHandler(n) PROVE WayInv'
  BY <1>3, HandlerKeepsWay
<1>4. ASSUME NEW n \in Node, getMsg(n) PROVE WayInv'
  BY <1>4, GetMsgKeepsWay
<1>5. CASE UNCHANGED <<ring, card, got, sends>>
  <2>1. RingInv'
    BY RingStep DEF WayInv
  <2>2. OnItsWayOut'
    BY <1>5 DEF WayInv, OnItsWayOut, Sent, card
  <2>3. \A n \in Node : NodeInOrder(n)'
    BY <1>5 DEF WayInv, NodeInOrder, IsUnread, Settled, Arrived, Sent, Earlier, ring, card
  <2> QED
    BY <2>1, <2>2, <2>3 DEF WayInv
<1> QED
  BY <1>1, <1>2, <1>3, <1>4, <1>5 DEF Next, Read, vars

\* Messages reach a program in the order they were sent in, none of them twice and
\* none that was for somebody else, for any number of nodes and however many
\* frames the wire, the card and the ring lose (RTL8139.c:115-187).
THEOREM MessagesArriveInOrder == Spec => []InOrderOnce
<1>1. WayInv => InOrderOnce
  BY DEF WayInv, NodeInOrder, Settled, Arrived, Earlier, InOrderOnce
<1> QED
  BY <1>1, WayInit, WayStep, PTL DEF Spec

----------------------------------------------------------------------------
\* Only a message whose length leaves the byte corrupts its reader.
CorruptByLong ==
  \A n \in Node :
    kernel[n] = "corrupt" => \E j \in DOMAIN got[n] : Length[got[n][j].id] + 1 >= BYTE

\* What the writer makes of a length that fits, the reader undoes.
LEMMA LengthRoundTrip ==
  ASSUME NEW l \in Nat, l + 1 < BYTE
  PROVE  readLength(wireLength(l)) = l
<1>1. wireLength(l) = l + 1
  <2>1. BYTE \in Nat \ {0} /\ l + 1 \in 0..(BYTE - 1)
    BY NetworkAssumption
  <2> QED
    BY <2>1, SmallMod DEF wireLength
<1>2. BYTE * BYTE \in Nat \ {0} /\ l \in 0..(BYTE * BYTE - 1)
  <2>1. BYTE * BYTE >= BYTE
    BY NetworkAssumption
  <2> QED
    BY <2>1, NetworkAssumption
<1>3. l % (BYTE * BYTE) = l
  BY <1>2, SmallMod
<1>4. (l + 1) - 1 = l
  OBVIOUS
<1> QED
  BY <1>1, <1>3, <1>4 DEF readLength

LEMMA CorruptStep == WayInv /\ CorruptByLong /\ [Next]_vars => CorruptByLong'
<1> SUFFICES ASSUME WayInv, CorruptByLong, [Next]_vars PROVE CorruptByLong'
  OBVIOUS
<1>1. CASE UNCHANGED <<kernel, got>>
  BY <1>1 DEF CorruptByLong
<1>2. ASSUME NEW n \in Node, getMsg(n) PROVE CorruptByLong'
  <2> DEFINE frame == messages[n][nextToRead[n]]
             l == Length[frame.id]
  <2>1. /\ frame \in Frame /\ got[n] \in Seq(Frame) /\ l \in Nat
        /\ got' = [got EXCEPT ![n] = Append(got[n], frame)]
    BY <1>2, ReadsFrame, NetworkAssumption DEF WayInv, RingInv, TypeOK, getMsg, Frame
  <2>2. frame.length = wireLength(l)
    <3>1. nextToRead[n] \in Slot /\ IsUnread(n, nextToRead[n])
      BY <1>2, ReadIsFirst DEF WayInv, RingInv, TypeOK, getMsg, IsUnread
    <3> QED
      BY <3>1 DEF WayInv, NodeInOrder, Settled, Arrived, Sent
  <2>3. ASSUME NEW m \in Node, kernel'[m] = "corrupt"
        PROVE  \E j \in DOMAIN got'[m] : Length[got'[m][j].id] + 1 >= BYTE
    <3>1. CASE kernel[m] = "corrupt"
      <4>1. PICK j \in DOMAIN got[m] : Length[got[m][j].id] + 1 >= BYTE
        BY <3>1 DEF CorruptByLong
      <4>2. j \in DOMAIN got'[m] /\ got'[m][j] = got[m][j]
        BY <2>1, <4>1 DEF WayInv, RingInv, TypeOK
      <4> QED
        BY <4>1, <4>2
    <3>2. CASE kernel[m] # "corrupt"
      <4>1. m = n /\ readLength(frame.length) >= BYTE
        BY <1>2, <2>3, <3>2 DEF getMsg, WayInv, RingInv, TypeOK
      <4>2. l + 1 >= BYTE
        <5> SUFFICES ASSUME l + 1 < BYTE PROVE FALSE
          BY <2>1, NetworkAssumption
        <5>1. readLength(frame.length) = l
          BY <2>1, <2>2, LengthRoundTrip
        <5> QED
          BY <2>1, <4>1, <5>1, NetworkAssumption
      <4>3. /\ Len(got[n]) + 1 \in DOMAIN got'[n]
            /\ got'[n][Len(got[n]) + 1] = frame
        BY <2>1 DEF WayInv, RingInv, TypeOK
      <4> QED
        BY <4>1, <4>2, <4>3
    <3> QED
      BY <3>1, <3>2
  <2> QED
    BY <2>3 DEF CorruptByLong
<1> QED
  BY <1>1, <1>2 DEF Next, sendMsg, CardSends, rtlHandler, Read, vars

\* A message whose length and type fit in a byte arrives with its length, and only
\* a longer one corrupts the reader, for any width of the byte
\* (RTL8139.c:78, :123).
THEOREM LengthsArrive == Spec => []LengthSurvives
<1>1. Init => CorruptByLong
  BY DEF Init, CorruptByLong
<1>2. WayInv /\ CorruptByLong => LengthSurvives
  <2> SUFFICES ASSUME WayInv, NEW n \in Node, NEW j \in DOMAIN got[n],
                      Length[got[n][j].id] + 1 < BYTE
               PROVE  readLength(got[n][j].length) = Length[got[n][j].id]
    BY DEF LengthSurvives, CorruptByLong
  <2>1. got[n][j] \in Frame
    BY DEF WayInv, RingInv, TypeOK
  <2>2. Length[got[n][j].id] \in Nat
    BY <2>1, NetworkAssumption DEF Frame
  <2>3. got[n][j].length = wireLength(Length[got[n][j].id])
    BY DEF WayInv, NodeInOrder, Settled, Arrived, Sent
  <2> QED
    BY <2>2, <2>3, LengthRoundTrip
<1> QED
  BY <1>1, <1>2, WayInit, WayStep, CorruptStep, PTL DEF Spec

----------------------------------------------------------------------------
(* The ring implements the mailbox. *)

\* How many slots there are from r to w, and which is the k-th of them.
Distance(r, w) == IF r <= w THEN w - r ELSE w - r + N
Place(r, k) == IF r + k - 1 < N THEN r + k - 1 ELSE r + k - 1 - N

LEMMA NegativeMod ==
  ASSUME NEW m \in Nat \ {0}, NEW k \in Int, -m < k, k < 0
  PROVE  k % m = k + m
OBVIOUS

LEMMA OneAround ==
  ASSUME NEW m \in Nat \ {0}, NEW k \in m..(2 * m - 1)
  PROVE  k % m = k - m
OBVIOUS

LEMMA UnreadIndices ==
  ASSUME NEW r \in Slot, NEW w \in Slot
  PROVE  /\ (w - r) % N = Distance(r, w)
         /\ \A k \in 1..Distance(r, w) : (r + k - 1) % N = Place(r, k)
<1>1. r \in 0..(N - 1) /\ w \in 0..(N - 1) /\ N \in Nat \ {0}
  BY NetworkAssumption DEF Slot, N
<1>2. (w - r) % N = Distance(r, w)
  <2>1. CASE r <= w
    <3>1. w - r \in 0..(N - 1)
      BY <1>1, <2>1
    <3> QED
      BY <1>1, <2>1, <3>1, SmallMod DEF Distance
  <2>2. CASE ~(r <= w)
    <3>1. w - r \in Int /\ -N < w - r /\ w - r < 0
      BY <1>1, <2>2
    <3> QED
      BY <1>1, <2>2, <3>1, NegativeMod DEF Distance
  <2> QED
    BY <2>1, <2>2
<1>3. ASSUME NEW k \in 1..Distance(r, w) PROVE (r + k - 1) % N = Place(r, k)
  <2>1. k \in 1..(N - 1)
    BY <1>1, <1>3 DEF Distance
  <2>2. CASE r + k - 1 < N
    <3>1. r + k - 1 \in 0..(N - 1)
      BY <1>1, <2>1, <2>2
    <3> QED
      BY <1>1, <2>2, <3>1, SmallMod DEF Place
  <2>3. CASE ~(r + k - 1 < N)
    <3>1. r + k - 1 \in N..(2 * N - 1)
      BY <1>1, <2>1, <2>3
    <3> QED
      <4>1. N \in Nat \ {0}
        BY <1>1
      <4>2. \A i \in N..(2 * N - 1) : i % N = i - N
        BY <4>1, OneAround
      <4>3. (r + k - 1) % N = r + k - 1 - N
        BY <1>1, <2>1, <3>1, <4>2
      <4> QED
        BY <2>3, <4>3 DEF Place
  <2> QED
    BY <2>2, <2>3
<1> QED
  BY <1>2, <1>3

LEMMA UnreadIs ==
  ASSUME TypeOK, NEW n \in Node
  PROVE  Unread(n) = [k \in 1..Distance(nextToRead[n], nexToWrite[n]) |->
                        messages[n][Place(nextToRead[n], k)]]
<1>1. nextToRead[n] \in Slot /\ nexToWrite[n] \in Slot
  BY DEF TypeOK
<1> QED
  BY <1>1, UnreadIndices DEF Unread, N

LEMMA UnreadIsNext ==
  ASSUME TypeOK', NEW n \in Node
  PROVE  Unread(n)' = [k \in 1..Distance(nextToRead'[n], nexToWrite'[n]) |->
                         messages'[n][Place(nextToRead'[n], k)]]
<1>1. nextToRead'[n] \in Slot /\ nexToWrite'[n] \in Slot
  BY DEF TypeOK
<1> QED
  BY <1>1, UnreadIndices DEF Unread, N


LEMMA PlaceFacts ==
  ASSUME NEW r \in Slot, NEW w \in Slot
  PROVE  /\ Distance(r, w) \in 0..(N - 1)
         /\ \A k \in 1..Distance(r, w) :
              Place(r, k) \in Slot /\ Place(r, k) # w /\ Between(r, w, Place(r, k))
BY NetworkAssumption DEF Slot, N, Distance, Place, Between

LEMMA TakeMoves ==
  ASSUME NEW r \in Slot, NEW w \in Slot
  PROVE  LET w2 == wrap(w + 1)
         IN /\ w2 = r => Distance(r, w) = N - 1 /\ Distance(r, w2) = 0
            /\ w2 # r => /\ Distance(r, w) < N - 1
                         /\ Distance(r, w2) = Distance(r, w) + 1
                         /\ Place(r, Distance(r, w) + 1) = w
<1>1. N \in Nat /\ r \in 0..(N - 1) /\ w \in 0..(N - 1)
  BY NetworkAssumption DEF Slot, N
<1>2. CASE w + 1 = N
  <2>1. wrap(w + 1) = 0
    BY <1>2, WrapStep
  <2> QED BY <1>1, <1>2, <2>1 DEF Distance, Place
<1>3. CASE w + 1 # N
  <2>1. wrap(w + 1) = w + 1
    BY <1>3, WrapStep
  <2> QED BY <1>1, <1>3, <2>1 DEF Distance, Place
<1> QED BY <1>2, <1>3

LEMMA ReadMoves ==
  ASSUME NEW r \in Slot, NEW w \in Slot, r # w
  PROVE  LET r2 == wrap(r + 1)
         IN /\ Distance(r, w) > 0 /\ Distance(r2, w) = Distance(r, w) - 1
            /\ Place(r, 1) = r
            /\ \A k \in 1..Distance(r2, w) : Place(r2, k) = Place(r, k + 1)
<1>1. N \in Nat /\ r \in 0..(N - 1) /\ w \in 0..(N - 1)
  BY NetworkAssumption DEF Slot, N
<1>2. CASE r + 1 = N
  <2>1. wrap(r + 1) = 0
    BY <1>2, WrapStep
  <2>2. \A k \in 1..Distance(0, w) : Place(0, k) = Place(r, k + 1)
    BY <1>1, <1>2 DEF Distance, Place
  <2> QED BY <1>1, <1>2, <2>1, <2>2 DEF Distance, Place
<1>3. CASE r + 1 # N
  <2>1. wrap(r + 1) = r + 1
    BY <1>3, WrapStep
  <2>2. \A k \in 1..Distance(r + 1, w) : Place(r + 1, k) = Place(r, k + 1)
    BY <1>1, <1>3 DEF Distance, Place
  <2> QED BY <1>1, <1>3, <2>1, <2>2 DEF Distance, Place
<1> QED BY <1>2, <1>3

LEMMA UnreadIsSeq ==
  ASSUME RingInv, NEW n \in Node
  PROVE  /\ Unread(n) \in Seq(Frame)
         /\ Len(Unread(n)) = Distance(nextToRead[n], nexToWrite[n])
<1> DEFINE r == nextToRead[n]
           w == nexToWrite[n]
<1>1. r \in Slot /\ w \in Slot /\ messages[n] \in [Slot -> Frame \cup {NONE}]
  BY DEF RingInv, TypeOK
<1>2. ASSUME NEW k \in 1..Distance(r, w) PROVE messages[n][Place(r, k)] \in Frame
  <2>1. Place(r, k) \in Slot /\ Between(r, w, Place(r, k))
    BY <1>1, PlaceFacts
  <2>2. messages[n][Place(r, k)] # NONE
    BY <1>1, <2>1, NetworkAssumption DEF RingInv, WrittenFromStart, Between, Slot
  <2> QED
    BY <1>1, <2>1, <2>2
<1>3. Distance(r, w) \in Nat
  BY <1>1, PlaceFacts, NetworkAssumption DEF N
<1>4. Unread(n) = [k \in 1..Distance(r, w) |-> messages[n][Place(r, k)]]
  BY UnreadIs DEF RingInv
<1> QED
  BY <1>2, <1>3, <1>4

\* A node that has the same ring has the same unread messages.
LEMMA SameUnread ==
  ASSUME NEW n \in Node, UNCHANGED <<messages[n], nexToWrite[n], nextToRead[n]>>
  PROVE  Unread(n)' = Unread(n)
BY DEF Unread

Pending == [n \in Node |-> Unread(n)]

LEMMA TakeImplements ==
  ASSUME RingInv, RingInv', NEW n \in Node, NEW frame \in Frame, takeIn(n, frame),
         UNCHANGED <<nextToRead, got>>
  PROVE  Implements!Next
<1> DEFINE r == nextToRead[n]
           w == nexToWrite[n]
           d == Distance(r, w)
<1>1. /\ r \in Slot /\ w \in Slot
      /\ messages' = [messages EXCEPT ![n] = [messages[n] EXCEPT ![w] = frame]]
      /\ nexToWrite'[n] = wrap(w + 1) /\ nextToRead'[n] = r
      /\ messages[n] \in [Slot -> Frame \cup {NONE}]
  BY DEF RingInv, TypeOK, takeIn
<1>2. \A m \in Node \ {n} : Unread(m)' = Unread(m)
  BY <1>1, SameUnread DEF RingInv, TypeOK, takeIn
<1>3. Pending' = [Pending EXCEPT ![n] = Unread(n)']
  BY <1>2 DEF Pending
<1>4. d \in 0..(N - 1) /\ Len(Unread(n)) = d /\ Unread(n) \in Seq(Frame)
  BY <1>1, PlaceFacts, UnreadIsSeq
<1>5. Unread(n) = [k \in 1..d |-> messages[n][Place(r, k)]]
  BY UnreadIs DEF RingInv
<1>6. Unread(n)' = [k \in 1..Distance(r, wrap(w + 1)) |-> messages'[n][Place(r, k)]]
  BY <1>1, UnreadIsNext DEF RingInv
<1>7. CASE wrap(w + 1) = r
  <2>1. d = N - 1 /\ Unread(n)' = <<>>
    BY <1>1, <1>6, <1>7, TakeMoves
  <2>2. Implements!Overrun(n)
    BY <1>3, <1>4, <2>1 DEF Implements!Overrun, Pending, N
  <2> QED
    BY <2>2 DEF Implements!Next
<1>8. CASE wrap(w + 1) # r
  <2>1. d < N - 1 /\ Distance(r, wrap(w + 1)) = d + 1 /\ Place(r, d + 1) = w
    BY <1>1, <1>8, TakeMoves
  <2>2. \A k \in 1..d : messages'[n][Place(r, k)] = messages[n][Place(r, k)]
    BY <1>1, PlaceFacts DEF RingInv, TypeOK
  <2>3. messages'[n][w] = frame
    BY <1>1 DEF RingInv, TypeOK
  <2>4. Unread(n)' = Append(Unread(n), frame)
    <3> DEFINE u == [k \in 1..d |-> messages[n][Place(r, k)]]
    <3>1. Append(u, frame) = [k \in 1..(d + 1) |-> IF k = d + 1 THEN frame ELSE u[k]]
      BY <1>4, <1>5
    <3>2. ASSUME NEW k \in 1..(d + 1)
          PROVE  messages'[n][Place(r, k)] = IF k = d + 1 THEN frame ELSE u[k]
      <4>1. CASE k = d + 1
        BY <2>1, <2>3, <4>1
      <4>2. CASE k # d + 1
        <5>1. k \in 1..d
          BY <1>4, <4>2, NetworkAssumption DEF N
        <5> QED
          BY <4>2, <5>1, <2>2
      <4> QED
        BY <4>1, <4>2
    <3> QED
      BY <1>5, <1>6, <2>1, <3>1, <3>2
  <2>5. Implements!Take(n)
    BY <1>3, <1>4, <2>1, <2>4 DEF Implements!Take, Pending, N
  <2> QED
    BY <2>5 DEF Implements!Next
<1> QED
  BY <1>7, <1>8

LEMMA LenDomain ==
  ASSUME NEW S, NEW q \in Seq(S)
  PROVE  q \in [1..Len(q) -> S]
OBVIOUS

LEMMA TailIs ==
  ASSUME NEW S, NEW q \in Seq(S), q # <<>>
  PROVE  Tail(q) = [k \in 1..(Len(q) - 1) |-> q[k + 1]]
<1>1. Tail(q) \in Seq(S) /\ Len(Tail(q)) = Len(q) - 1
  OBVIOUS
<1>2. \A k \in 1..(Len(q) - 1) : Tail(q)[k] = q[k + 1]
  OBVIOUS
<1>3. Tail(q) \in [1..(Len(q) - 1) -> S]
  BY <1>1, LenDomain
<1> QED
  BY <1>2, <1>3

LEMMA HandOutImplements ==
  ASSUME RingInv, RingInv', NEW n \in Node, getMsg(n)
  PROVE  Implements!Next
<1> DEFINE r == nextToRead[n]
           w == nexToWrite[n]
           d == Distance(r, w)
<1>1. /\ r \in Slot /\ w \in Slot /\ r # w
      /\ messages' = messages /\ nexToWrite' = nexToWrite /\ nextToRead'[n] = wrap(r + 1)
      /\ got' = [got EXCEPT ![n] = Append(got[n], messages[n][r])]
  BY DEF RingInv, TypeOK, getMsg
<1>2. \A m \in Node \ {n} : Unread(m)' = Unread(m)
  BY <1>1, SameUnread DEF RingInv, TypeOK, getMsg
<1>3. Pending' = [Pending EXCEPT ![n] = Unread(n)']
  BY <1>2 DEF Pending
<1>4. d \in 1..(N - 1) /\ Distance(wrap(r + 1), w) = d - 1 /\ Place(r, 1) = r
  BY <1>1, PlaceFacts, ReadMoves, NetworkAssumption DEF N
<1>5. Unread(n) = [k \in 1..d |-> messages[n][Place(r, k)]]
  BY UnreadIs DEF RingInv
<1>6. Unread(n) \in Seq(Frame) /\ Len(Unread(n)) = d
  BY UnreadIsSeq
<1>7. Head(Unread(n)) = messages[n][r] /\ Unread(n) # <<>>
  BY <1>4, <1>5, <1>6
<1>8. Unread(n)' = Tail(Unread(n))
  <2>1. Unread(n)' = [k \in 1..(d - 1) |-> messages[n][Place(wrap(r + 1), k)]]
    BY <1>1, <1>4, UnreadIsNext DEF RingInv
  <2>2. \A k \in 1..(d - 1) : Place(wrap(r + 1), k) = Place(r, k + 1)
    BY <1>1, <1>4, ReadMoves
  <2>3. Tail(Unread(n)) = [k \in 1..(d - 1) |-> Unread(n)[k + 1]]
    BY <1>6, <1>7, TailIs
  <2>4. \A k \in 1..(d - 1) : Unread(n)[k + 1] = messages[n][Place(r, k + 1)]
    BY <1>4, <1>5
  <2> QED
    BY <2>1, <2>2, <2>3, <2>4
<1>9. Implements!HandOut(n)
  BY <1>1, <1>3, <1>7, <1>8 DEF Implements!HandOut, Pending
<1> QED
  BY <1>9 DEF Implements!Next

LEMMA MailboxStep == RingInv /\ RingInv' /\ [Next]_vars => [Implements!Next]_(Implements!vars)
<1> SUFFICES ASSUME RingInv, RingInv', [Next]_vars
             PROVE  Implements!Next \/ UNCHANGED Implements!vars
  OBVIOUS
<1>1. CASE UNCHANGED <<ring, got>>
  <2>1. \A n \in Node : Unread(n)' = Unread(n)
    BY <1>1, SameUnread DEF ring
  <2> QED
    BY <1>1, <2>1 DEF Implements!vars
<1>2. ASSUME NEW n \in Node, rtlHandler(n)
      PROVE  Implements!Next \/ UNCHANGED Implements!vars
  <2>1. CASE "ROK" \in isr[n] /\ slotIsFree(n) /\ isForMe(n, rx[n])
    <3>1. rx[n] \in Frame
      BY <2>1 DEF RingInv, TypeOK, CardHoldsFrame
    <3>2. takeIn(n, rx[n]) /\ UNCHANGED <<nextToRead, got>>
      BY <1>2, <2>1 DEF rtlHandler
    <3> QED
      BY <3>1, <3>2, TakeImplements
  <2>2. CASE ~("ROK" \in isr[n] /\ slotIsFree(n) /\ isForMe(n, rx[n]))
    BY <1>1, <1>2, <2>2 DEF rtlHandler, ring
  <2> QED
    BY <2>1, <2>2
<1>3. ASSUME NEW n \in Node, getMsg(n)
      PROVE  Implements!Next \/ UNCHANGED Implements!vars
  BY <1>3, HandOutImplements
<1> QED
  BY <1>1, <1>2, <1>3 DEF Next, sendMsg, CardSends, Read, vars

\* The frame ring of any size implements the mailbox: frames are handed out in the
\* order they were taken in, once, and lost only all together, when the ring
\* overflows (RTL8139.c:115-132, :156-172).
THEOREM RingImplementsMailbox == Spec => RingIsMailbox
<1>1. Init => Implements!Init
  <2> SUFFICES ASSUME Init PROVE Implements!Init
    OBVIOUS
  <2>1. ASSUME NEW n \in Node PROVE Unread(n) = <<>>
    <3>1. nextToRead[n] = 0 /\ nexToWrite[n] = 0 /\ RingInv
      BY RingInit DEF Init
    <3>2. Distance(0, 0) = 0
      BY DEF Distance
    <3> QED
      BY <3>1, <3>2, UnreadIs DEF RingInv
  <2> QED
    BY <2>1 DEF Init, Implements!Init
<1> QED
  BY <1>1, RingInit, RingStep, MailboxStep, PTL DEF Spec, RingIsMailbox, Implements!Spec
=============================================================================
