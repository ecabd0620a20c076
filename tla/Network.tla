------------------------------ MODULE Network ------------------------------
(***************************************************************************)
(* The RTL8139 driver (RTL8139.c) of several kernels on one wire, and the  *)
(* programs that read and write the ethernet descriptor (systemCalls.c).   *)
(* The driver keeps received frames in a ring; the card has one frame at a *)
(* time on its way out, because transmit always uses descriptor 0, and one *)
(* on its way in, because the handler looks only at the first frame of the *)
(* receive buffer and then resets the card.                                *)
(* Payloads are the number of the message and its length.                  *)
(***************************************************************************)
EXTENDS Integers, Sequences

CONSTANTS
  Node,
  ZeroFirst,             \* nodes whose address begins with a zero byte
  MESSAGE_BUFFER_SIZE,
  BYTE,                  \* values of a byte
  MaxSends,              \* bound: messages sent
  Length,                \* the length of each of them
  BROADCAST, NONE

Slot == 0..(MESSAGE_BUFFER_SIZE - 1)
Frame == [id : 1..MaxSends, macDest : Node \cup {BROADCAST}, macSrc : Node,
          length : 0..(BYTE - 1)]

ASSUME NetworkAssumption ==
  /\ ZeroFirst \subseteq Node
  /\ MESSAGE_BUFFER_SIZE \in Nat \ {0}
  /\ BYTE \in Nat \ {0, 1}
  /\ MaxSends \in Nat
  /\ Length \in [1..MaxSends -> Nat]
  /\ BROADCAST \notin Node
  /\ NONE \notin Frame

VARIABLES
  messages,                \* the ring of each node
  nexToWrite, nextToRead,
  rx, tx,                  \* the card: the frame it received, the frame to send
  isr,                     \* interrupts the card asks for
  reader,                  \* "idle", or "reading" inside read(ETHERNET_FD)
  got,                     \* messages that reads have returned
  sends,                   \* messages sent
  kernel                   \* "running", or "corrupt" after a copy past all buffers

ring == <<messages, nexToWrite, nextToRead>>
card == <<rx, tx, isr>>
vars == <<ring, card, reader, got, sends, kernel>>

Init ==
  /\ messages = [n \in Node |-> [s \in Slot |-> NONE]]
  /\ nexToWrite = [n \in Node |-> 0]
  /\ nextToRead = [n \in Node |-> 0]
  /\ rx = [n \in Node |-> NONE]
  /\ tx = [n \in Node |-> NONE]
  /\ isr = [n \in Node |-> {}]
  /\ reader = [n \in Node |-> "idle"]
  /\ got = [n \in Node |-> <<>>]
  /\ sends = 0
  /\ kernel = [n \in Node |-> "running"]

TypeOK ==
  /\ messages \in [Node -> [Slot -> Frame \cup {NONE}]]
  /\ nexToWrite \in [Node -> Slot]
  /\ nextToRead \in [Node -> Slot]
  /\ rx \in [Node -> Frame \cup {NONE}]
  /\ tx \in [Node -> Frame \cup {NONE}]
  /\ isr \in [Node -> SUBSET {"ROK", "TOK"}]
  /\ reader \in [Node -> {"idle", "reading"}]
  /\ got \in [Node -> Seq(Frame)]
  /\ sends \in 0..MaxSends
  /\ kernel \in [Node -> {"running", "corrupt"}]

----------------------------------------------------------------------------
\* transmit writes one byte of the length of type and message; the other byte of
\* the field is never written.
\* Mutant: the type is not counted.
wireLengthBare(length) == length % BYTE

wireLength(length) == (length + 1) % BYTE

\* msg->length is a uint16_t.
readLength(wire) == (wire - 1) % (BYTE * BYTE)

\* write(ETHERNET_FD): a frame the card has not sent yet is overwritten.
sendMsg(n, dest) ==
  /\ kernel[n] = "running"
  /\ sends < MaxSends
  /\ sends' = sends + 1
  /\ tx' = [tx EXCEPT ![n] = [id |-> sends', macDest |-> dest, macSrc |-> n,
                              length |-> wireLength(Length[sends'])]]
  /\ UNCHANGED <<ring, rx, isr, reader, got, kernel>>

\* The card sends: every other card receives the frame (it accepts all), but for
\* those that the wire loses it on the way to, and those that hold one already.
CardSends(n, lost) ==
  LET Receivers == {m \in Node \ ({n} \cup lost) : rx[m] = NONE}
  IN /\ tx[n] # NONE
     /\ tx' = [tx EXCEPT ![n] = NONE]
     /\ rx' = [m \in Node |-> IF m \in Receivers THEN tx[n] ELSE rx[m]]
     /\ isr' = [m \in Node |-> IF m = n THEN isr[m] \cup {"TOK"}
                               ELSE IF m \in Receivers THEN isr[m] \cup {"ROK"}
                               ELSE isr[m]]
     /\ UNCHANGED <<ring, reader, got, sends, kernel>>

isForMe(n, frame) == frame.macDest \in {n, BROADCAST}

\* !messages[nexToWrite].macDest[0]: true of a slot that was never written, and
\* of one whose frame is for an address that begins with zero.
slotIsFree(n) ==
  LET old == messages[n][nexToWrite[n]] IN old = NONE \/ old.macDest \in ZeroFirst

wrap(pointer) == pointer % MESSAGE_BUFFER_SIZE

takeIn(n, frame) ==
  /\ messages' = [messages EXCEPT ![n][nexToWrite[n]] = frame]
  /\ nexToWrite' = [nexToWrite EXCEPT ![n] = wrap(@ + 1)]

\* The software reset: what was received and what was not yet sent are gone.
initRTL(n) ==
  /\ rx' = [rx EXCEPT ![n] = NONE]
  /\ tx' = [tx EXCEPT ![n] = NONE]
  /\ isr' = [isr EXCEPT ![n] = {}]

\* Mutant: the pointer moves on for a frame that is not taken in, too.
rtlHandlerSkips(n) ==
  /\ kernel[n] = "running" /\ isr[n] # {}
  /\ IF "ROK" \in isr[n] /\ slotIsFree(n) /\ isForMe(n, rx[n])
     THEN takeIn(n, rx[n])
     ELSE /\ nexToWrite' = [nexToWrite EXCEPT ![n] = wrap(@ + 1)]
          /\ UNCHANGED messages
  /\ initRTL(n)
  /\ UNCHANGED <<nextToRead, reader, got, sends, kernel>>

rtlHandler(n) ==
  /\ kernel[n] = "running" /\ isr[n] # {}
  /\ IF "ROK" \in isr[n] /\ slotIsFree(n) /\ isForMe(n, rx[n])
     THEN takeIn(n, rx[n])
     ELSE UNCHANGED <<messages, nexToWrite>>
  /\ initRTL(n)
  /\ UNCHANGED <<nextToRead, reader, got, sends, kernel>>

\* read(ETHERNET_FD) asks the kernel again and again until it gets a message.
Read(n) ==
  /\ kernel[n] = "running" /\ reader[n] = "idle"
  /\ reader' = [reader EXCEPT ![n] = "reading"]
  /\ UNCHANGED <<ring, card, got, sends, kernel>>

\* Mutants: the slot is read and stays the next one to read; the slot before the
\* next one to write counts as empty.
getMsgStays(n) ==
  LET frame == messages[n][nextToRead[n]]
  IN /\ kernel[n] = "running" /\ reader[n] = "reading"
     /\ nextToRead[n] # nexToWrite[n]
     /\ got' = [got EXCEPT ![n] = Append(@, frame)]
     /\ reader' = [reader EXCEPT ![n] = "idle"]
     /\ kernel' = kernel
     /\ UNCHANGED <<ring, card, sends>>

getMsgLeavesLast(n) ==
  /\ (nextToRead[n] + 1) % MESSAGE_BUFFER_SIZE # nexToWrite[n]
  /\ getMsgStays(n)

\* A length field of zero makes the copy longer than any buffer.
getMsg(n) ==
  LET frame == messages[n][nextToRead[n]]
  IN /\ kernel[n] = "running" /\ reader[n] = "reading"
     /\ nextToRead[n] # nexToWrite[n]
     /\ got' = [got EXCEPT ![n] = Append(@, frame)]
     /\ nextToRead' = [nextToRead EXCEPT ![n] = wrap(@ + 1)]
     /\ reader' = [reader EXCEPT ![n] = "idle"]
     /\ kernel' = [kernel EXCEPT ![n] =
                     IF readLength(frame.length) >= BYTE THEN "corrupt" ELSE @]
     /\ UNCHANGED <<messages, nexToWrite, card, sends>>

Next ==
  \E n \in Node :
    \/ \E dest \in (Node \ {n}) \cup {BROADCAST} : sendMsg(n, dest)
    \/ \E lost \in SUBSET (Node \ {n}) : CardSends(n, lost)
    \/ rtlHandler(n) \/ Read(n) \/ getMsg(n)

Spec == Init /\ [][Next]_vars

\* The loop of read goes on: the reader is scheduled again and again.
ReadFair == \A n \in Node : WF_vars(getMsg(n))

----------------------------------------------------------------------------
\* The frames between the two pointers.
Unread(n) ==
  [k \in 1..((nexToWrite[n] - nextToRead[n]) % MESSAGE_BUFFER_SIZE) |->
     messages[n][(nextToRead[n] + k - 1) % MESSAGE_BUFFER_SIZE]]

\* Messages reach a program in the order they were sent in, none of them twice and
\* none that was for somebody else, although frames are lost on the wire, in
\* a busy card, in a reset and in a ring that overflows (RTL8139.c:115-187).
InOrderOnce ==
  \A n \in Node : \A j \in DOMAIN got[n] :
    /\ got[n][j].macDest \in {n, BROADCAST} /\ got[n][j].macSrc # n
    /\ \A i \in 1..(j - 1) :
         got[n][i].macSrc = got[n][j].macSrc => got[n][i].id < got[n][j].id

\* A message arrives with the length it was sent with as long as type and message
\* fit in a byte, and only a longer one corrupts the reader: writer and reader
\* of the field do not agree on its width (RTL8139.c:78, :123).
LengthSurvives ==
  \A n \in Node :
    /\ \A j \in DOMAIN got[n] :
         LET sent == Length[got[n][j].id]
         IN sent + 1 < BYTE => readLength(got[n][j].length) = sent
    /\ kernel[n] = "corrupt" => \E j \in DOMAIN got[n] : Length[got[n][j].id] + 1 >= BYTE

\* A slot that was written once is written again only if the address in it begins
\* with zero: getMsg does not clear it, so that a ring that was written all around
\* takes nothing in any more, read or not (RTL8139.c:115-132, :164).
WrittenOnce ==
  [][\A n \in Node, s \in Slot :
       messages[n][s] # NONE /\ messages[n][s].macDest \notin ZeroFirst
         => messages'[n][s] = messages[n][s]]_vars

\* A frame in the ring gets to the program that reads, unless the ring fills up
\* before: then the pointers are equal and everything unread is lost
\* (RTL8139.c:117, :172, Userland systemCalls.c:7-10).
ReaderGetsFrame ==
  \A n \in Node :
    reader[n] = "reading" /\ Unread(n) # <<>>
      ~> reader[n] = "idle" \/ Unread(n) = <<>> \/ kernel[n] = "corrupt"

\* The ring is a mailbox: it loses frames only all together, when it overflows
\* (RTL8139.c:115-132, :156-172).
Implements ==
  INSTANCE Mailbox WITH
    Capacity <- MESSAGE_BUFFER_SIZE,
    pending <- [n \in Node |-> Unread(n)]
RingIsMailbox == Implements!Spec

============================================================================
