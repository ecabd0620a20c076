-------------------------------- MODULE Pipe --------------------------------
(***************************************************************************)
(* A pipe of pipefs.c: a ring of PIPE_BUF_SIZE characters in which the     *)
(* character 0 marks a free slot.  writeToPipe and readFromPipe are loops  *)
(* over characters that run with interrupts off: nothing happens between   *)
(* their steps.  Senders are any processes, the receiver is the thread of  *)
(* the process the pipe is named for.  Pipes share nothing but the list    *)
(* they are looked up in and are never removed, so that one is enough.     *)
(***************************************************************************)
EXTENDS Naturals, Sequences

CONSTANTS
  PIPE_BUF_SIZE,
  Char,        \* characters but 0
  Messages     \* strings that are sent

ASSUME PipeAssumption ==
  /\ PIPE_BUF_SIZE \in Nat \ {0}
  /\ 0 \notin Char
  /\ Messages \subseteq Seq(Char)

VARIABLES
  buffer, readPointer, writePointer,
  call,        \* the handler at work: "none", "writeToPipe", "readFromPipe"
  buff,        \* what is left to write
  got,         \* what the current or last receive has copied
  receiver,    \* "running", "waiting"
  answer       \* what the last receive that returned gave: "none yet",
               \* "message", "nothing"

vars == <<buffer, readPointer, writePointer, call, buff, got, receiver, answer>>

Slot == 0..(PIPE_BUF_SIZE - 1)

createPipe ==
  /\ buffer = [s \in Slot |-> 0]
  /\ readPointer = 0
  /\ writePointer = 0

Init ==
  /\ createPipe
  /\ call = "none"
  /\ buff = <<>>
  /\ got = <<>>
  /\ receiver = "running"
  /\ answer = "none yet"

TypeOK ==
  /\ buffer \in [Slot -> Char \cup {0}]
  /\ readPointer \in Slot
  /\ writePointer \in Slot
  /\ call \in {"none", "writeToPipe", "readFromPipe"}
  /\ buff \in Seq(Char)
  /\ got \in Seq(Char)
  /\ receiver \in {"running", "waiting"}
  /\ answer \in {"none yet", "message", "nothing"}

----------------------------------------------------------------------------
pointerPosition(pointer) == IF pointer = PIPE_BUF_SIZE THEN 0 ELSE pointer

\* send: by any process.
Send(message) ==
  /\ call = "none"
  /\ call' = "writeToPipe"
  /\ buff' = message
  /\ UNCHANGED <<buffer, readPointer, writePointer, got, receiver, answer>>

\* Mutant: a full ring is written over.
slotIsFreeAlways == TRUE

slotIsFree == buffer[writePointer] = 0

\* unblockAllThreads(pid, BLOCKED_PIPE): the waiting thread returns from
\* receive, with nothing copied.
\* Mutant: the receiver is not woken.
wakeReceiverNot == UNCHANGED <<receiver, answer>>

wakeReceiver ==
  /\ receiver' = "running"
  /\ answer' = IF receiver = "waiting" THEN "nothing" ELSE answer

WriteChar ==
  /\ call = "writeToPipe" /\ buff # <<>> /\ slotIsFree
  /\ buffer' = [buffer EXCEPT ![writePointer] = Head(buff)]
  /\ buff' = Tail(buff)
  /\ wakeReceiver
  /\ writePointer' = pointerPosition(writePointer + 1)
  /\ UNCHANGED <<readPointer, call, got>>

\* The end of the string, or of the room: the rest is dropped.
\* Mutants: a full ring is waited for; the receiver is woken at the end.
WriteEndWaits ==
  /\ call = "writeToPipe"
  /\ buff = <<>>
  /\ call' = "none"
  /\ UNCHANGED <<buffer, readPointer, writePointer, buff, got, receiver, answer>>

WriteEndWakes ==
  /\ call = "writeToPipe"
  /\ buff = <<>> \/ ~slotIsFree
  /\ call' = "none"
  /\ buff' = <<>>
  /\ wakeReceiver
  /\ UNCHANGED <<buffer, readPointer, writePointer, got>>

WriteEnd ==
  /\ call = "writeToPipe"
  /\ buff = <<>> \/ ~slotIsFree
  /\ call' = "none"
  /\ buff' = <<>>
  /\ UNCHANGED <<buffer, readPointer, writePointer, got, receiver, answer>>

ReceiveBlocks ==
  /\ call = "none" /\ receiver = "running"
  /\ buffer[readPointer] = 0
  /\ receiver' = "waiting"
  /\ got' = <<>>
  /\ UNCHANGED <<buffer, readPointer, writePointer, call, buff, answer>>

Receive ==
  /\ call = "none" /\ receiver = "running"
  /\ buffer[readPointer] # 0
  /\ call' = "readFromPipe"
  /\ got' = <<>>
  /\ UNCHANGED <<buffer, readPointer, writePointer, buff, receiver, answer>>

takeSlot(slot) == [buffer EXCEPT ![slot] = 0]

\* One turn of the do loop; the last one also clears the slot it stops at.
ReadChar ==
  LET next == pointerPosition(readPointer + 1)
      last == next = writePointer
  IN /\ call = "readFromPipe"
     /\ got' = Append(got, buffer[readPointer])
     /\ readPointer' = next
     /\ buffer' = IF last THEN [takeSlot(readPointer) EXCEPT ![next] = 0]
                          ELSE takeSlot(readPointer)
     /\ call' = IF last THEN "none" ELSE call
     /\ answer' = IF last THEN "message" ELSE answer
     /\ UNCHANGED <<writePointer, buff, receiver>>

Loop == WriteChar \/ WriteEnd \/ ReadChar

Next == (\E m \in Messages : Send(m)) \/ ReceiveBlocks \/ Receive \/ Loop

Spec == Init /\ [][Next]_vars

\* A handler runs to its end.
PipeFair == WF_vars(Loop)

----------------------------------------------------------------------------
\* Characters between the two pointers; equal pointers are told apart by the
\* slot they point at.
Count ==
  IF buffer[readPointer] = 0 THEN 0
  ELSE IF writePointer > readPointer THEN writePointer - readPointer
       ELSE PIPE_BUF_SIZE - readPointer + writePointer

SlotAt(n) ==
  IF readPointer + n < PIPE_BUF_SIZE THEN readPointer + n
  ELSE readPointer + n - PIPE_BUF_SIZE

\* The marks in the ring and the two pointers say the same: the Count slots from
\* the read pointer on are taken, all others are free, and the write pointer is
\* behind them (pipefs.c:52, :72, :86).
RingConsistent ==
  /\ \A n \in Slot : buffer[SlotAt(n)] # 0 <=> n < Count
  /\ writePointer = SlotAt(Count)

\* No wake-up is lost: between calls, a receiver that waits has nothing to
\* receive (pipefs.c:60, :72-76).
WaitingMeansEmpty ==
  receiver = "waiting" /\ call = "none" => \A s \in Slot : buffer[s] = 0

\* The ring, its pointers and its receiver agree (pipefs.c:50-60, :72-89).
PipeConsistent == RingConsistent /\ WaitingMeansEmpty

\* A receive that had to wait returns without the message, and one call more
\* brings it: the callers that loop by hand (shell.c:387) loop once
\* (pipefs.c:72-76).
SecondReceiveSucceeds == answer = "nothing" => buffer[readPointer] # 0

\* writeToPipe and readFromPipe come to their end: the read pointer meets the
\* write pointer also when the pipe was full (pipefs.c:50, :86).
CallsEnd == call # "none" ~> call = "none"

\* The pipe is a channel (pipefs.c:41-89).
Implements ==
  INSTANCE Channel WITH
    Capacity <- PIPE_BUF_SIZE,
    pending <- [n \in 1..Count |-> buffer[SlotAt(n - 1)]]
PipeIsChannel == Implements!Spec

============================================================================
