------------------------------ MODULE Mailbox ------------------------------
(***************************************************************************)
(* What the frame ring of a network driver promises its readers: frames    *)
(* are handed out in the order they were taken in, each of them once and   *)
(* none invented.  It has room for Capacity - 1 frames; the one that would *)
(* be the Capacity-th empties it.                                          *)
(***************************************************************************)
EXTENDS Naturals, Sequences

CONSTANTS Node, Frame, Capacity

VARIABLES
  pending,     \* frames taken in and not handed out, for each node
  got          \* frames handed out

vars == <<pending, got>>

Init ==
  /\ pending = [n \in Node |-> <<>>]
  /\ got = [n \in Node |-> <<>>]

\* One frame more for n; the frames of all others stay.
Take(n) ==
  /\ Len(pending[n]) < Capacity - 1
  /\ LET after == pending'[n]
     IN /\ \E frame \in Frame : after = Append(pending[n], frame)
        /\ pending' = [pending EXCEPT ![n] = after]
  /\ UNCHANGED got

Overrun(n) ==
  /\ Len(pending[n]) = Capacity - 1
  /\ pending' = [pending EXCEPT ![n] = <<>>]
  /\ UNCHANGED got

HandOut(n) ==
  /\ pending[n] # <<>>
  /\ got' = [got EXCEPT ![n] = Append(@, Head(pending[n]))]
  /\ pending' = [pending EXCEPT ![n] = Tail(@)]

Next ==
  \E n \in Node : Take(n) \/ Overrun(n) \/ HandOut(n)

Spec == Init /\ [][Next]_vars
============================================================================
