------------------------------ MODULE Channel ------------------------------
(***************************************************************************)
(* What a pipe promises: characters come out in the order they went in,    *)
(* none is lost, doubled or invented once it has been taken in, at most    *)
(* Capacity of them are on the way, and the receiver waits only at an      *)
(* empty pipe and is woken by the first character.                         *)
(***************************************************************************)
EXTENDS Naturals, Sequences

CONSTANTS Char, Capacity

VARIABLES
  pending,     \* characters taken in and not handed out
  got,         \* what the current or last receive has handed out
  receiver     \* "running" or "waiting"

vars == <<pending, got, receiver>>

Init == pending = <<>> /\ got = <<>> /\ receiver = "running"

Put(c) ==
  /\ Len(pending) < Capacity
  /\ pending' = Append(pending, c)
  /\ receiver' = "running"
  /\ UNCHANGED got

StartTaking ==
  /\ receiver = "running" /\ pending # <<>>
  /\ got' = <<>>
  /\ UNCHANGED <<pending, receiver>>

Take ==
  /\ pending # <<>>
  /\ got' = Append(got, Head(pending))
  /\ pending' = Tail(pending)
  /\ UNCHANGED receiver

Wait ==
  /\ receiver = "running" /\ pending = <<>>
  /\ receiver' = "waiting"
  /\ got' = <<>>
  /\ UNCHANGED pending

Next == (\E c \in Char : Put(c)) \/ StartTaking \/ Take \/ Wait

Spec == Init /\ [][Next]_vars
============================================================================
