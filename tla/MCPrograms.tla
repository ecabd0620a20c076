----------------------------- MODULE MCPrograms -----------------------------
(***************************************************************************)
(* The programs of the shell and the network driver in one run.  They      *)
(* share no state, so a behaviour has steps of one of the two.             *)
(* Pids of one, two and three digits, with zeros among them; messages that *)
(* just fit in a byte with their type, that do not and leave another       *)
(* length, and that leave none.                                            *)
(***************************************************************************)
EXTENDS Shell, Network

VARIABLE part      \* "shell" or "network"

programsVars == <<part, demoVars, shellVars, vars>>

MCInit == ShellInit /\ Init /\ part \in {"shell", "network"}

MCNext ==
  /\ UNCHANGED part
  /\ \/ part = "shell" /\ ShellNext /\ UNCHANGED vars
     \/ part = "network" /\ Next /\ UNCHANGED <<demoVars, shellVars>>

MCSpec ==
  /\ MCInit /\ [][MCNext]_programsVars
  /\ ProdConsFair /\ DialogueFair /\ ReadFair

MCPidPairs == {<<2, 3>>, <<9, 10>>, <<10, 11>>, <<109, 110>>}
MCLength == <<2, 5, 3>>
=============================================================================
