--------------------------- MODULE MCPhilosophers ---------------------------
(* The three philosophers of the program, started once. *)
EXTENDS Philosophers

Init == SyncInit /\ PhilosophersInit

Next == StartPhilosophers \/ PhilosophersNext

Spec == Init /\ [][Next]_<<syncVars, philosophersVars>>
=============================================================================
