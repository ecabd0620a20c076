----------------------------- MODULE Terminals -----------------------------
(***************************************************************************)
(* What the screens of screenLoader.c promise: each of them is a terminal  *)
(* of its own.  What a process prints is on its terminal and stays there   *)
(* until that terminal is cleared or closed, whichever of them is being    *)
(* looked at.                                                              *)
(*                                                                         *)
(* Two kinds of output are on another's terminal: the table of ps, on the  *)
(* one being looked at, and what a process prints that went astray when it *)
(* printed before it had a terminal.                                       *)
(***************************************************************************)
CONSTANTS
  Pid,
  NoPid      \* nobody's terminal

VARIABLES
  text,      \* for each open terminal, whose output it holds
  view,      \* the terminal being looked at
  astray     \* the processes that do not print on their own terminal

termVars == <<text, view, astray>>

Open == DOMAIN text

Init == text = [p \in {1} |-> {}] /\ view = 1 /\ astray = {}

\* The terminals, with text of p on the terminal of q.
With(q, p) == [text EXCEPT ![q] = @ \cup {p}]

Write(p) ==
  /\ p \in Open \ astray
  /\ text' = With(p, p)
  /\ UNCHANGED <<view, astray>>

\* ps.
Table(p) ==
  /\ view \in Open \ astray
  /\ text' = With(view, p)
  /\ UNCHANGED <<view, astray>>

\* The terminals, with text of p perhaps on one that nobody looks at.
Misplaced(p) == {text} \cup {With(q, p) : q \in Open \ {view}}

AstrayWrite(p) ==
  /\ p \in astray \ {view}
  /\ text' \in Misplaced(p)
  /\ UNCHANGED <<view, astray>>

\* A process without a terminal prints: it is given one, perhaps to go astray, or
\* its text ends on another's.
FirstWrite(p) ==
  /\ p \notin Open
  /\ \E shown \in Misplaced(p) :
       \/ text' = shown /\ UNCHANGED astray
       \/ /\ text' = [q \in Open \cup {p} |-> IF q = p THEN {p} ELSE shown[q]]
          /\ \/ shown = text /\ UNCHANGED astray
             \/ astray' = astray \cup {p}
  /\ UNCHANGED view

\* The terminal being looked at is cleared, and its process prints there again.
Clear ==
  /\ view \in Open
  /\ text' = [text EXCEPT ![view] = {}]
  /\ astray' = astray \ {view}
  /\ UNCHANGED view

\* One terminal is looked at, a new one perhaps; at most one other is closed.
Show(closed, p) ==
  /\ text' = [q \in (Open \ {closed}) \cup {p} |->
                IF q \in Open \ {closed} THEN text[q] ELSE {}]
  /\ view' = p
  /\ astray' = astray \ {closed}

Close(p) ==
  /\ text' = [q \in Open \ {p} |-> text[q]]
  /\ view' = IF view = p THEN NoPid ELSE view
  /\ astray' = astray \ {p}

Next ==
  \/ \E p \in Pid : Write(p) \/ Table(p) \/ AstrayWrite(p) \/ FirstWrite(p) \/ Close(p)
  \/ Clear
  \/ \E closed \in Pid \cup {NoPid}, p \in Pid : Show(closed, p)

Spec == Init /\ [][Next]_termVars
============================================================================
