------------------------------- MODULE Shell -------------------------------
(***************************************************************************)
(* The shell (shell.c) and the programs it starts.  A line is collected in *)
(* a buffer without a limit, echoed key by key and compared with the       *)
(* commands.  A program is a process of its own and gets the focus with    *)
(* it; only prodcons ends, which gives the focus back, and the shell reads *)
(* no key before that: the arrows that change the focus are left to module *)
(* Console.  Mutexes and semaphores are those of module Sync for all.      *)
(*                                                                         *)
(* A key stands for the characters of one word, so that a line has a few.  *)
(***************************************************************************)
EXTENDS ProdCons, Philosophers, Dialogue

CONSTANTS
  LINE_SIZE,      \* words the buffer of the shell holds
  MaxKeys         \* bound: keys typed at the shell

ASSUME ShellAssumption == LINE_SIZE \in Nat \ {0} /\ MaxKeys \in Nat

Word == {"echo ", "new shell", "prodcons", "philosophers", "pipes"}
NUL == "0"

VARIABLES
  focus,          \* "shell", or the program that reads the keys
  line, place,    \* the buffer of the shell and where the next key goes
  shown,          \* the words on the screen behind the prompt
  keys,           \* keys typed
  started,        \* the program this behaviour starts, or "none"
  shellState      \* "running", or "smashed" after a key past the buffer

lineVars == <<line, place, shown>>
shellVars == <<focus, lineVars, keys, started, shellState>>
demoVars == <<syncVars, prodconsVars, philosophersVars, dialogueVars>>

\* A buffer on the stack, before anything is written to it: no NUL in it at worst.
Uninitialised == [k \in 0..(LINE_SIZE - 1) |-> "junk"]

ShellInit ==
  /\ SyncInit /\ ProdConsInit /\ PhilosophersInit /\ DialogueInit
  /\ focus = "shell"
  /\ line = Uninitialised /\ place = 0
  /\ shown = <<>> /\ keys = 0
  /\ started = "none"
  /\ shellState = "running"

----------------------------------------------------------------------------
\* getchar: the next key.
GetChar ==
  /\ shellState = "running" /\ focus = "shell"
  /\ keys < MaxKeys
  /\ keys' = keys + 1

TypeWord(c) ==
  /\ GetChar
  /\ IF place < LINE_SIZE
     THEN line' = [line EXCEPT ![place] = c] /\ UNCHANGED shellState
     ELSE shellState' = "smashed" /\ UNCHANGED line
  /\ place' = place + 1
  /\ shown' = Append(shown, c)
  /\ UNCHANGED <<demoVars, focus, started>>

\* \b at the beginning of the line does nothing.
Backspace ==
  /\ GetChar
  /\ place' = IF place > 0 THEN place - 1 ELSE place
  /\ shown' = IF place > 0 THEN SubSeq(shown, 1, Len(shown) - 1) ELSE shown
  /\ UNCHANGED <<demoVars, focus, line, started, shellState>>

\* Mutant: no NUL is written behind the line.
terminatedNot == line

terminated == [line EXCEPT ![place] = NUL]

\* The string in the buffer: what is before the first NUL.
cString(buff) ==
  LET Ends == {k \in DOMAIN buff : buff[k] = NUL} \cup {LINE_SIZE}
      end == CHOOSE k \in Ends : \A j \in Ends : k <= j
  IN [k \in 1..end |-> buff[k - 1]]

startsWith(word, text) == text # <<>> /\ text[1] = word

\* Bound: a behaviour starts one program, though maybe again and again.
run(program) ==
  /\ started \in {"none", program} /\ started' = program
  /\ focus' = program

\* A shell of its own, on a stack of its own, which has the focus from now on.
NewShell ==
  /\ line' = Uninitialised
  /\ UNCHANGED <<demoVars, focus, started>>

prints(text) ==
  \/ startsWith("echo ", text)
  \/ text \notin {<<"prodcons">>, <<"philosophers">>, <<"pipes">>, <<"new shell">>}

processComand(text) ==
  \/ /\ prints(text)
     /\ UNCHANGED <<demoVars, focus, started>>
     /\ line' = terminated
  \/ /\ text = <<"prodcons">>
     /\ run("prodcons") /\ StartProdCons
     /\ UNCHANGED <<philosophersVars, dialogueVars>>
     /\ line' = terminated
  \/ /\ text = <<"philosophers">>
     /\ run("philosophers") /\ StartPhilosophers
     /\ UNCHANGED <<prodconsVars, dialogueVars>>
     /\ line' = terminated
  \/ /\ text = <<"pipes">>
     /\ run("pipes") /\ StartDialogue
     /\ UNCHANGED <<prodconsVars, philosophersVars>>
     /\ line' = terminated
  \/ text = <<"new shell">> /\ NewShell

Enter ==
  /\ GetChar
  /\ place < LINE_SIZE
  /\ processComand(cString(terminated))
  /\ place' = 0
  /\ shown' = <<>>
  /\ UNCHANGED shellState

\* The NUL itself does not fit.
EnterPastBuffer ==
  /\ GetChar
  /\ place >= LINE_SIZE
  /\ shellState' = "smashed"
  /\ UNCHANGED <<demoVars, focus, lineVars, started>>

shell == (\E c \in Word : TypeWord(c)) \/ Backspace \/ Enter \/ EnterPastBuffer

\* The steps of the programs.  The end of prodcons, the child, gives its parent the
\* focus.
Demos ==
  \/ /\ ProdConsNext
     /\ UNCHANGED <<philosophersVars, dialogueVars, lineVars, keys, started, shellState>>
     /\ focus' = IF prodcons' = "ended" THEN "shell" ELSE focus
  \/ /\ PhilosophersNext
     /\ UNCHANGED <<prodconsVars, dialogueVars, shellVars>>
  \/ /\ DialogueNext
     /\ UNCHANGED <<prodconsVars, philosophersVars, shellVars>>

ShellNext == shell \/ Demos

ShellSpec == ShellInit /\ [][ShellNext]_<<demoVars, shellVars>>

----------------------------------------------------------------------------
\* A line that fits in the buffer is read as it stands on the screen, erased words
\* and what earlier lines left in the buffer included (shell.c:73-94).
CommandIsWhatIsSeen ==
  [][Enter => cString(terminated) = shown]_<<demoVars, shellVars>>
============================================================================
