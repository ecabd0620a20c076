------------------------------ MODULE Console ------------------------------
(***************************************************************************)
(* Keyboard and screens (keyBoadDriver.c, screenLoader.c, videoDriver.c)   *)
(* under the system calls that use them: read, write, clearScreen, ps,     *)
(* pcreate, pcreateBackground, pkill.  Each of them, and the keyboard      *)
(* interrupt, is one kernel entry.                                         *)
(*                                                                         *)
(* What a screen shows is abstracted to the processes whose output is on   *)
(* it, a cursor to the screen it is on, and a process to its one reading   *)
(* thread.  Which of the two tables a key is looked up in is left out: a   *)
(* key is its character.                                                   *)
(***************************************************************************)
EXTENDS Integers, SequencesExt

CONSTANTS
  BUFFER_SIZE,   \* keys the ring holds
  Char,          \* characters but 0
  MaxPid         \* bound: the largest pid ever created

ASSUME ConsoleAssumption ==
  /\ BUFFER_SIZE \in Nat \ {0}
  /\ 0 \notin Char
  /\ MaxPid \in Nat /\ MaxPid >= 1

NO_FOCUS == -1
Pid == 0..MaxPid
Slot == 0..(BUFFER_SIZE - 1)

VARIABLES
  buffer, current, last,    \* the ring of keys
  altKey,
  list,          \* the pids of the screen nodes, in the order of the list
  onFocusPid,
  screen,        \* what the node of a process keeps
  cursor,        \* the process on whose screen a node's currentPosition is;
                 \* NO_FOCUS once that screen has been given back
  video,         \* what the video memory shows
  inVideo,       \* is the cursor of the video memory inside it?
  processes,     \* pids the scheduler knows
  ppid,
  currentPid,    \* the pid the next process gets
  waiting,       \* processes blocked with T_BLOCKED_IO
  kernel,        \* "running"; "lost" after an address that is not there
  unwatched,     \* history: since the last key, has the focus changed or a
                 \* read asked for no key?
  orphaned       \* history: has a process ended before a child of it?

keyVars == <<buffer, current, last>>
screenVars == <<list, onFocusPid, screen, cursor, video, inVideo>>
processVars == <<processes, ppid, currentPid>>
vars == <<keyVars, altKey, screenVars, processVars, waiting, kernel, unwatched, orphaned>>

TypeOK ==
  /\ buffer \in [Slot -> Char \cup {0}]
  /\ current \in Slot /\ last \in Slot
  /\ altKey \in BOOLEAN
  /\ list \in Seq(Pid)
  /\ onFocusPid \in Pid \cup {NO_FOCUS}
  /\ screen \in [Pid -> SUBSET Pid]
  /\ cursor \in [Pid -> Pid \cup {NO_FOCUS}]
  /\ video \subseteq Pid
  /\ inVideo \in BOOLEAN
  /\ processes \subseteq Pid
  /\ ppid \in [Pid -> Pid]
  /\ currentPid \in 2..(MaxPid + 1)
  /\ waiting \subseteq processes
  /\ kernel \in {"running", "lost"}
  /\ unwatched \in BOOLEAN /\ orphaned \in BOOLEAN

\* main has created init and the shell and has loaded the shell's screen.
Init ==
  /\ buffer = [s \in Slot |-> 0]
  /\ current = 0 /\ last = 0
  /\ altKey = FALSE
  /\ list = <<1>>
  /\ onFocusPid = 1
  /\ screen = [p \in Pid |-> {}]
  /\ cursor = [p \in Pid |-> p]
  /\ video = {}
  /\ inVideo = TRUE
  /\ processes = {0, 1}
  /\ ppid = [p \in Pid |-> 0]
  /\ currentPid = 2
  /\ waiting = {}
  /\ kernel = "running"
  /\ unwatched = FALSE /\ orphaned = FALSE

\* A handler that leaves the memory it knows: nothing is said of what follows.
GetLost ==
  /\ kernel' = "lost"
  /\ UNCHANGED <<keyVars, altKey, screenVars, processVars, waiting, unwatched,
                 orphaned>>

----------------------------------------------------------------------------
(* videoDriver.c *)

\* Printing, scrolling included, leaves the output of p on a screen.
printCharactersInner(content, p) == content \cup {p}

\* The video memory, copied to the node of p.
backupContent(kept, p) == [kept EXCEPT ![p] = video]

\* The video memory, copied from a node, with its cursor as far from the start.
setScreen(content, at) == video' = content /\ inVideo' = at

----------------------------------------------------------------------------
(* screenLoader.c *)

hasScreen(p) == p \in ToSet(list)

\* Mutant: the screen is saved for the process that comes, not for the one
\* that goes.
saveScreenLate(nodes, focus, pid, kept) ==
  IF pid \in ToSet(nodes) THEN backupContent(kept, pid) ELSE kept

\* saveScreen: the video memory goes to the node of the focused process.
saveScreen(nodes, focus, pid, kept) ==
  IF focus \in ToSet(nodes) THEN backupContent(kept, focus) ELSE kept

\* And the cursor with it, as far from the start of the node's screen.
saveCursor(nodes, focus, at) ==
  IF focus \in ToSet(nodes) /\ inVideo THEN [at EXCEPT ![focus] = focus] ELSE at

\* A new node, empty, at the end of the list.
addScreen(nodes, pid) == Append(nodes, pid)

\* loadScreen(pid) on a list of nodes with cursors and a focus.  Where a node has to
\* be made and there is no memory, nothing is loaded.
loadScreen(nodes, at, focus, pid) ==
  LET known == pid \in ToSet(nodes)
      now   == IF known THEN nodes ELSE addScreen(nodes, pid)
      kept  == IF known THEN screen ELSE [screen EXCEPT ![pid] = {}]
      saved == saveScreen(now, focus, pid, kept)
      moved == saveCursor(now, focus, IF known THEN at ELSE [at EXCEPT ![pid] = pid])
  IN \/ /\ list' = now
        /\ screen' = saved
        /\ cursor' = moved
        /\ setScreen(saved[pid], moved[pid] = pid)
        /\ onFocusPid' = pid
     \/ /\ ~known
        /\ list' = nodes
        /\ cursor' = at
        /\ onFocusPid' = focus
        /\ UNCHANGED <<screen, video, inVideo>>

noteFocus == unwatched' = (unwatched \/ onFocusPid' # onFocusPid)

\* Mutant: the focus stays where it was.
focusWithoutStale(pid) == onFocusPid

\* removeScreen: the focus and the list without pid.
focusWithout(pid) == IF pid = onFocusPid THEN NO_FOCUS ELSE onFocusPid
listWithout(pid) ==
  IF hasScreen(pid) THEN RemoveAt(list, CHOOSE i \in DOMAIN list : list[i] = pid) ELSE list

\* The cursors, when the screen of pid has been given back.
cursorsWithout(pid) ==
  [q \in Pid |-> IF q = pid THEN pid ELSE IF cursor[q] = pid THEN NO_FOCUS ELSE cursor[q]]

\* Alt and an arrow: loadPreviousScreen, loadNextScreen (step -1 and 1).  The
\* node of the focused process is used without a test.
swapScreen(step) ==
  \/ /\ onFocusPid # NO_FOCUS /\ ~hasScreen(onFocusPid)
     /\ GetLost
  \/ \E i \in DOMAIN list :
       /\ list[i] = onFocusPid
       /\ i + step \in DOMAIN list
       /\ loadScreen(list, cursor, onFocusPid, list[i + step])
       /\ noteFocus
       /\ UNCHANGED <<keyVars, altKey, processVars, waiting, kernel, orphaned>>

----------------------------------------------------------------------------
(* keyBoadDriver.c *)

advance(pointer) == IF pointer + 1 >= BUFFER_SIZE THEN 0 ELSE pointer + 1

\* Mutants: a full ring is written over; the reader is not woken.
slotIsFreeAlways == TRUE
wokenNobody(p) == waiting

slotIsFree == buffer[last] = 0

\* unblockAllThreads(p, T_BLOCKED_IO).
woken(p) == waiting \ {p}

\* A key with a character.  A full ring drops it and wakes nobody.
\* unblockAllThreads follows the process of the focused pid without a test.
Key(character) ==
  /\ slotIsFree
  /\ IF onFocusPid \in processes
     THEN /\ buffer' = [buffer EXCEPT ![last] = character]
          /\ last' = advance(last)
          /\ waiting' = woken(onFocusPid)
          /\ unwatched' = FALSE
          /\ UNCHANGED <<current, altKey, screenVars, processVars, kernel, orphaned>>
     ELSE GetLost

AltKey(pressed) ==
  /\ altKey' = pressed
  /\ UNCHANGED <<keyVars, screenVars, processVars, waiting, kernel, unwatched, orphaned>>

Arrow(step) == altKey /\ swapScreen(step)

keyBoardHandler ==
  \/ \E character \in Char : Key(character)
  \/ \E pressed \in BOOLEAN : AltKey(pressed)
  \/ \E step \in {-1, 1} : Arrow(step)

----------------------------------------------------------------------------
(* System calls.  init makes none. *)

CanCall(p) == p \in processes \ {0} /\ p \notin waiting

\* read finds its process not on focus, or no key.
mustWait(p) == onFocusPid # p \/ buffer[current] = 0

ReadBlocks(p) ==
  /\ CanCall(p) /\ mustWait(p)
  /\ waiting' = waiting \cup {p}
  /\ UNCHANGED <<keyVars, altKey, screenVars, processVars, kernel, unwatched, orphaned>>

\* A read of 0 bytes on focus finds no key, whatever the ring holds.
ReadNothing(p) ==
  /\ CanCall(p) /\ onFocusPid = p
  /\ waiting' = waiting \cup {p}
  /\ unwatched' = TRUE
  /\ UNCHANGED <<keyVars, altKey, screenVars, processVars, kernel, orphaned>>

\* getKey.
Read(p) ==
  /\ CanCall(p) /\ ~mustWait(p)
  /\ buffer' = [buffer EXCEPT ![current] = 0]
  /\ current' = advance(current)
  /\ UNCHANGED <<last, altKey, screenVars, processVars, waiting, kernel, unwatched,
                 orphaned>>

\* Text of p printed at the cursor of the video memory, wherever that is.
printOnVideo(p) ==
  \/ /\ inVideo
     /\ video' = printCharactersInner(video, p)
     /\ UNCHANGED <<keyVars, altKey, list, onFocusPid, screen, cursor, inVideo,
                    processVars, waiting, kernel, unwatched, orphaned>>
  \/ ~inVideo /\ (GetLost \/ UNCHANGED vars)

WriteToVideo(p) == CanCall(p) /\ onFocusPid = p /\ printOnVideo(p)

\* ps prints its table on the video memory, whoever has the focus.  A number of
\* two digits is printed for ever (printDec), and the loops count from whatever the
\* stack holds.
Ps(p) == CanCall(p) /\ (printOnVideo(p) \/ GetLost)

\* What the screen of q may show when text of p has come to it by mistake.  The end
\* of that screen is not looked for: the text may pass the part that shows.
misplaced(q, p) == {screen[q], printCharactersInner(screen[q], p)}

\* Text of p printed at the cursor of the node of q.  A cursor on another's screen
\* may lead out of that, too.
printThrough(q, p) ==
  \/ /\ cursor[q] # NO_FOCUS
     /\ \E shown \in misplaced(cursor[q], p) :
          /\ cursor[q] = q => shown = printCharactersInner(screen[q], p)
          /\ screen' = [screen EXCEPT ![cursor[q]] = shown]
     /\ UNCHANGED <<keyVars, altKey, list, onFocusPid, cursor, video, inVideo,
                    processVars, waiting, kernel, unwatched, orphaned>>
  \/ cursor[q] = NO_FOCUS /\ UNCHANGED vars
  \/ cursor[q] # q /\ GetLost

WriteToMyScreen(p) ==
  /\ CanCall(p) /\ onFocusPid # p /\ hasScreen(p)
  /\ printThrough(p, p)

\* A process without a screen is given one at its first write.
\* getCurrentScreenNode then returns what addScreen does, the head of the list: the
\* text is printed at the cursor of the new node, but its end is looked for
\* on the screen of the head.  Below the head's screen it stays in the new one,
\* unless it is longer than that; above, the first character scrolls the
\* head's screen and takes the cursor there, with what is left of the text.
WriteOnNewScreen(p) ==
  /\ list' = addScreen(list, p)
  /\ \/ /\ screen' = [screen EXCEPT ![p] = printCharactersInner({}, p)]
        /\ cursor' = [cursor EXCEPT ![p] = p]
     \/ /\ cursor' = [cursor EXCEPT ![p] = Head(list)]
        /\ \E shown \in misplaced(Head(list), p) :
             screen' = [screen EXCEPT ![p] = printCharactersInner({}, p),
                                      ![Head(list)] = shown]
  /\ UNCHANGED <<keyVars, altKey, onFocusPid, video, inVideo, processVars, waiting,
                 kernel, unwatched, orphaned>>

\* Without memory for the new screen the text goes to that of the head, as the
\* head's own.  Nodes added to an empty list are lost, and the text with them.
WriteFirst(p) ==
  /\ CanCall(p) /\ onFocusPid # p /\ ~hasScreen(p)
  /\ \/ list # <<>> /\ (WriteOnNewScreen(p) \/ printThrough(Head(list), p))
     \/ list = <<>> /\ UNCHANGED vars
     \/ GetLost

\* clearScreen clears the video memory, whoever asks for it.
ClearScreen(p) ==
  /\ CanCall(p)
  /\ video' = {}
  /\ inVideo' = TRUE
  /\ UNCHANGED <<keyVars, altKey, list, onFocusPid, screen, cursor, processVars, waiting,
                 kernel, unwatched, orphaned>>

addProcess(p) ==
  /\ currentPid <= MaxPid
  /\ processes' = processes \cup {currentPid}
  /\ ppid' = [ppid EXCEPT ![currentPid] = p]
  /\ currentPid' = currentPid + 1

Pcreate(p) ==
  /\ CanCall(p)
  /\ addProcess(p)
  /\ loadScreen(list, cursor, onFocusPid, currentPid)
  /\ noteFocus
  /\ UNCHANGED <<keyVars, altKey, waiting, kernel, orphaned>>

PcreateBackground(p) ==
  /\ CanCall(p)
  /\ addProcess(p)
  /\ UNCHANGED <<keyVars, altKey, screenVars, waiting, kernel, unwatched, orphaned>>

\* removeProcess spares init and the shell.
removed(pid) == {pid} \ {0, 1}

nextOnFocus(pid) == ppid[pid]

\* pkill(pid); exit() is pkill of the caller.  The scheduler takes the process out
\* of its list at the yield() that follows.  Nobody kills init, which has no parent.
Pkill(p, pid) ==
  /\ CanCall(p)
  /\ loadScreen(listWithout(pid), cursorsWithout(pid), focusWithout(pid), nextOnFocus(pid))
  /\ noteFocus
  /\ processes' = processes \ removed(pid)
  /\ waiting' = waiting \ removed(pid)
  /\ orphaned' = (orphaned \/ \E q \in processes \ {pid} :
                                pid # 1 /\ q > pid /\ ppid[q] = pid)
  /\ UNCHANGED <<keyVars, altKey, ppid, currentPid, kernel>>

Next ==
  /\ kernel = "running"
  /\ \/ keyBoardHandler
     \/ \E p \in processes :
          \/ ReadBlocks(p) \/ ReadNothing(p) \/ Read(p)
          \/ WriteToVideo(p) \/ WriteToMyScreen(p) \/ WriteFirst(p)
          \/ Ps(p) \/ ClearScreen(p)
          \/ Pcreate(p) \/ PcreateBackground(p)
          \/ \E pid \in processes \ {0} : Pkill(p, pid)

Spec == Init /\ [][Next]_vars

----------------------------------------------------------------------------
\* The pids of the screens are all different, and the focused process has one:
\* the arrows and every later switch find the node they use without a test
\* (screenLoader.c:216-218, :228-230).
FocusHasScreen ==
  /\ \A i, j \in DOMAIN list : list[i] = list[j] => i = j
  /\ onFocusPid # NO_FOCUS => hasScreen(onFocusPid)

\* As long as no process ends before its children, the focus is with a process
\* the scheduler knows, so that a key finds it (keyBoadDriver.c:79,
\* systemCalls.c:111).
FocusIsAlive == ~orphaned /\ onFocusPid # NO_FOCUS => onFocusPid \in processes

\* The focused process has a screen and, as long as no process ends before its
\* children, is a process the scheduler knows: switches, arrows and keys all use it
\* without a test (screenLoader.c:216-218, keyBoadDriver.c:79, systemCalls.c:111).
FocusIsThere == FocusHasScreen /\ FocusIsAlive

\* A focused reader waits with keys in the ring only if, after the last of them, the
\* focus came to it or it asked for none (keyBoadDriver.c:79, systemCalls.c:20-53).
KeyWakesReader ==
  onFocusPid \in waiting /\ buffer[current] # 0 => unwatched

Pending ==
  IF buffer[current] = 0 THEN 0
  ELSE IF last > current THEN last - current ELSE BUFFER_SIZE - current + last

\* The keys between the two pointers, and no others, are in the ring, however
\* readers and focus change; equal pointers are told apart by the slot they point
\* at (keyBoadDriver.c:75, :94).
KeyRingConsistent ==
  /\ \A n \in Slot : buffer[(current + n) % BUFFER_SIZE] # 0 <=> n < Pending
  /\ last = (current + Pending) % BUFFER_SIZE

Text == [p \in ToSet(list) |-> IF p = onFocusPid THEN video ELSE screen[p]]

Astray ==
  {p \in ToSet(list) : IF p = onFocusPid THEN ~inVideo ELSE cursor[p] # p}

\* The screens are terminals but for two uses of the code: switching, creating and
\* killing keep the output of each process on its own screen; ps prints on the
\* screen being looked at; and only a process whose first write, made without a
\* screen, went astray prints on another's, until it is cleared on focus
\* (screenLoader.c:18-38, :50-64, :105-119, :183-207, scheduler.c:357-371).
Shown == INSTANCE Terminals WITH text <- Text, view <- onFocusPid, astray <- Astray,
                                 NoPid <- NO_FOCUS
ScreensAreTerminals == Shown!Spec
============================================================================
