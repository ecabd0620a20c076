------------------------------ MODULE Dialogue ------------------------------
(***************************************************************************)
(* The pipe dialogue of shell.c: joaquin starts ella, each makes the pipe  *)
(* it speaks into, waits until both names are there, and then they take    *)
(* turns.  Modules Pipe and Channel look at one pipe and any use of it;    *)
(* here there is a list of pipes, found by the names that are made of the  *)
(* pids, and a receiver that is woken by the pid in the name.  A send and  *)
(* a receive are one kernel entry each, and no message fills a pipe.       *)
(*                                                                         *)
(* A message is the sequence of its characters, <<who, message, place>>.   *)
(* A receive copies them without a final zero, so that the buffer keeps    *)
(* what a longer message left behind them.  The buffer is fresh memory.    *)
(***************************************************************************)
EXTENDS Sync, Sequences

CONSTANT PidPairs     \* pids joaquin and ella may get

\* currentPid++: no two processes have the same pid (process.c:15).
ASSUME DialogueAssumption ==
  PidPairs \subseteq Nat \X Nat /\ \A pair \in PidPairs : pair[1] # pair[2]

Party == {"joaquin", "ella"}
Other(p) == CHOOSE q \in Party : q # p

VARIABLES
  pid,                 \* party -> its pid
  talk,                \* party -> next statement
  pipeList,            \* records of name and contents
  pipeName,            \* party -> the name of the pipe it speaks into; << >> is NULL
  said,                \* party -> messages it has sent
  heard                \* party -> what it has printed, message by message

dialogueVars == <<pid, talk, pipeList, pipeName, said, heard>>

DialogueInit ==
  /\ pid = [p \in Party |-> 0]
  /\ talk = [p \in Party |-> "none"]
  /\ pipeList = <<>>
  /\ pipeName = [p \in Party |-> <<>>]
  /\ said = [p \in Party |-> 0]
  /\ heard = [p \in Party |-> <<>>]

----------------------------------------------------------------------------
\* The names of pipes.
DASH == 10      \* not a digit

\* No digits for 0.
itoa[value \in Nat] ==
  IF value = 0 THEN <<>> ELSE Append(itoa[value \div 10], value % 10)

createName(fromPid, toPid) == itoa[fromPid] \o <<DASH>> \o itoa[toPid]

\* pid *= 10, pid += the digit, along the digits.
number[digits \in Seq(0..9)] ==
  IF digits = <<>> THEN 0
  ELSE 10 * number[SubSeq(digits, 1, Len(digits) - 1)] + digits[Len(digits)]

getReceiverPid(name) ==
  LET dash == CHOOSE i \in DOMAIN name : name[i] = DASH
  IN number[SubSeq(name, dash + 1, Len(name))]

\* Mutant: the names are compared up to the dash.
getPipeByStart(name) ==
  CHOOSE i \in DOMAIN pipeList :
    /\ name[1] = pipeList[i].name[1]
    /\ \A j \in 1..(i - 1) : name[1] # pipeList[j].name[1]

\* The first pipe of that name.
getPipe(name) ==
  CHOOSE i \in DOMAIN pipeList :
    /\ pipeList[i].name = name
    /\ \A j \in 1..(i - 1) : pipeList[j].name # name

ThreadsOfProcess(n) == {p \in Party : pid[p] = n}

----------------------------------------------------------------------------
\* "Quien es...", "Que vienes a buscar...", "Ya es tarde ...", the long one;
\* "Soy yo...", "A ti ...", "Porque...".
messageLengths == [joaquin |-> <<11, 22, 15, 50>>, ella |-> <<9, 8, 9>>]

Message(p, k) == [i \in 1..messageLengths[p][k] |-> <<p, k, i>>]

Says(p, from, to) ==
  /\ talk[p] = from /\ ~Blocked(p)
  /\ talk' = [talk EXCEPT ![p] = to]

\* The command: testPipes1 becomes a process and knows its pid.
StartDialogue ==
  /\ talk = [p \in Party |-> "none"]
  /\ \E pair \in PidPairs : pid' = [joaquin |-> pair[1], ella |-> pair[2]]
  /\ talk' = [talk EXCEPT !.joaquin = "pcreate"]
  /\ UNCHANGED <<syncVars, pipeList, pipeName, said, heard>>

StartElla ==
  /\ talk["joaquin"] = "pcreate"
  /\ talk' = [joaquin |-> "createPipe", ella |-> "createPipe"]
  /\ UNCHANGED <<syncVars, pid, pipeList, pipeName, said, heard>>

createPipe(p) ==
  /\ Says(p, "createPipe", "awaitNames")
  /\ pipeName' = [pipeName EXCEPT ![p] = createName(pid[p], pid[Other(p)])]
  /\ pipeList' = Append(pipeList, [name |-> pipeName'[p], contents |-> <<>>])
  /\ UNCHANGED <<syncVars, pid, said, heard>>

\* while (pipeName == NULL || pipeName2 == NULL); joaquin begins.
AwaitNames(p) ==
  /\ \A q \in Party : pipeName[q] # <<>>
  /\ Says(p, "awaitNames", IF p = "joaquin" THEN "send" ELSE "receive")
  /\ UNCHANGED <<syncVars, pid, pipeList, pipeName, said, heard>>

\* Mutant: the receiver is not woken.
wokenNobody(name) == blockedThreads

\* Who the pipe is to, and waits there.
woken(name) ==
  blockedThreads \ {b \in Waiting("pipe", getReceiverPid(name)) :
                      b[3] \in ThreadsOfProcess(getReceiverPid(name))}

send(p) ==
  LET i == getPipe(pipeName[p])
  IN /\ Says(p, "send", "receive")
     /\ said' = [said EXCEPT ![p] = @ + 1]
     /\ pipeList' = [pipeList EXCEPT ![i].contents = @ \o Message(p, said'[p])]
     /\ blockedThreads' = woken(pipeName[p])
     /\ UNCHANGED <<mutexStatus, semaphoreStatus, pid, pipeName, heard>>

\* receive() blocks the thread of this number in the process of the name and
\* returns nothing; the program asks again.
ReceiveWaits(p) ==
  LET name == pipeName[Other(p)]
  IN /\ Says(p, "receive", "receive")
     /\ pipeList[getPipe(name)].contents = <<>>
     /\ blockedThreads' = blockedThreads \cup
          {<<"pipe", getReceiverPid(name), q>> : q \in ThreadsOfProcess(getReceiverPid(name))}
     /\ UNCHANGED <<mutexStatus, semaphoreStatus, pid, pipeList, pipeName, said, heard>>

\* Characters written over the buffer, which holds what was printed last.
over(contents, buff) ==
  contents \o SubSeq(buff, Len(contents) + 1, Len(buff))

lastHeard(p) == IF heard[p] = <<>> THEN <<>> ELSE heard[p][Len(heard[p])]

\* After its last receive a party prints that it has ended, and ends.
Receive(p) ==
  LET i == getPipe(pipeName[Other(p)])
  IN /\ talk[p] = "receive" /\ pipeList[i].contents # <<>>
     /\ heard' = [heard EXCEPT ![p] = Append(@, over(pipeList[i].contents, lastHeard(p)))]
     /\ pipeList' = [pipeList EXCEPT ![i].contents = <<>>]
     /\ Says(p, "receive", IF Len(heard'[p]) = 4 THEN "ended" ELSE "send")
     /\ UNCHANGED <<syncVars, pid, pipeName, said>>

Speak(p) ==
  \/ createPipe(p) \/ AwaitNames(p) \/ send(p) \/ ReceiveWaits(p) \/ Receive(p)

DialogueNext == StartElla \/ \E p \in Party : Speak(p)

\* Both processes are scheduled again and again.
DialogueFair ==
  LET v == <<syncVars, dialogueVars>>
  IN WF_v(StartElla) /\ \A p \in Party : WF_v(Speak(p))

----------------------------------------------------------------------------
\* Each party prints the messages of the other one, whole, in order, and one at a
\* time, whichever of them is first with its pipe; one that is shorter than an
\* earlier one is printed with the end of that (shell.c:359-502, pipefs.c:66-117).
HeardIsSaid ==
  \A p \in Party : \A k \in DOMAIN heard[p] :
    LET message == Message(Other(p), k)
    IN /\ SubSeq(heard[p][k], 1, Len(message)) = message
       /\ (\A j \in 1..(k - 1) : messageLengths[Other(p)][j] <= Len(message))
            => heard[p][k] = message

\* The name of a pipe finds that pipe and nobody but its receiver, whatever the digits
\* of the two pids (pipefs.c:98-140, myStdLib.c:3-30).
NamesAddress ==
  \A p \in Party : pipeName[p] # <<>> =>
    /\ pipeList[getPipe(pipeName[p])].name = pipeName[p]
    /\ ThreadsOfProcess(getReceiverPid(pipeName[p])) = {Other(p)}

PartyWaits(p) == \E b \in blockedThreads : b[1] = "pipe" /\ b[3] = p

\* No wake-up is lost: each send finds its pipe and its receiver by the names, so
\* that the pipe of a party that waits is empty, and it is never both of them
\* (pipefs.c:48-60, :119-140).
WaiterHasNoMessage ==
  /\ NamesAddress
  /\ \A p \in Party : PartyWaits(p) => pipeList[getPipe(pipeName[Other(p)])].contents = <<>>
  /\ \E p \in Party : ~PartyWaits(p)

\* A party that waits is woken and ella comes to her end, with any pids
\* (shell.c:372-422, pipefs.c:48-60, :119-140).
EllaEnds ==
  talk["joaquin"] = "pcreate" ~> talk["ella"] = "ended"
============================================================================
