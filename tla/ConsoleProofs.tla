--------------------------- MODULE ConsoleProofs ---------------------------
(***************************************************************************)
(* Proofs about Console, for any number of processes and a ring of keys of *)
(* any size: the focus is with a screen that is there and, as long as      *)
(* parents outlive their children, with a process that is there, and keys  *)
(* wake their reader.                                                      *)
(***************************************************************************)
EXTENDS Console, TLAPS

\* Nodes of the list of screens, and a focus on one of them.
Distinct(nodes) == \A i, j \in DOMAIN nodes : nodes[i] = nodes[j] => i = j
HasNode(nodes, focus) == \E i \in DOMAIN nodes : nodes[i] = focus
WellFormed(nodes, focus) ==
  /\ nodes \in Seq(Pid) /\ Distinct(nodes)
  /\ focus \in Pid \cup {NO_FOCUS}
  /\ focus # NO_FOCUS => HasNode(nodes, focus)

\* Children are younger than their parents; init and the shell stay.  Without
\* orphans, parents are there, and so are the processes the screens belong to.
Family ==
  /\ {0, 1} \subseteq processes
  /\ \A p \in processes : p < currentPid
  /\ \A p \in processes \ {0} : ppid[p] < p
  /\ ~orphaned => /\ \A p \in processes \ {0} : ppid[p] \in processes
                  /\ \A i \in DOMAIN list : list[i] \in processes

\* With a focus, the cursor of the video memory is outside it only if that of the
\* node is on another's screen.
FocusCursor == onFocusPid # NO_FOCUS /\ ~inVideo => cursor[onFocusPid] # onFocusPid

ConsoleInv ==
  TypeOK /\ FocusHasScreen /\ FocusCursor /\ Family /\ FocusIsAlive /\ KeyWakesReader

CursorType == [Pid -> Pid \cup {NO_FOCUS}]

LEMMA FocusIsWellFormed ==
  TypeOK => (FocusHasScreen <=> WellFormed(list, onFocusPid))
<1> SUFFICES ASSUME TypeOK PROVE FocusHasScreen <=> WellFormed(list, onFocusPid)
  OBVIOUS
<1>1. \A p : hasScreen(p) <=> HasNode(list, p)
  BY DEF hasScreen, ToSet, HasNode
<1> QED
  BY <1>1 DEF TypeOK, FocusHasScreen, WellFormed, Distinct

\* A screen that is loaded has the focus; one for which there is no memory leaves
\* the list and the focus as they are.
LEMMA LoadKeeps ==
  ASSUME TypeOK, NEW nodes, NEW at \in CursorType, NEW focus, WellFormed(nodes, focus),
         focus # NO_FOCUS /\ ~inVideo => at[focus] # focus,
         NEW pid \in Pid, loadScreen(nodes, at, focus, pid)
  PROVE  /\ WellFormed(list', onFocusPid')
         /\ screen' \in [Pid -> SUBSET Pid] /\ video' \subseteq Pid
         /\ cursor' \in CursorType /\ inVideo' \in BOOLEAN
         /\ FocusCursor'
         /\ onFocusPid' \in {pid, focus}
<1> DEFINE known == pid \in ToSet(nodes)
           now   == IF known THEN nodes ELSE Append(nodes, pid)
           kept  == IF known THEN screen ELSE [screen EXCEPT ![pid] = {}]
           saved == saveScreen(now, focus, pid, kept)
           moved == saveCursor(now, focus, IF known THEN at ELSE [at EXCEPT ![pid] = pid])
<1>1. known <=> HasNode(nodes, pid)
  BY DEF ToSet, HasNode
<1>2. WellFormed(now, pid)
  <2>1. CASE known
    BY <1>1, <2>1 DEF WellFormed
  <2>2. CASE ~known
    <3>1. now = Append(nodes, pid) /\ nodes \in Seq(Pid)
      BY <2>2 DEF WellFormed
    <3>2. now \in Seq(Pid) /\ DOMAIN now = 1..(Len(nodes) + 1) /\ DOMAIN nodes = 1..Len(nodes)
      BY <3>1
    <3>3. now[Len(nodes) + 1] = pid /\ \A i \in DOMAIN nodes : now[i] = nodes[i]
      BY <3>1
    <3>4. \A i \in DOMAIN nodes : nodes[i] # pid
      BY <1>1, <2>2 DEF HasNode
    <3>5. Distinct(now)
      BY <3>2, <3>3, <3>4 DEF WellFormed, Distinct
    <3>6. HasNode(now, pid)
      <4>1. Len(nodes) + 1 \in 1..(Len(nodes) + 1)
        BY <3>1
      <4>2. Len(nodes) + 1 \in DOMAIN now
        BY <3>2, <4>1
      <4> QED
        BY <3>3, <4>2 DEF HasNode
    <3> QED
      BY <3>2, <3>5, <3>6 DEF WellFormed
  <2> QED
    BY <2>1, <2>2
<1>3. kept \in [Pid -> SUBSET Pid] /\ saved \in [Pid -> SUBSET Pid]
  BY DEF TypeOK, saveScreen, backupContent
<1>4. \/ /\ list' = now /\ screen' = saved /\ video' = saved[pid] /\ onFocusPid' = pid
         /\ cursor' = moved /\ inVideo' = (moved[pid] = pid)
      \/ /\ list' = nodes /\ onFocusPid' = focus /\ screen' = screen /\ video' = video
         /\ cursor' = at /\ inVideo' = inVideo
  BY DEF loadScreen, addScreen, setScreen
<1>5. moved \in CursorType
  <2> DEFINE placed == IF known THEN at ELSE [at EXCEPT ![pid] = pid]
  <2>1. placed \in CursorType
    BY DEF CursorType
  <2>2. [placed EXCEPT ![focus] = focus] \in CursorType
    <3>1. focus \in Pid \cup {NO_FOCUS}
      BY DEF WellFormed
    <3> QED
      BY <2>1, <3>1 DEF CursorType
  <2> QED
    BY <2>1, <2>2 DEF saveCursor
<1> HIDE DEF known, now, kept, saved, moved
<1>6. FocusCursor'
  BY <1>4 DEF FocusCursor
<1> QED
  BY <1>2, <1>3, <1>4, <1>5, <1>6 DEF TypeOK

LEMMA FocusIsWellFormedNext ==
  ASSUME TypeOK', WellFormed(list', onFocusPid')
  PROVE  FocusHasScreen'
<1>1. \A p : (p \in ToSet(list')) <=> HasNode(list', p)
  BY DEF ToSet, HasNode
<1> QED
  BY <1>1 DEF TypeOK, FocusHasScreen, hasScreen, WellFormed, Distinct

\* Screens that are there are those that were there, and that of pid.
LEMMA LoadFrom ==
  ASSUME NEW nodes, nodes \in Seq(Pid), NEW at, NEW focus, NEW pid \in Pid,
         loadScreen(nodes, at, focus, pid)
  PROVE  \A i \in DOMAIN list' : list'[i] = pid \/ \E j \in DOMAIN nodes : list'[i] = nodes[j]
<1>1. CASE list' = nodes
  BY <1>1
<1>2. CASE list' = Append(nodes, pid)
  BY <1>2
<1> QED
  BY <1>1, <1>2 DEF loadScreen, addScreen

LEMMA ConcatFacts ==
  ASSUME NEW S, NEW a \in Seq(S), NEW b \in Seq(S)
  PROVE  /\ a \o b \in Seq(S) /\ Len(a \o b) = Len(a) + Len(b)
         /\ \A i \in 1..(Len(a) + Len(b)) :
              (a \o b)[i] = IF i <= Len(a) THEN a[i] ELSE b[i - Len(a)]
OBVIOUS

\* A sequence without its k-th element.
LEMMA WithoutOne ==
  ASSUME NEW S, NEW s \in Seq(S), NEW k \in 1..Len(s)
  PROVE  /\ RemoveAt(s, k) \in Seq(S) /\ Len(RemoveAt(s, k)) = Len(s) - 1
         /\ \A i \in 1..(Len(s) - 1) :
              RemoveAt(s, k)[i] = IF i < k THEN s[i] ELSE s[i + 1]
<1> DEFINE a == SubSeq(s, 1, k - 1)
           b == SubSeq(s, k + 1, Len(s))
<1>1. a \in Seq(S) /\ Len(a) = k - 1 /\ \A i \in 1..(k - 1) : a[i] = s[i]
  OBVIOUS
<1>2. b \in Seq(S) /\ Len(b) = Len(s) - k /\ \A i \in 1..(Len(s) - k) : b[i] = s[k + i]
  OBVIOUS
<1> HIDE DEF a, b
<1>3. a \o b \in Seq(S) /\ Len(a \o b) = Len(s) - 1
  <2>1. a \o b \in Seq(S) /\ Len(a \o b) = Len(a) + Len(b)
    BY <1>1, <1>2, ConcatFacts
  <2> QED
    BY <1>1, <1>2, <2>1
<1>4. ASSUME NEW i \in 1..(Len(s) - 1)
      PROVE  (a \o b)[i] = IF i < k THEN s[i] ELSE s[i + 1]
  <2>1. (a \o b)[i] = IF i <= Len(a) THEN a[i] ELSE b[i - Len(a)]
    BY <1>1, <1>2, ConcatFacts
  <2>2. CASE i < k
    BY <1>1, <2>1, <2>2
  <2>3. CASE ~(i < k)
    <3>1. i - Len(a) \in 1..(Len(s) - k) /\ k + (i - Len(a)) = i + 1 /\ ~(i <= Len(a))
      BY <1>1, <2>3
    <3> QED
      BY <1>2, <2>1, <2>3, <3>1
  <2> QED
    BY <2>2, <2>3
<1>5. RemoveAt(s, k) = a \o b
  BY DEF RemoveAt, a, b
<1> QED
  BY <1>3, <1>4, <1>5

\* The other nodes stay.
LEMMA RemoveSpares ==
  ASSUME TypeOK, NEW pid, NEW q, q # pid, HasNode(list, q)
  PROVE  HasNode(listWithout(pid), q)
<1>1. CASE ~hasScreen(pid)
  BY <1>1 DEF listWithout
<1>2. CASE hasScreen(pid)
  <2> DEFINE k == CHOOSE i \in DOMAIN list : list[i] = pid
             rest == listWithout(pid)
  <2>1. k \in DOMAIN list /\ list[k] = pid
    BY <1>2 DEF hasScreen, ToSet
  <2>2. list \in Seq(Pid) /\ DOMAIN list = 1..Len(list) /\ k \in 1..Len(list)
    BY <2>1 DEF TypeOK
  <2>3. rest = RemoveAt(list, k)
    BY <1>2 DEF listWithout
  <2>4. /\ rest \in Seq(Pid) /\ Len(rest) = Len(list) - 1
        /\ \A i \in 1..(Len(list) - 1) : rest[i] = IF i < k THEN list[i] ELSE list[i + 1]
    BY <2>2, <2>3, WithoutOne
  <2>5. DOMAIN rest = 1..(Len(list) - 1)
    BY <2>4
  <2>6. PICK i \in 1..Len(list) : list[i] = q
    BY <2>2 DEF HasNode
  <2>7. i # k
    BY <2>1, <2>6
  <2>8. CASE i < k
    <3>1. i \in 1..(Len(list) - 1) /\ rest[i] = list[i]
      BY <2>2, <2>4, <2>8
    <3> QED
      BY <2>5, <2>6, <3>1 DEF HasNode
  <2>9. CASE i > k
    <3>1. i - 1 \in 1..(Len(list) - 1) /\ ~(i - 1 < k) /\ (i - 1) + 1 = i
      BY <2>2, <2>9
    <3>2. rest[i - 1] = list[i]
      BY <2>4, <3>1
    <3> QED
      BY <2>5, <2>6, <3>1, <3>2 DEF HasNode
  <2> QED
    BY <2>2, <2>7, <2>8, <2>9
<1> QED
  BY <1>1, <1>2

\* The list and the focus that pkill loads the next screen on.
LEMMA RemoveKeeps ==
  ASSUME TypeOK, FocusHasScreen, NEW pid
  PROVE  WellFormed(listWithout(pid), focusWithout(pid))
<1>1. WellFormed(list, onFocusPid)
  BY FocusIsWellFormed
<1>2. hasScreen(pid) <=> HasNode(list, pid)
  BY DEF hasScreen, ToSet, HasNode
<1>3. CASE ~hasScreen(pid)
  BY <1>1, <1>2, <1>3 DEF listWithout, focusWithout, WellFormed
<1>4. CASE hasScreen(pid)
  <2> DEFINE k == CHOOSE i \in DOMAIN list : list[i] = pid
             rest == listWithout(pid)
  <2>1. k \in DOMAIN list /\ list[k] = pid
    BY <1>2, <1>4 DEF HasNode
  <2>2. list \in Seq(Pid) /\ DOMAIN list = 1..Len(list) /\ k \in 1..Len(list)
    BY <2>1 DEF TypeOK
  <2>3. rest = SubSeq(list, 1, k - 1) \o SubSeq(list, k + 1, Len(list))
    BY <1>4 DEF listWithout, RemoveAt
  <2>4. /\ rest \in Seq(Pid) /\ Len(rest) = Len(list) - 1
        /\ \A i \in 1..(Len(list) - 1) : rest[i] = IF i < k THEN list[i] ELSE list[i + 1]
    BY <2>2, <2>3, WithoutOne DEF RemoveAt
  <2>5. DOMAIN rest = 1..(Len(list) - 1)
    BY <2>4
  <2>6. Distinct(rest)
    <3> SUFFICES ASSUME NEW i \in 1..(Len(list) - 1), NEW j \in 1..(Len(list) - 1),
                        rest[i] = rest[j]
                 PROVE  i = j
      BY <2>5 DEF Distinct
    <3> DEFINE old(m) == IF m < k THEN m ELSE m + 1
    <3>1. /\ old(i) \in DOMAIN list /\ rest[i] = list[old(i)]
          /\ old(j) \in DOMAIN list /\ rest[j] = list[old(j)]
      BY <2>2, <2>4
    <3>2. old(i) = old(j)
      BY <1>1, <3>1 DEF WellFormed, Distinct
    <3> QED
      BY <2>2, <3>2
  <2>7. ASSUME focusWithout(pid) # NO_FOCUS PROVE HasNode(rest, focusWithout(pid))
    <3>1. focusWithout(pid) = onFocusPid /\ onFocusPid # pid /\ onFocusPid # NO_FOCUS
      BY <2>7 DEF focusWithout
    <3> QED
      BY <1>1, <3>1, RemoveSpares DEF WellFormed
  <2> QED
    BY <2>4, <2>6, <2>7 DEF WellFormed, focusWithout, TypeOK
<1> QED
  BY <1>3, <1>4

LEMMA RemoveLeaves ==
  ASSUME TypeOK, FocusHasScreen, NEW pid
  PROVE  LET rest == listWithout(pid)
         IN \A i \in DOMAIN rest : rest[i] # pid /\ \E j \in DOMAIN list : rest[i] = list[j]
<1>1. WellFormed(list, onFocusPid)
  BY FocusIsWellFormed
<1>2. CASE ~hasScreen(pid)
  BY <1>2 DEF listWithout, hasScreen, ToSet
<1>3. CASE hasScreen(pid)
  <2> DEFINE k == CHOOSE i \in DOMAIN list : list[i] = pid
             rest == listWithout(pid)
  <2>1. k \in DOMAIN list /\ list[k] = pid
    BY <1>3 DEF hasScreen, ToSet
  <2>2. list \in Seq(Pid) /\ DOMAIN list = 1..Len(list) /\ k \in 1..Len(list)
    BY <2>1 DEF TypeOK
  <2>3. rest = RemoveAt(list, k)
    BY <1>3 DEF listWithout
  <2>4. /\ rest \in Seq(Pid) /\ Len(rest) = Len(list) - 1
        /\ \A i \in 1..(Len(list) - 1) : rest[i] = IF i < k THEN list[i] ELSE list[i + 1]
    BY <2>2, <2>3, WithoutOne
  <2>5. ASSUME NEW i \in DOMAIN rest
        PROVE  rest[i] # pid /\ \E j \in DOMAIN list : rest[i] = list[j]
    <3> DEFINE old == IF i < k THEN i ELSE i + 1
    <3>1. i \in 1..(Len(list) - 1)
      BY <2>4, <2>5
    <3> HIDE DEF rest, k
    <3>2. old \in DOMAIN list /\ rest[i] = list[old] /\ old # k
      <4>1. rest[i] = list[old]
        BY <2>4, <3>1
      <4>2. i \in Int /\ k \in Int /\ Len(list) \in Int
        BY <2>2, <3>1
      <4>3. old \in 1..Len(list) /\ old # k
        BY <2>2, <3>1, <4>2
      <4> QED
        BY <2>2, <4>1, <4>3
    <3>3. list[old] # pid
      BY <1>1, <2>1, <3>2 DEF WellFormed, Distinct
    <3> QED
      BY <3>2, <3>3
  <2> QED
    BY <2>5
<1> QED
  BY <1>2, <1>3

----------------------------------------------------------------------------
LEMMA ConsoleInit == Init => ConsoleInv
<1> SUFFICES ASSUME Init PROVE ConsoleInv
  OBVIOUS
<1> USE ConsoleAssumption
<1>1. TypeOK
  <2>1. 0 \in Slot /\ 0 \in Pid /\ 1 \in Pid /\ 2 \in 2..(MaxPid + 1)
    BY DEF Slot, Pid
  <2>2. <<1>> \in Seq(Pid)
    BY <2>1
  <2> QED
    BY <2>1, <2>2 DEF Init, TypeOK
<1>2. WellFormed(list, onFocusPid)
  <2>1. 1 \in Pid
    BY DEF Pid
  <2>2. list = <<1>> /\ onFocusPid = 1
    BY DEF Init
  <2> QED
    BY <2>1, <2>2 DEF WellFormed, Distinct, HasNode
<1>3. FocusHasScreen
  BY <1>1, <1>2, FocusIsWellFormed
<1>4. FocusCursor /\ Family /\ FocusIsAlive /\ KeyWakesReader
  BY DEF Init, FocusCursor, Family, FocusIsAlive, KeyWakesReader, Pid, Slot
<1> QED
  BY <1>1, <1>3, <1>4 DEF ConsoleInv

LEMMA AdvanceInRing ==
  ASSUME NEW p \in Slot
  PROVE  advance(p) \in Slot
BY ConsoleAssumption DEF Slot, advance

\* What the console does with a new focus that is a process.
LEMMA FocusMoves ==
  ASSUME ConsoleInv, noteFocus, UNCHANGED <<buffer, current>>,
         waiting' \subseteq waiting
  PROVE  KeyWakesReader'
BY DEF ConsoleInv, KeyWakesReader, noteFocus, TypeOK

LEMMA KeyKeeps ==
  ASSUME ConsoleInv, NEW c \in Char, Key(c)
  PROVE  ConsoleInv'
<1>1. CASE GetLost
  BY <1>1 DEF GetLost, ConsoleInv, TypeOK, FocusHasScreen, hasScreen, FocusCursor, Family,
              FocusIsAlive, KeyWakesReader, keyVars, screenVars, processVars
<1>2. CASE onFocusPid \in processes
  <2>1. TypeOK'
    BY <1>2, AdvanceInRing
       DEF Key, ConsoleInv, TypeOK, woken, screenVars, processVars
  <2>2. FocusHasScreen' /\ FocusCursor' /\ Family' /\ FocusIsAlive'
    BY <1>2 DEF Key, ConsoleInv, FocusHasScreen, hasScreen, FocusCursor, Family,
                FocusIsAlive, screenVars, processVars
  <2>3. onFocusPid' \notin waiting'
    BY <1>2 DEF Key, woken, screenVars
  <2> QED
    BY <2>1, <2>2, <2>3 DEF ConsoleInv, KeyWakesReader
<1> QED
  BY <1>1, <1>2 DEF Key

LEMMA ArrowKeeps ==
  ASSUME ConsoleInv, NEW step \in {-1, 1}, Arrow(step)
  PROVE  ConsoleInv'
<1>1. CASE GetLost
  BY <1>1 DEF GetLost, ConsoleInv, TypeOK, FocusHasScreen, hasScreen, FocusCursor, Family,
              FocusIsAlive, KeyWakesReader, keyVars, screenVars, processVars
<1>2. ASSUME NEW i \in DOMAIN list, list[i] = onFocusPid, i + step \in DOMAIN list,
             loadScreen(list, cursor, onFocusPid, list[i + step]), noteFocus,
             UNCHANGED <<keyVars, altKey, processVars, waiting, kernel, orphaned>>
      PROVE  ConsoleInv'
  <2>1. WellFormed(list, onFocusPid) /\ list[i + step] \in Pid
    BY <1>2, FocusIsWellFormed DEF ConsoleInv, TypeOK
  <2>2. /\ WellFormed(list', onFocusPid') /\ screen' \in [Pid -> SUBSET Pid]
        /\ video' \subseteq Pid /\ cursor' \in CursorType /\ inVideo' \in BOOLEAN
        /\ FocusCursor' /\ onFocusPid' \in {list[i + step], onFocusPid}
    BY <1>2, <2>1, LoadKeeps DEF ConsoleInv, FocusCursor, TypeOK, CursorType
  <2>3. TypeOK'
    BY <1>2, <2>2
       DEF ConsoleInv, TypeOK, CursorType, noteFocus, WellFormed, keyVars, processVars
  <2>4. \A j \in DOMAIN list' : \E k \in DOMAIN list : list'[j] = list[k]
    BY <1>2, <2>1, LoadFrom DEF WellFormed
  <2>5. onFocusPid' \in {list[i + step], list[i]}
    BY <1>2, <2>2
  <2>6. FocusHasScreen'
    BY <2>2, <2>3, FocusIsWellFormedNext
  <2>7. Family' /\ FocusIsAlive'
    BY <1>2, <2>4, <2>5 DEF ConsoleInv, Family, FocusIsAlive, processVars
  <2>8. KeyWakesReader'
    BY <1>2, FocusMoves DEF keyVars
  <2> QED
    BY <2>2, <2>3, <2>6, <2>7, <2>8 DEF ConsoleInv
<1> QED
  BY <1>1, <1>2 DEF Arrow, swapScreen

LEMMA NothingKeeps ==
  ASSUME ConsoleInv, GetLost \/ UNCHANGED vars
  PROVE  ConsoleInv'
BY DEF GetLost, vars, ConsoleInv, TypeOK, FocusHasScreen, hasScreen, FocusCursor, Family,
       FocusIsAlive, KeyWakesReader, keyVars, screenVars, processVars

\* Printing changes nothing but what is shown.
LEMMA ShownKeeps ==
  ASSUME ConsoleInv, screen' \in [Pid -> SUBSET Pid], video' \subseteq Pid,
         UNCHANGED <<keyVars, altKey, list, onFocusPid, cursor, inVideo, processVars,
                     waiting, kernel, unwatched, orphaned>>
  PROVE  ConsoleInv'
BY DEF ConsoleInv, TypeOK, FocusHasScreen, hasScreen, FocusCursor, Family, FocusIsAlive,
       KeyWakesReader, keyVars, processVars

LEMMA PrintKeeps ==
  ASSUME ConsoleInv, NEW p \in Pid, NEW q \in Pid, printOnVideo(p) \/ printThrough(q, p)
  PROVE  ConsoleInv'
<1>1. CASE GetLost \/ UNCHANGED vars
  BY <1>1, NothingKeeps
<1>2. CASE printOnVideo(p)
  BY <1>1, <1>2, ShownKeeps
     DEF printOnVideo, printCharactersInner, ConsoleInv, TypeOK
<1>3. CASE printThrough(q, p)
  <2>1. screen \in [Pid -> SUBSET Pid] /\ cursor[q] \in Pid \cup {NO_FOCUS} /\ video \subseteq Pid
    BY DEF ConsoleInv, TypeOK
  <2>2. ASSUME cursor[q] # NO_FOCUS, NEW shown \in misplaced(cursor[q], p)
        PROVE  [screen EXCEPT ![cursor[q]] = shown] \in [Pid -> SUBSET Pid]
    <3>1. shown \in SUBSET Pid
      BY <2>1, <2>2 DEF misplaced, printCharactersInner
    <3> QED
      BY <2>1, <3>1
  <2> QED
    BY <1>1, <1>3, <2>1, <2>2, ShownKeeps DEF printThrough
<1> QED
  BY <1>2, <1>3

LEMMA SystemCallKeeps ==
  ASSUME ConsoleInv, NEW p \in processes,
         \/ ReadBlocks(p) \/ ReadNothing(p) \/ Read(p) \/ WriteToVideo(p)
         \/ WriteToMyScreen(p) \/ Ps(p) \/ ClearScreen(p)
  PROVE  ConsoleInv'
<1>1. p \in Pid
  BY DEF ConsoleInv, TypeOK
<1>2. CASE ReadBlocks(p) \/ ReadNothing(p) \/ Read(p)
  <2>1. UNCHANGED <<screenVars, processVars, orphaned>>
    BY <1>2 DEF ReadBlocks, ReadNothing, Read
  <2>2. TypeOK'
    <3>1. CASE ReadBlocks(p) \/ ReadNothing(p)
      BY <3>1 DEF ReadBlocks, ReadNothing, CanCall, ConsoleInv, TypeOK, keyVars,
                  screenVars, processVars
    <3>2. CASE Read(p)
      BY <3>2, AdvanceInRing DEF Read, ConsoleInv, TypeOK, keyVars, screenVars, processVars
    <3> QED
      BY <1>2, <3>1, <3>2
  <2>3. FocusHasScreen' /\ FocusCursor' /\ Family' /\ FocusIsAlive'
    BY <2>1 DEF ConsoleInv, FocusHasScreen, hasScreen, FocusCursor, Family, FocusIsAlive,
                screenVars, processVars
  <2>4. KeyWakesReader'
    <3>1. CASE ReadBlocks(p)
      BY <2>1, <3>1 DEF ReadBlocks, mustWait, ConsoleInv, KeyWakesReader, keyVars, screenVars
    <3>2. CASE ReadNothing(p)
      BY <3>2 DEF ReadNothing, KeyWakesReader
    <3>3. CASE Read(p)
      BY <2>1, <3>3 DEF Read, CanCall, mustWait, ConsoleInv, KeyWakesReader, screenVars
    <3> QED
      BY <1>2, <3>1, <3>2, <3>3
  <2> QED
    BY <2>2, <2>3, <2>4 DEF ConsoleInv
<1>3. CASE WriteToVideo(p) \/ Ps(p) \/ WriteToMyScreen(p)
  BY <1>1, <1>3, NothingKeeps, PrintKeeps DEF WriteToVideo, Ps, WriteToMyScreen
<1>4. CASE ClearScreen(p)
  BY <1>4 DEF ClearScreen, ConsoleInv, TypeOK, FocusHasScreen, hasScreen, FocusCursor,
              Family, FocusIsAlive, KeyWakesReader, keyVars, processVars
<1> QED
  BY <1>2, <1>3, <1>4

LEMMA HeadIsScreen ==
  ASSUME ConsoleInv, list # << >>
  PROVE  Head(list) \in ToSet(list) /\ Head(list) \in Pid
<1>1. list \in Seq(Pid) /\ Head(list) = list[1] /\ 1 \in DOMAIN list
  BY DEF ConsoleInv, TypeOK
<1> QED
  BY <1>1 DEF ToSet

LEMMA WriteFirstKeeps ==
  ASSUME ConsoleInv, NEW p \in processes, WriteFirst(p)
  PROVE  ConsoleInv'
<1>1. CASE GetLost \/ UNCHANGED vars
  BY <1>1, NothingKeeps
<1>2. CASE list # << >> /\ printThrough(Head(list), p)
  BY <1>2, HeadIsScreen, PrintKeeps DEF ConsoleInv, TypeOK
<1>3. ASSUME list # << >>, WriteOnNewScreen(p), ~hasScreen(p), onFocusPid # p
      PROVE  ConsoleInv'
  <2>1. /\ list \in Seq(Pid) /\ p \in Pid /\ WellFormed(list, onFocusPid)
        /\ Head(list) \in Pid
        /\ screen \in [Pid -> SUBSET Pid] /\ cursor \in CursorType
    BY <1>3, HeadIsScreen, FocusIsWellFormed DEF ConsoleInv, TypeOK, CursorType
  <2>2. /\ list' = Append(list, p)
        /\ UNCHANGED <<keyVars, altKey, onFocusPid, video, inVideo, processVars, waiting,
                       kernel, unwatched, orphaned>>
        /\ \E d \in Pid : cursor' = [cursor EXCEPT ![p] = d]
    BY <1>3, <2>1 DEF WriteOnNewScreen, addScreen
  <2>3. screen' \in [Pid -> SUBSET Pid]
    <3>1. \A shown \in misplaced(Head(list), p) : shown \in SUBSET Pid
      BY <2>1 DEF misplaced, printCharactersInner
    <3>2. printCharactersInner({}, p) \in SUBSET Pid
      BY <2>1 DEF printCharactersInner
    <3> QED
      BY <1>3, <2>1, <3>1, <3>2 DEF WriteOnNewScreen
  <2>4. cursor' \in CursorType /\ FocusCursor'
    BY <1>3, <2>1, <2>2 DEF CursorType, ConsoleInv, FocusCursor
  <2>5. TypeOK'
    BY <2>1, <2>2, <2>3, <2>4 DEF ConsoleInv, TypeOK, CursorType, keyVars, processVars
  <2>6. DOMAIN list' = 1..(Len(list) + 1) /\ DOMAIN list = 1..Len(list)
    BY <2>1, <2>2
  <2>7. /\ list'[Len(list) + 1] = p
        /\ \A i \in DOMAIN list : list'[i] = list[i] /\ list[i] # p
    BY <1>3, <2>1, <2>2 DEF hasScreen, ToSet
  <2>8. \A i \in DOMAIN list' : i \in DOMAIN list \/ i = Len(list) + 1
    BY <2>1, <2>6
  <2>9. WellFormed(list', onFocusPid')
    <3>1. Distinct(list')
      BY <2>1, <2>7, <2>8 DEF WellFormed, Distinct
    <3>2. \A f : HasNode(list, f) => HasNode(list', f)
      BY <2>1, <2>6, <2>7 DEF HasNode
    <3> QED
      BY <2>1, <2>2, <2>5, <3>1, <3>2 DEF WellFormed, TypeOK
  <2>10. FocusHasScreen'
    BY <2>5, <2>9, FocusIsWellFormedNext
  <2>11. Family' /\ FocusIsAlive' /\ KeyWakesReader'
    BY <2>2, <2>7, <2>8
       DEF ConsoleInv, Family, FocusIsAlive, KeyWakesReader, keyVars, processVars
  <2> QED
    BY <2>4, <2>5, <2>10, <2>11 DEF ConsoleInv
<1> QED
  BY <1>1, <1>2, <1>3 DEF WriteFirst

LEMMA AddProcessFacts ==
  ASSUME ConsoleInv, NEW p \in processes, addProcess(p)
  PROVE  /\ currentPid \in Pid \ processes /\ currentPid > 1
         /\ processes' = processes \cup {currentPid} /\ processes' \subseteq Pid
         /\ ppid' \in [Pid -> Pid] /\ ppid'[currentPid] = p
         /\ \A q \in processes : ppid'[q] = ppid[q]
         /\ currentPid' \in 2..(MaxPid + 1) /\ currentPid' = currentPid + 1
         /\ p < currentPid /\ p \in Pid
<1>1. /\ currentPid \in 2..(MaxPid + 1) /\ currentPid <= MaxPid /\ MaxPid \in Nat
      /\ \A q \in processes : q \in Pid /\ q < currentPid
      /\ ppid \in [Pid -> Pid]
  BY ConsoleAssumption DEF ConsoleInv, TypeOK, Family, addProcess
<1>2. currentPid \in Pid /\ currentPid > 1 /\ currentPid + 1 \in 2..(MaxPid + 1)
  BY <1>1 DEF Pid
<1>3. currentPid \notin processes
  BY <1>1, <1>2
<1> QED
  BY <1>1, <1>2, <1>3 DEF addProcess

LEMMA PcreateKeeps ==
  ASSUME ConsoleInv, NEW p \in processes, Pcreate(p) \/ PcreateBackground(p)
  PROVE  ConsoleInv'
<1>1. addProcess(p) /\ UNCHANGED <<keyVars, altKey, waiting, kernel, orphaned>>
  BY DEF Pcreate, PcreateBackground
<1> DEFINE new == currentPid
<1>2. /\ new \in Pid \ processes /\ new > 1
      /\ processes' = processes \cup {new} /\ processes' \subseteq Pid
      /\ ppid' \in [Pid -> Pid] /\ ppid'[new] = p /\ \A q \in processes : ppid'[q] = ppid[q]
      /\ currentPid' \in 2..(MaxPid + 1) /\ currentPid' = new + 1 /\ p < new
  BY <1>1, AddProcessFacts
<1>3. WellFormed(list, onFocusPid)
  BY FocusIsWellFormed DEF ConsoleInv
<1>4. /\ WellFormed(list', onFocusPid') /\ screen' \in [Pid -> SUBSET Pid]
      /\ video' \subseteq Pid /\ cursor' \in CursorType /\ inVideo' \in BOOLEAN
      /\ FocusCursor' /\ onFocusPid' \in {new, onFocusPid}
      /\ \A i \in DOMAIN list' : list'[i] = new \/ \E j \in DOMAIN list : list'[i] = list[j]
      /\ unwatched' \in BOOLEAN
  <2>1. CASE Pcreate(p)
    <3>1. loadScreen(list, cursor, onFocusPid, new) /\ noteFocus
      BY <2>1 DEF Pcreate
    <3>2. list \in Seq(Pid) /\ new \in Pid /\ cursor \in CursorType
      BY <1>2 DEF ConsoleInv, TypeOK, CursorType
    <3>3. unwatched' \in BOOLEAN
      BY <3>1 DEF noteFocus, ConsoleInv, TypeOK
    <3>4. \A i \in DOMAIN list' : list'[i] = new \/ \E j \in DOMAIN list : list'[i] = list[j]
      BY <3>1, <3>2, LoadFrom
    <3> QED
      BY <1>3, <3>1, <3>2, <3>3, <3>4, LoadKeeps DEF ConsoleInv, FocusCursor
  <2>2. CASE PcreateBackground(p)
    BY <1>3, <2>2
       DEF PcreateBackground, screenVars, ConsoleInv, FocusCursor, TypeOK, CursorType
  <2> QED
    BY <2>1, <2>2
<1>5. TypeOK'
  BY <1>1, <1>2, <1>4 DEF ConsoleInv, TypeOK, CursorType, WellFormed, keyVars
<1>6. FocusHasScreen'
  BY <1>4, <1>5, FocusIsWellFormedNext
<1>7. Family'
  <2>1. /\ {0, 1} \subseteq processes'
        /\ \A q \in processes' : q < currentPid'
        /\ \A q \in processes' \ {0} : ppid'[q] < q
    BY <1>2 DEF ConsoleInv, Family, TypeOK, Pid
  <2>2. ASSUME ~orphaned PROVE \A q \in processes' \ {0} : ppid'[q] \in processes'
    BY <1>2, <2>2 DEF ConsoleInv, Family
  <2>3. ASSUME ~orphaned PROVE \A i \in DOMAIN list' : list'[i] \in processes'
    BY <1>2, <1>4, <2>3 DEF ConsoleInv, Family
  <2> QED
    BY <1>1, <2>1, <2>2, <2>3 DEF Family
<1>8. FocusIsAlive'
  BY <1>1, <1>2, <1>4 DEF ConsoleInv, FocusIsAlive
<1>9. KeyWakesReader'
  <2>1. CASE noteFocus
    BY <1>1, <2>1, FocusMoves DEF keyVars
  <2>2. CASE UNCHANGED <<onFocusPid, unwatched>>
    BY <1>1, <2>2 DEF ConsoleInv, KeyWakesReader, keyVars
  <2> QED
    BY <2>1, <2>2 DEF Pcreate, PcreateBackground, screenVars
<1> QED
  BY <1>4, <1>5, <1>6, <1>7, <1>8, <1>9 DEF ConsoleInv

\* The cursors that pkill loads the next screen with.
LEMMA CursorsLeft ==
  ASSUME ConsoleInv, NEW pid \in Pid
  PROVE  LET at == cursorsWithout(pid)
             focus == focusWithout(pid)
         IN /\ at \in CursorType
            /\ focus # NO_FOCUS /\ ~inVideo => at[focus] # focus
            /\ \A q \in Pid \ {pid} : at[q] = q <=> cursor[q] = q
<1>1. \A q \in Pid : q # NO_FOCUS /\ cursor[q] \in Pid \cup {NO_FOCUS}
  BY DEF ConsoleInv, TypeOK, Pid, NO_FOCUS
<1>2. cursorsWithout(pid) \in CursorType
  BY <1>1 DEF cursorsWithout, CursorType
<1>3. \A q \in Pid \ {pid} : cursorsWithout(pid)[q] = q <=> cursor[q] = q
  BY <1>1 DEF cursorsWithout
<1>4. ASSUME focusWithout(pid) # NO_FOCUS, ~inVideo
      PROVE  cursorsWithout(pid)[focusWithout(pid)] # focusWithout(pid)
  <2>1. focusWithout(pid) = onFocusPid /\ onFocusPid \in Pid \ {pid}
    BY <1>4 DEF focusWithout, ConsoleInv, TypeOK
  <2> QED
    BY <1>3, <1>4, <2>1 DEF ConsoleInv, FocusCursor
<1> QED
  BY <1>2, <1>3, <1>4

LEMMA PkillKeeps ==
  ASSUME ConsoleInv, NEW p \in processes, NEW pid \in processes \ {0}, Pkill(p, pid)
  PROVE  ConsoleInv'
<1> DEFINE rest == listWithout(pid)
           focus == focusWithout(pid)
           at == cursorsWithout(pid)
           next == ppid[pid]
<1>1. /\ loadScreen(rest, at, focus, next) /\ noteFocus
      /\ processes' = processes \ removed(pid) /\ waiting' = waiting \ removed(pid)
      /\ orphaned' = (orphaned \/ \E q \in processes \ {pid} :
                                    pid # 1 /\ q > pid /\ ppid[q] = pid)
      /\ UNCHANGED <<keyVars, altKey, ppid, currentPid, kernel>>
  BY DEF Pkill, nextOnFocus
<1>2. next \in Pid /\ pid \in Pid /\ next < pid
  BY DEF ConsoleInv, TypeOK, Family
<1>3. /\ WellFormed(rest, focus) /\ at \in CursorType
      /\ focus # NO_FOCUS /\ ~inVideo => at[focus] # focus
  BY <1>2, RemoveKeeps, CursorsLeft DEF ConsoleInv
<1>4. /\ WellFormed(list', onFocusPid') /\ screen' \in [Pid -> SUBSET Pid]
      /\ video' \subseteq Pid /\ cursor' \in CursorType /\ inVideo' \in BOOLEAN
      /\ FocusCursor' /\ onFocusPid' \in {next, focus}
  <2> HIDE DEF rest, focus, at, next
  <2> QED
    BY <1>1, <1>2, <1>3, LoadKeeps DEF ConsoleInv
<1>5. \A i \in DOMAIN rest : rest[i] # pid /\ \E j \in DOMAIN list : rest[i] = list[j]
  BY RemoveLeaves DEF ConsoleInv
<1>6. \A i \in DOMAIN list' : list'[i] = next \/ \E j \in DOMAIN rest : list'[i] = rest[j]
  BY <1>1, <1>2, <1>3, LoadFrom DEF WellFormed
<1>7. TypeOK'
  <2>1. processes' \subseteq Pid /\ waiting' \subseteq processes'
    BY <1>1 DEF ConsoleInv, TypeOK
  <2>2. orphaned' \in BOOLEAN /\ unwatched' \in BOOLEAN
    BY <1>1 DEF ConsoleInv, TypeOK, noteFocus
  <2> QED
    BY <1>1, <1>4, <2>1, <2>2 DEF ConsoleInv, TypeOK, CursorType, WellFormed, keyVars
<1>8. FocusHasScreen'
  BY <1>4, <1>7, FocusIsWellFormedNext
<1>9. ASSUME ~orphaned', NEW q \in processes \ {0}, q # pid PROVE ppid[q] \in processes'
  <2>1. ppid[q] \in processes /\ q \in Int /\ ppid[q] < q
    BY <1>1, <1>9 DEF ConsoleInv, Family, TypeOK, Pid
  <2>2. CASE pid = 1
    BY <1>1, <2>1, <2>2 DEF removed
  <2>3. CASE pid # 1
    <3>1. ppid[q] # pid
      BY <1>1, <1>9, <2>1, <2>3
    <3> QED
      BY <1>1, <2>1, <3>1 DEF removed
  <2> QED
    BY <2>2, <2>3
<1>10. ASSUME ~orphaned' PROVE next \in processes'
  <2>1. next \in processes /\ next # pid
    BY <1>1, <1>2, <1>10 DEF ConsoleInv, Family, TypeOK, Pid
  <2> QED
    BY <1>1, <2>1 DEF removed
<1>11. Family'
  <2>1. /\ {0, 1} \subseteq processes'
        /\ \A q \in processes' : q < currentPid'
        /\ \A q \in processes' \ {0} : ppid'[q] < q
    BY <1>1 DEF ConsoleInv, Family, removed
  <2>2. ASSUME ~orphaned' PROVE \A q \in processes' \ {0} : ppid'[q] \in processes'
    <3> SUFFICES ASSUME NEW q \in processes' \ {0} PROVE ppid[q] \in processes'
      BY <1>1
    <3>1. CASE q = pid
      BY <1>10, <2>2, <3>1
    <3>2. CASE q # pid
      BY <1>1, <1>9, <2>2, <3>2
    <3> QED
      BY <3>1, <3>2
  <2>3. ASSUME ~orphaned', NEW i \in DOMAIN list' PROVE list'[i] \in processes'
    <3>1. CASE list'[i] = next
      BY <1>10, <2>3, <3>1
    <3>2. ASSUME NEW j \in DOMAIN rest, list'[i] = rest[j] PROVE list'[i] \in processes'
      BY <1>1, <1>5, <2>3, <3>2 DEF ConsoleInv, Family, removed
    <3> QED
      BY <1>6, <3>1, <3>2
  <2> QED
    BY <2>1, <2>2, <2>3 DEF Family
<1>12. FocusIsAlive'
  <2> SUFFICES ASSUME ~orphaned', onFocusPid' # NO_FOCUS PROVE onFocusPid' \in processes'
    BY DEF FocusIsAlive
  <2>1. CASE onFocusPid' = next
    BY <1>10, <2>1
  <2>2. CASE onFocusPid' = focus
    <3>1. onFocusPid' = onFocusPid /\ onFocusPid # pid /\ onFocusPid \in processes
      BY <1>1, <2>2 DEF focusWithout, ConsoleInv, FocusIsAlive
    <3> QED
      BY <1>1, <3>1 DEF removed
  <2> QED
    BY <1>4, <2>1, <2>2
<1>13. KeyWakesReader'
  BY <1>1, FocusMoves DEF keyVars
<1> QED
  BY <1>4, <1>7, <1>8, <1>11, <1>12, <1>13 DEF ConsoleInv

LEMMA ConsoleStep == ConsoleInv /\ [Next]_vars => ConsoleInv'
<1> SUFFICES ASSUME ConsoleInv, [Next]_vars PROVE ConsoleInv'
  OBVIOUS
<1>1. ASSUME NEW c \in Char, Key(c) PROVE ConsoleInv'
  BY <1>1, KeyKeeps
<1>2. ASSUME NEW pressed \in BOOLEAN, AltKey(pressed) PROVE ConsoleInv'
  BY <1>2 DEF AltKey, ConsoleInv, TypeOK, FocusHasScreen, hasScreen, FocusCursor, Family,
              FocusIsAlive, KeyWakesReader, keyVars, screenVars, processVars
<1>3. ASSUME NEW step \in {-1, 1}, Arrow(step) PROVE ConsoleInv'
  BY <1>3, ArrowKeeps
<1>4. ASSUME NEW p \in processes,
             \/ ReadBlocks(p) \/ ReadNothing(p) \/ Read(p) \/ WriteToVideo(p)
             \/ WriteToMyScreen(p) \/ Ps(p) \/ ClearScreen(p)
      PROVE  ConsoleInv'
  BY <1>4, SystemCallKeeps
<1>5. ASSUME NEW p \in processes, WriteFirst(p) PROVE ConsoleInv'
  BY <1>5, WriteFirstKeeps
<1>6. ASSUME NEW p \in processes, Pcreate(p) \/ PcreateBackground(p) PROVE ConsoleInv'
  BY <1>6, PcreateKeeps
<1>7. ASSUME NEW p \in processes, NEW pid \in processes \ {0}, Pkill(p, pid)
      PROVE  ConsoleInv'
  BY <1>7, PkillKeeps
<1>8. CASE UNCHANGED vars
  BY <1>8, NothingKeeps
<1> QED
  BY <1>1, <1>2, <1>3, <1>4, <1>5, <1>6, <1>7, <1>8 DEF Next, keyBoardHandler

----------------------------------------------------------------------------
\* Keys, screens, processes and pointers stay in range, for a ring of any size and
\* any number of processes (keyBoadDriver.c:75-102, screenLoader.c:18-207).
THEOREM ConsoleTypeCorrect == Spec => []TypeOK
<1>1. ConsoleInv => TypeOK
  BY DEF ConsoleInv
<1> QED
  BY <1>1, ConsoleInit, ConsoleStep, PTL DEF Spec

\* However screens are created, loaded, refused and removed, the focused process
\* has one, and as long as parents outlive their children a key finds that process,
\* whichever process is killed by whom (screenLoader.c:216-218, :228-230,
\* keyBoadDriver.c:79, systemCalls.c:111).
THEOREM FocusStaysThere == Spec => []FocusIsThere
<1>1. ConsoleInv => FocusIsThere
  BY DEF ConsoleInv, FocusIsThere
<1> QED
  BY <1>1, ConsoleInit, ConsoleStep, PTL DEF Spec

\* A reader with the focus waits with keys in the ring only if the focus came to
\* it after the last of them (keyBoadDriver.c:79, systemCalls.c:20-53).
THEOREM NoLostKey == Spec => []KeyWakesReader
<1>1. ConsoleInv => KeyWakesReader
  BY DEF ConsoleInv
<1> QED
  BY <1>1, ConsoleInit, ConsoleStep, PTL DEF Spec
----------------------------------------------------------------------------
(***************************************************************************)
(* The ring of keys.  Within one turn the remainder is an IF.              *)
(***************************************************************************)

Place(s, n) == IF s + n < BUFFER_SIZE THEN s + n ELSE s + n - BUFFER_SIZE

LEMMA Slots ==
  /\ BUFFER_SIZE \in Int /\ BUFFER_SIZE >= 1
  /\ \A s : s \in Slot <=> s \in Int /\ 0 <= s /\ s < BUFFER_SIZE
BY ConsoleAssumption DEF Slot

LEMMA PlaceIsRemainder ==
  ASSUME NEW s \in Slot, NEW n \in Int, 0 <= n, n <= BUFFER_SIZE
  PROVE  (s + n) % BUFFER_SIZE = Place(s, n) /\ Place(s, n) \in Slot
<1>1. CASE s + n < BUFFER_SIZE
  BY <1>1, Slots DEF Place
<1>2. CASE ~(s + n < BUFFER_SIZE)
  <2>1. s + n - BUFFER_SIZE \in 0..(BUFFER_SIZE - 1) /\ s + n \in Int
    BY <1>2, Slots
  <2>2. (s + n) % BUFFER_SIZE = s + n - BUFFER_SIZE
    BY <2>1, Slots
  <2> QED
    BY <1>2, <2>1, <2>2, Slots DEF Place
<1> QED
  BY <1>1, <1>2

LEMMA AdvanceIsPlace ==
  ASSUME NEW s \in Slot
  PROVE  advance(s) = Place(s, 1)
BY Slots DEF advance, Place

\* n keys from the read pointer on.
Ring(n) ==
  /\ n \in Int /\ 0 <= n /\ n <= BUFFER_SIZE
  /\ \A j \in Int : 0 <= j /\ j < BUFFER_SIZE => (buffer[Place(current, j)] # 0 <=> j < n)
  /\ last = Place(current, n)

LEMMA RingIsPending ==
  ASSUME TypeOK, NEW n, Ring(n)
  PROVE  Pending = n
<1>1. current \in Slot /\ last \in Slot /\ n \in Int /\ 0 <= n /\ n <= BUFFER_SIZE
  BY DEF TypeOK, Ring
<1>2. buffer[current] # 0 <=> 0 < n
  <2>1. Place(current, 0) = current
    BY <1>1, Slots DEF Place
  <2> QED
    BY <2>1, Slots DEF Ring
<1>3. last = IF current + n < BUFFER_SIZE THEN current + n ELSE current + n - BUFFER_SIZE
  BY DEF Ring, Place
<1> QED
  BY <1>1, <1>2, <1>3, Slots DEF Pending

LEMMA RingConsistent ==
  ASSUME TypeOK
  PROVE  KeyRingConsistent <=> \E n \in Int : Ring(n)
<1>1. ASSUME NEW n \in Int, Ring(n) PROVE KeyRingConsistent
  <2>1. Pending = n /\ 0 <= n /\ n <= BUFFER_SIZE /\ current \in Slot
    BY <1>1, RingIsPending DEF Ring, TypeOK
  <2>2. \A j \in Slot : (current + j) % BUFFER_SIZE = Place(current, j)
    BY <2>1, PlaceIsRemainder, Slots
  <2>3. (current + n) % BUFFER_SIZE = Place(current, n)
    BY <2>1, PlaceIsRemainder
  <2> QED
    BY <1>1, <2>1, <2>2, <2>3, Slots DEF KeyRingConsistent, Ring
<1>2. ASSUME KeyRingConsistent PROVE Ring(Pending)
  <2>1. current \in Slot /\ last \in Slot
    BY DEF TypeOK
  <2>2. Pending \in Int /\ 0 <= Pending /\ Pending <= BUFFER_SIZE
    BY <2>1, Slots DEF Pending
  <2>3. \A j \in Slot : (current + j) % BUFFER_SIZE = Place(current, j)
    BY <2>1, PlaceIsRemainder, Slots
  <2>4. (current + Pending) % BUFFER_SIZE = Place(current, Pending)
    BY <2>1, <2>2, PlaceIsRemainder
  <2> QED
    BY <1>2, <2>2, <2>3, <2>4, Slots DEF KeyRingConsistent, Ring
<1>3. Ring(Pending) => Pending \in Int
  BY DEF Ring
<1> QED
  BY <1>1, <1>2, <1>3

\* A key goes behind those that are there; getKey takes the first.
LEMMA RingStep ==
  ASSUME TypeOK, TypeOK', NEW n \in Int, Ring(n), [Next]_vars
  PROVE  Ring(n)' \/ Ring(n + 1)' \/ Ring(n - 1)'
<1>0. /\ current \in Slot /\ last \in Slot /\ buffer \in [Slot -> Char \cup {0}]
      /\ 0 <= n /\ n <= BUFFER_SIZE
  BY DEF TypeOK, Ring
<1>1. CASE UNCHANGED keyVars
  BY <1>1 DEF keyVars, Ring, Place
<1>2. ASSUME NEW c \in Char, slotIsFree, buffer' = [buffer EXCEPT ![last] = c],
             last' = advance(last), UNCHANGED current
      PROVE  Ring(n + 1)'
  <2>1. last = Place(current, n) /\ buffer[last] = 0 /\ c # 0
    BY <1>2, ConsoleAssumption DEF Ring, slotIsFree
  <2>2. n < BUFFER_SIZE
    <3>1. ASSUME n = BUFFER_SIZE PROVE FALSE
      <4>1. Place(current, n) = Place(current, 0)
        BY <1>0, <3>1, Slots DEF Place
      <4>2. buffer[Place(current, 0)] # 0
        BY <3>1, Slots DEF Ring
      <4> QED
        BY <2>1, <4>1, <4>2
    <3> QED
      BY <1>0, <3>1, Slots
  <2>3. last' = Place(current, n + 1)
    <3>1. last' = Place(Place(current, n), 1)
      BY <1>0, <1>2, <2>1, AdvanceIsPlace
    <3> QED
      BY <1>0, <2>2, <3>1, Slots DEF Place
  <2>4. ASSUME NEW j \in Int, 0 <= j, j < BUFFER_SIZE
        PROVE  buffer'[Place(current, j)] # 0 <=> j < n + 1
    <3>1. Place(current, j) \in Slot
      <4>1. j <= BUFFER_SIZE
        BY <2>4, Slots
      <4> QED
        BY <1>0, <2>4, <4>1, PlaceIsRemainder
    <3>2. CASE j = n
      BY <1>0, <1>2, <2>1, <3>2
    <3>3. CASE j # n
      <4>1. Place(current, j) # last
        BY <1>0, <2>1, <2>2, <2>4, <3>3, Slots DEF Place
      <4>2. buffer'[Place(current, j)] = buffer[Place(current, j)]
        BY <1>0, <1>2, <3>1, <4>1
      <4> QED
        BY <2>4, <3>3, <4>2 DEF Ring
    <3> QED
      BY <3>2, <3>3
  <2> QED
    BY <1>0, <1>2, <2>2, <2>3, <2>4, Slots DEF Ring, Place
<1>3. ASSUME buffer[current] # 0, buffer' = [buffer EXCEPT ![current] = 0],
             current' = advance(current), UNCHANGED last
      PROVE  Ring(n - 1)'
  <2>1. Place(current, 0) = current
    BY <1>0, Slots DEF Place
  <2>2. 1 <= n
    BY <1>0, <1>3, <2>1, Slots DEF Ring
  <2>3. current' = Place(current, 1)
    BY <1>0, <1>3, AdvanceIsPlace
  <2>4. \A j \in Int : 0 <= j /\ j < BUFFER_SIZE => Place(current', j) = Place(current, j + 1)
    BY <1>0, <2>3, Slots DEF Place
  <2>5. last' = Place(current', n - 1)
    <3>1. last = Place(current, n)
      BY DEF Ring
    <3>2. Place(current', n - 1) = Place(current, (n - 1) + 1)
      BY <1>0, <2>2, <2>4, Slots
    <3> QED
      BY <1>3, <3>1, <3>2
  <2>6. ASSUME NEW j \in Int, 0 <= j, j < BUFFER_SIZE
        PROVE  buffer'[Place(current', j)] # 0 <=> j < n - 1
    <3>1. Place(current', j) = Place(current, j + 1)
      BY <2>4, <2>6
    <3>2. CASE j + 1 < BUFFER_SIZE
      <4>1. Place(current, j + 1) # current /\ Place(current, j + 1) \in Slot
        BY <1>0, <2>6, <3>2, Slots DEF Place
      <4>2. buffer'[Place(current, j + 1)] = buffer[Place(current, j + 1)]
        BY <1>0, <1>3, <4>1
      <4>3. buffer[Place(current, j + 1)] # 0 <=> j + 1 < n
        BY <2>6, <3>2 DEF Ring
      <4>4. j + 1 < n <=> j < n - 1
        BY <2>6
      <4> QED
        BY <3>1, <4>2, <4>3, <4>4
    <3>3. CASE j + 1 = BUFFER_SIZE
      <4>1. Place(current, j + 1) = current
        BY <1>0, <3>3, Slots DEF Place
      <4>2. buffer'[current] = 0
        BY <1>0, <1>3
      <4>3. ~(j < n - 1)
        BY <1>0, <2>6, <3>3
      <4> QED
        BY <3>1, <4>1, <4>2, <4>3
    <3> QED
      BY <2>6, <3>2, <3>3, Slots
  <2> QED
    BY <1>0, <2>2, <2>5, <2>6, Slots DEF Ring
<1>4. ASSUME NEW c \in Char, Key(c) PROVE Ring(n)' \/ Ring(n + 1)' \/ Ring(n - 1)'
  <2>1. CASE onFocusPid \in processes
    BY <1>2, <1>4, <2>1 DEF Key
  <2>2. CASE GetLost
    BY <1>1, <2>2 DEF GetLost, keyVars
  <2> QED
    BY <1>4, <2>1, <2>2 DEF Key
<1>5. ASSUME NEW p \in processes, Read(p) PROVE Ring(n - 1)'
  BY <1>3, <1>5 DEF Read, mustWait
<1>6. ASSUME NEW step \in {-1, 1}, Arrow(step) PROVE UNCHANGED keyVars
  BY <1>6 DEF Arrow, swapScreen, GetLost
<1>7. ASSUME NEW pressed \in BOOLEAN, AltKey(pressed) PROVE UNCHANGED keyVars
  BY <1>7 DEF AltKey
<1>8. ASSUME NEW p \in processes,
             \/ ReadBlocks(p) \/ ReadNothing(p) \/ WriteToVideo(p) \/ WriteToMyScreen(p)
             \/ WriteFirst(p) \/ Ps(p) \/ ClearScreen(p) \/ Pcreate(p)
             \/ PcreateBackground(p) \/ \E pid \in processes \ {0} : Pkill(p, pid)
      PROVE  UNCHANGED keyVars
  <2>1. \A q : printOnVideo(p) \/ printThrough(q, p) => UNCHANGED keyVars
    BY DEF printOnVideo, printThrough, GetLost, vars
  <2>2. WriteFirst(p) => UNCHANGED keyVars
    BY <2>1 DEF WriteFirst, WriteOnNewScreen, GetLost, vars
  <2> QED
    BY <1>8, <2>1, <2>2
       DEF ReadBlocks, ReadNothing, WriteToVideo, WriteToMyScreen, Ps, ClearScreen, Pcreate,
           PcreateBackground, Pkill, GetLost
<1>9. CASE UNCHANGED vars
  BY <1>1, <1>9 DEF vars
<1> QED
  BY <1>1, <1>4, <1>5, <1>6, <1>7, <1>8, <1>9 DEF Next, keyBoardHandler

KeyInv == \E n \in Int : Ring(n)

\* The keys between the two pointers, and no others, are in the ring, for a ring of
\* any size (keyBoadDriver.c:75, :94).
THEOREM KeysStayInRing == Spec => []KeyRingConsistent
<1>1. ASSUME Init PROVE KeyInv
  <2>1. \A j \in Int : 0 <= j /\ j < BUFFER_SIZE => Place(0, j) \in Slot /\ ~(j < 0)
    BY Slots DEF Place
  <2>2. Place(0, 0) = 0
    BY Slots DEF Place
  <2>3. Ring(0)
    BY <1>1, <2>1, <2>2, Slots DEF Init, Ring
  <2> QED
    BY <2>3 DEF KeyInv
<1>2. ASSUME ConsoleInv, KeyInv, [Next]_vars PROVE KeyInv'
  <2>1. TypeOK /\ TypeOK'
    BY <1>2, ConsoleStep DEF ConsoleInv
  <2>2. PICK n \in Int : Ring(n)
    BY <1>2 DEF KeyInv
  <2>3. n \in Int /\ n + 1 \in Int /\ n - 1 \in Int
    OBVIOUS
  <2>4. Ring(n)' \/ Ring(n + 1)' \/ Ring(n - 1)'
    BY <1>2, <2>1, <2>2, RingStep
  <2> QED
    BY <2>3, <2>4 DEF KeyInv
<1>3. ConsoleInv /\ KeyInv => KeyRingConsistent
  BY RingConsistent DEF ConsoleInv, KeyInv
<1> QED
  BY <1>1, <1>2, <1>3, ConsoleInit, ConsoleStep, PTL DEF Spec
----------------------------------------------------------------------------
(***************************************************************************)
(* The screens implement the terminals of module Terminals: the text of a  *)
(* terminal is what the video memory shows for the focused process and     *)
(* what the node keeps for any other.                                      *)
(***************************************************************************)

TextOn(nodes, focus) == [q \in ToSet(nodes) |-> IF q = focus THEN video ELSE screen[q]]

LEMMA AppendAdds ==
  ASSUME NEW S, NEW s \in Seq(S), NEW x \in S
  PROVE  ToSet(Append(s, x)) = ToSet(s) \cup {x}
<1>1. Append(s, x) \in Seq(S) /\ DOMAIN Append(s, x) = 1..(Len(s) + 1) /\ DOMAIN s = 1..Len(s)
  OBVIOUS
<1>2. Append(s, x)[Len(s) + 1] = x /\ \A i \in 1..Len(s) : Append(s, x)[i] = s[i]
  OBVIOUS
<1>3. Len(s) \in Nat
  OBVIOUS
<1>4. ASSUME NEW y \in ToSet(Append(s, x)) PROVE y \in ToSet(s) \cup {x}
  <2>1. PICK i \in 1..(Len(s) + 1) : y = Append(s, x)[i]
    BY <1>1, <1>4 DEF ToSet
  <2>2. i = Len(s) + 1 \/ i \in 1..Len(s)
    BY <1>3
  <2> QED
    BY <1>1, <1>2, <2>1, <2>2 DEF ToSet
<1>5. ASSUME NEW y \in ToSet(s) PROVE y \in ToSet(Append(s, x))
  <2>1. PICK i \in 1..Len(s) : y = s[i]
    BY <1>1, <1>5 DEF ToSet
  <2>2. i \in 1..(Len(s) + 1)
    BY <1>3
  <2> QED
    BY <1>1, <1>2, <2>1, <2>2 DEF ToSet
<1>6. x \in ToSet(Append(s, x))
  <2>1. Len(s) + 1 \in 1..(Len(s) + 1)
    BY <1>3
  <2> QED
    BY <1>1, <1>2, <2>1 DEF ToSet
<1> QED
  BY <1>4, <1>5, <1>6

\* And with a terminal for pid, which is empty if it is new.
TextWith(nodes, focus, pid) ==
  [q \in ToSet(nodes) \cup {pid} |->
     IF q \in ToSet(nodes) THEN TextOn(nodes, focus)[q] ELSE {}]

AstrayOn(nodes, at, focus) ==
  {q \in ToSet(nodes) : IF q = focus THEN ~inVideo ELSE at[q] # q}

\* Loading a screen shows no other text, and takes nobody's cursor astray or
\* back; a new terminal is empty.
LEMMA LoadShows ==
  ASSUME TypeOK, NEW nodes, NEW at \in CursorType, NEW focus, WellFormed(nodes, focus),
         focus # NO_FOCUS /\ ~inVideo => at[focus] # focus,
         NEW pid \in Pid, loadScreen(nodes, at, focus, pid)
  PROVE  /\ Astray' = AstrayOn(nodes, at, focus)
         /\ \/ Text' = TextOn(nodes, focus) /\ onFocusPid' = focus
            \/ Text' = TextWith(nodes, focus, pid) /\ onFocusPid' = pid
<1> DEFINE saved == [q \in Pid |-> IF q = focus THEN video ELSE screen[q]]
           moved == [q \in Pid |-> IF q = focus /\ inVideo THEN q ELSE at[q]]
<1>1. nodes \in Seq(Pid) /\ screen \in [Pid -> SUBSET Pid] /\ inVideo \in BOOLEAN
  BY DEF WellFormed, TypeOK
<1>2. ToSet(nodes) \subseteq Pid
  BY <1>1 DEF ToSet
<1>3. (focus \in ToSet(nodes) /\ focus # NO_FOCUS) \/ focus \notin Pid
  BY DEF WellFormed, HasNode, ToSet, NO_FOCUS, Pid
<1>4. CASE /\ list' = nodes /\ onFocusPid' = focus /\ screen' = screen /\ video' = video
           /\ cursor' = at /\ inVideo' = inVideo
  BY <1>4 DEF Text, TextOn, Astray, AstrayOn
<1>5. ASSUME pid \in ToSet(nodes), list' = nodes, onFocusPid' = pid,
             screen' = saveScreen(nodes, focus, pid, screen), video' = screen'[pid],
             cursor' = saveCursor(nodes, focus, at), inVideo' = (cursor'[pid] = pid)
      PROVE  /\ Text' = [q \in ToSet(nodes) \cup {pid} |->
                           IF q \in ToSet(nodes) THEN TextOn(nodes, focus)[q] ELSE {}]
             /\ Astray' = AstrayOn(nodes, at, focus)
  <2>1. screen' = saved
    BY <1>1, <1>2, <1>3, <1>5 DEF saveScreen, backupContent
  <2>2. \A q \in ToSet(nodes) : Text'[q] = saved[q] /\ saved[q] = TextOn(nodes, focus)[q]
    BY <1>2, <1>5, <2>1 DEF Text, TextOn
  <2>3. cursor' = moved
    BY <1>2, <1>3, <1>5 DEF saveCursor, CursorType
  <2>4. Astray' = {q \in ToSet(nodes) : moved[q] # q}
    BY <1>2, <1>5, <2>3 DEF Astray
  <2>5. \A q \in ToSet(nodes) : moved[q] # q <=> IF q = focus THEN ~inVideo ELSE at[q] # q
    BY <1>2, <1>3
  <2>6. Astray' = AstrayOn(nodes, at, focus)
    BY <2>4, <2>5 DEF AstrayOn
  <2>7. ToSet(nodes) \cup {pid} = ToSet(nodes)
    BY <1>5
  <2>8. Text' = [q \in ToSet(nodes) |-> TextOn(nodes, focus)[q]]
    BY <1>5, <2>2 DEF Text
  <2> QED
    BY <2>6, <2>7, <2>8
<1>6. ASSUME pid \notin ToSet(nodes), list' = Append(nodes, pid), onFocusPid' = pid,
             screen' = saveScreen(Append(nodes, pid), focus, pid, [screen EXCEPT ![pid] = {}]),
             video' = screen'[pid],
             cursor' = saveCursor(Append(nodes, pid), focus, [at EXCEPT ![pid] = pid]),
             inVideo' = (cursor'[pid] = pid)
      PROVE  /\ Text' = [q \in ToSet(nodes) \cup {pid} |->
                           IF q \in ToSet(nodes) THEN TextOn(nodes, focus)[q] ELSE {}]
             /\ Astray' = AstrayOn(nodes, at, focus)
  <2>1. ToSet(list') = ToSet(nodes) \cup {pid}
    BY <1>1, <1>6, AppendAdds
  <2>2. pid # focus
    BY <1>3, <1>6
  <2>3. screen' = [saved EXCEPT ![pid] = {}]
    BY <1>1, <1>2, <1>3, <1>6, <2>1, <2>2 DEF saveScreen, backupContent
  <2>4. \A q \in ToSet(nodes) \cup {pid} :
          Text'[q] = IF q \in ToSet(nodes) THEN TextOn(nodes, focus)[q] ELSE {}
    BY <1>2, <1>6, <2>1, <2>3 DEF Text, TextOn
  <2>5. cursor' = [moved EXCEPT ![pid] = pid]
    BY <1>2, <1>3, <1>6, <2>1, <2>2 DEF saveCursor, CursorType
  <2>6. Astray' = {q \in ToSet(nodes) : moved[q] # q}
    BY <1>2, <1>6, <2>1, <2>5 DEF Astray
  <2>7. \A q \in ToSet(nodes) : moved[q] # q <=> IF q = focus THEN ~inVideo ELSE at[q] # q
    BY <1>2, <1>3
  <2> QED
    BY <2>1, <2>4, <2>6, <2>7 DEF Text, TextOn, AstrayOn
<1> QED
  BY <1>4, <1>5, <1>6 DEF loadScreen, addScreen, setScreen, TextWith

LEMMA TextFacts ==
  ASSUME ConsoleInv
  PROVE  /\ DOMAIN Text = ToSet(list) /\ ToSet(list) \subseteq Pid
         /\ WellFormed(list, onFocusPid)
         /\ onFocusPid \in ToSet(list) \/ onFocusPid \notin Pid
<1>1. WellFormed(list, onFocusPid) /\ list \in Seq(Pid)
  BY FocusIsWellFormed DEF ConsoleInv, TypeOK
<1>2. ToSet(list) \subseteq Pid
  BY <1>1 DEF ToSet
<1>3. onFocusPid \in ToSet(list) \/ onFocusPid \notin Pid
  BY <1>1 DEF WellFormed, HasNode, ToSet, NO_FOCUS, Pid
<1> QED
  BY <1>1, <1>2, <1>3 DEF Text, TextOn

\* Nothing of the terminals changes.
Same == Text' = Text /\ onFocusPid' = onFocusPid /\ Astray' = Astray

LEMMA SameText ==
  ASSUME UNCHANGED screenVars
  PROVE  Same
BY DEF screenVars, Text, Astray, Same

LEMMA NothingShows ==
  ASSUME GetLost \/ UNCHANGED vars
  PROVE  Same
BY SameText DEF GetLost, vars

\* The screens, with text of p on that of q.
LEMMA PutsText ==
  ASSUME ConsoleInv, NEW p, NEW q \in ToSet(list),
         UNCHANGED <<list, onFocusPid, cursor, inVideo>>,
         \/ q = onFocusPid /\ screen' = screen /\ video' = printCharactersInner(video, p)
         \/ /\ q # onFocusPid /\ video' = video
            /\ screen' = [screen EXCEPT ![q] = printCharactersInner(screen[q], p)]
  PROVE  Text' = Shown!With(q, p) /\ Astray' = Astray
<1>1. ToSet(list) \subseteq Pid /\ screen \in [Pid -> SUBSET Pid]
  BY TextFacts DEF ConsoleInv, TypeOK
<1>2. \A o \in ToSet(list) : Text'[o] = IF o = q THEN Text[o] \cup {p} ELSE Text[o]
  BY <1>1 DEF Text, printCharactersInner
<1> QED
  BY <1>2 DEF Text, Astray, Shown!With

\* Printing on the video memory is printing on the terminal being looked at.
LEMMA VideoShows ==
  ASSUME ConsoleInv, NEW p \in Pid, printOnVideo(p)
  PROVE  Shown!Next \/ Same
<1>1. CASE GetLost \/ UNCHANGED vars
  BY <1>1, NothingShows
<1>2. ASSUME inVideo, video' = printCharactersInner(video, p),
             UNCHANGED <<list, onFocusPid, screen, cursor, inVideo>>
      PROVE  Shown!Next \/ Same
  <2>1. CASE onFocusPid \in ToSet(list)
    <3>1. onFocusPid \in Shown!Open \ Astray
      BY <1>2, <2>1, TextFacts DEF Shown!Open, Astray
    <3>2. Text' = Shown!With(onFocusPid, p) /\ Astray' = Astray
      BY <1>2, <2>1, PutsText
    <3>3. Shown!Table(p)
      BY <1>2, <3>1, <3>2 DEF Shown!Table
    <3> QED
      BY <3>3 DEF Shown!Next
  <2>2. CASE onFocusPid \notin ToSet(list)
    BY <1>2, <2>2 DEF Text, Astray, Same
  <2> QED
    BY <2>1, <2>2
<1> QED
  BY <1>1, <1>2 DEF printOnVideo

\* Printing through the cursor of q ends on the terminal of q if the cursor is there;
\* if not, it is misplaced.
LEMMA ThroughShows ==
  ASSUME ConsoleInv, NEW p \in Pid, NEW q \in ToSet(list), printThrough(q, p)
  PROVE  /\ onFocusPid' = onFocusPid /\ Astray' = Astray
         /\ Text' \in Shown!Misplaced(p)
         /\ cursor[q] = q /\ q # onFocusPid => Text' = Shown!With(q, p)
<1>1. ToSet(list) \subseteq Pid /\ screen \in [Pid -> SUBSET Pid]
  BY TextFacts DEF ConsoleInv, TypeOK
<1>2. CASE cursor[q] # q /\ (GetLost \/ UNCHANGED vars)
  BY <1>2, NothingShows DEF Same, Shown!Misplaced
<1>3. ASSUME NEW to \in Pid, cursor[q] = to, NEW shown \in misplaced(to, p),
             to = q => shown = printCharactersInner(screen[q], p),
             screen' = [screen EXCEPT ![to] = shown],
             UNCHANGED <<list, onFocusPid, cursor, video, inVideo>>
      PROVE  /\ onFocusPid' = onFocusPid /\ Astray' = Astray
             /\ Text' \in Shown!Misplaced(p)
             /\ to = q /\ q # onFocusPid => Text' = Shown!With(q, p)
  <2>1. onFocusPid' = onFocusPid /\ Astray' = Astray
    BY <1>3 DEF Astray
  <2>2. CASE to \in ToSet(list) \ {onFocusPid} /\ shown = printCharactersInner(screen[to], p)
    <3>1. Text' = Shown!With(to, p)
      BY <1>3, <2>2, PutsText
    <3>2. to \in Shown!Open \ {onFocusPid}
      BY <2>2, TextFacts DEF Shown!Open
    <3> QED
      BY <2>1, <3>1, <3>2 DEF Shown!Misplaced
  <2>3. CASE to \notin ToSet(list) \/ to = onFocusPid
    <3>1. Text' = Text
      BY <1>1, <1>3, <2>3 DEF Text
    <3> QED
      BY <1>3, <2>1, <2>3, <3>1 DEF Shown!Misplaced
  <2>4. CASE shown = screen[to] /\ to # q
    <3>1. Text' = Text
      BY <1>1, <1>3, <2>4 DEF Text
    <3> QED
      BY <2>1, <2>4, <3>1 DEF Shown!Misplaced
  <2> QED
    BY <1>3, <2>2, <2>3, <2>4 DEF misplaced
<1>4. cursor[q] \in Pid \cup {NO_FOCUS} /\ q # NO_FOCUS
  BY <1>1 DEF ConsoleInv, TypeOK, Pid, NO_FOCUS
<1>5. CASE cursor[q] # NO_FOCUS /\ ~(GetLost \/ UNCHANGED vars)
  BY <1>3, <1>4, <1>5 DEF printThrough
<1>6. CASE cursor[q] # NO_FOCUS /\ cursor[q] # q /\ GetLost
  BY <1>2, <1>6
<1>7. CASE cursor[q] = NO_FOCUS
  BY <1>2, <1>4, <1>7 DEF printThrough
<1> QED
  BY <1>3, <1>4, <1>6, <1>7 DEF printThrough

\* The first write of a process without a screen.
LEMMA NewScreenShows ==
  ASSUME ConsoleInv, NEW p \in Pid, list # << >>, p \notin ToSet(list), onFocusPid # p,
         WriteOnNewScreen(p)
  PROVE  Shown!FirstWrite(p)
<1>1. /\ ToSet(list) \subseteq Pid /\ screen \in [Pid -> SUBSET Pid] /\ list \in Seq(Pid)
      /\ cursor \in CursorType
      /\ Head(list) \in ToSet(list) /\ Head(list) # p /\ DOMAIN Text = ToSet(list)
  BY TextFacts, HeadIsScreen DEF ConsoleInv, TypeOK, CursorType
<1>2. /\ ToSet(list') = ToSet(list) \cup {p}
      /\ UNCHANGED <<onFocusPid, video, inVideo>>
  BY <1>1, AppendAdds DEF WriteOnNewScreen, addScreen
<1> DEFINE grown(shown) ==
             [q \in ToSet(list) \cup {p} |-> IF q = p THEN {p} ELSE shown[q]]
<1>3. ASSUME screen' = [screen EXCEPT ![p] = printCharactersInner({}, p)],
             cursor' = [cursor EXCEPT ![p] = p]
      PROVE  Text' = grown(Text) /\ Astray' = Astray
  <2>1. \A q \in ToSet(list) \cup {p} : Text'[q] = IF q = p THEN {p} ELSE Text[q]
    BY <1>1, <1>2, <1>3 DEF Text, printCharactersInner
  <2>2. Astray' = Astray
    BY <1>1, <1>2, <1>3 DEF Astray, CursorType
  <2> QED
    BY <1>2, <2>1, <2>2 DEF Text
<1>4. ASSUME cursor' = [cursor EXCEPT ![p] = Head(list)],
             NEW shown \in misplaced(Head(list), p),
             screen' = [screen EXCEPT ![p] = printCharactersInner({}, p),
                                      ![Head(list)] = shown]
      PROVE  /\ Astray' = Astray \cup {p}
             /\ Text' = grown(Text) \/ /\ Head(list) # onFocusPid
                                       /\ Text' = grown(Shown!With(Head(list), p))
  <2>1. Astray' = Astray \cup {p}
    BY <1>1, <1>2, <1>4 DEF Astray, CursorType
  <2>2. \A q \in Pid : screen'[q] = IF q = Head(list) THEN shown
                                    ELSE IF q = p THEN {p} ELSE screen[q]
    BY <1>1, <1>4 DEF printCharactersInner
  <2>3. CASE shown = screen[Head(list)] \/ Head(list) = onFocusPid
    <3>1. \A q \in ToSet(list) \cup {p} : Text'[q] = IF q = p THEN {p} ELSE Text[q]
      BY <1>1, <1>2, <2>2, <2>3 DEF Text
    <3> QED
      BY <1>2, <2>1, <3>1 DEF Text
  <2>4. CASE shown = printCharactersInner(screen[Head(list)], p) /\ Head(list) # onFocusPid
    <3>1. \A q \in ToSet(list) \cup {p} :
            Text'[q] = IF q = p THEN {p} ELSE Shown!With(Head(list), p)[q]
      BY <1>1, <1>2, <2>2, <2>4 DEF Text, printCharactersInner, Shown!With
    <3> QED
      BY <1>2, <2>1, <2>4, <3>1 DEF Text
  <2> QED
    BY <1>4, <2>3, <2>4 DEF misplaced
<1>5. /\ Shown!Open = ToSet(list) /\ Text \in Shown!Misplaced(p)
      /\ Head(list) # onFocusPid => Shown!With(Head(list), p) \in Shown!Misplaced(p)
  BY <1>1 DEF Shown!Open, Shown!Misplaced
<1>6. CASE Text' = grown(Text) /\ (Astray' = Astray \/ Astray' = Astray \cup {p})
  BY <1>2, <1>5, <1>6 DEF Shown!FirstWrite
<1>7. CASE /\ Head(list) # onFocusPid /\ Astray' = Astray \cup {p}
           /\ Text' = grown(Shown!With(Head(list), p))
  BY <1>2, <1>5, <1>7 DEF Shown!FirstWrite
<1> QED
  BY <1>3, <1>4, <1>6, <1>7 DEF WriteOnNewScreen

LEMMA WritesShow ==
  ASSUME ConsoleInv, NEW p \in processes,
         \/ WriteToVideo(p) \/ WriteToMyScreen(p) \/ WriteFirst(p) \/ Ps(p)
         \/ ClearScreen(p)
  PROVE  Shown!Next \/ Same
<1>1. /\ DOMAIN Text = ToSet(list) /\ ToSet(list) \subseteq Pid /\ p \in Pid
  BY TextFacts DEF ConsoleInv, TypeOK
<1>2. CASE WriteToVideo(p) \/ Ps(p)
  BY <1>1, <1>2, VideoShows, NothingShows DEF WriteToVideo, Ps
<1>3. CASE WriteToMyScreen(p)
  <2>1. onFocusPid # p /\ p \in ToSet(list) /\ printThrough(p, p)
    BY <1>3 DEF WriteToMyScreen, hasScreen
  <2>2. /\ onFocusPid' = onFocusPid /\ Astray' = Astray
        /\ Text' \in Shown!Misplaced(p)
        /\ cursor[p] = p => Text' = Shown!With(p, p)
    BY <1>1, <2>1, ThroughShows
  <2>3. CASE cursor[p] = p
    <3>1. p \in Shown!Open \ Astray
      BY <1>1, <2>1, <2>3 DEF Shown!Open, Astray
    <3>2. Shown!Write(p)
      BY <2>2, <2>3, <3>1 DEF Shown!Write
    <3> QED
      BY <1>1, <3>2 DEF Shown!Next
  <2>4. CASE cursor[p] # p
    <3>1. p \in Astray \ {onFocusPid}
      BY <2>1, <2>4 DEF Astray
    <3>2. Shown!AstrayWrite(p)
      BY <2>2, <3>1 DEF Shown!AstrayWrite
    <3> QED
      BY <1>1, <3>2 DEF Shown!Next
  <2> QED
    BY <2>3, <2>4
<1>4. CASE WriteFirst(p)
  <2>1. onFocusPid # p /\ p \notin ToSet(list)
    BY <1>4 DEF WriteFirst, hasScreen
  <2>2. CASE GetLost \/ UNCHANGED vars
    BY <2>2, NothingShows
  <2>3. CASE list # << >> /\ WriteOnNewScreen(p)
    BY <1>1, <2>1, <2>3, NewScreenShows DEF Shown!Next
  <2>4. CASE list # << >> /\ printThrough(Head(list), p)
    <3>1. /\ onFocusPid' = onFocusPid /\ Astray' = Astray
          /\ Text' \in Shown!Misplaced(p)
      BY <1>1, <2>4, HeadIsScreen, ThroughShows
    <3>2. Shown!FirstWrite(p)
      BY <1>1, <2>1, <3>1 DEF Shown!FirstWrite, Shown!Open
    <3> QED
      BY <1>1, <3>2 DEF Shown!Next
  <2> QED
    BY <1>4, <2>2, <2>3, <2>4 DEF WriteFirst
<1>5. CASE ClearScreen(p)
  <2>1. /\ list' = list /\ onFocusPid' = onFocusPid /\ screen' = screen /\ video' = {}
        /\ cursor' = cursor /\ inVideo' = TRUE
    BY <1>5 DEF ClearScreen
  <2>2. CASE onFocusPid \in ToSet(list)
    <3>1. Text' = [Text EXCEPT ![onFocusPid] = {}] /\ Astray' = Astray \ {onFocusPid}
      BY <2>1, <2>2 DEF Text, Astray
    <3>2. Shown!Clear
      BY <1>1, <2>1, <2>2, <3>1 DEF Shown!Clear, Shown!Open
    <3> QED
      BY <3>2 DEF Shown!Next
  <2>3. CASE onFocusPid \notin ToSet(list)
    BY <2>1, <2>3 DEF Text, Astray, Same
  <2> QED
    BY <2>2, <2>3
<1> QED
  BY <1>2, <1>3, <1>4, <1>5

LEMMA LoadsShow ==
  ASSUME ConsoleInv, NEW pid \in Pid, loadScreen(list, cursor, onFocusPid, pid)
  PROVE  Shown!Next \/ Same
<1>1. /\ WellFormed(list, onFocusPid) /\ DOMAIN Text = ToSet(list) /\ cursor \in CursorType
      /\ ToSet(list) \subseteq Pid
      /\ onFocusPid # NO_FOCUS /\ ~inVideo => cursor[onFocusPid] # onFocusPid
  BY TextFacts DEF ConsoleInv, FocusCursor, TypeOK, CursorType
<1>2. TextOn(list, onFocusPid) = Text /\ AstrayOn(list, cursor, onFocusPid) = Astray
  BY DEF Text, TextOn, Astray, AstrayOn
<1>3. /\ Astray' = Astray
      /\ \/ Text' = Text /\ onFocusPid' = onFocusPid
         \/ Text' = TextWith(list, onFocusPid, pid) /\ onFocusPid' = pid
  <2>1. TypeOK
    BY DEF ConsoleInv
  <2>2. /\ Astray' = AstrayOn(list, cursor, onFocusPid)
        /\ \/ Text' = TextOn(list, onFocusPid) /\ onFocusPid' = onFocusPid
           \/ Text' = TextWith(list, onFocusPid, pid) /\ onFocusPid' = pid
    BY <1>1, <2>1, LoadShows
  <2> QED
    BY <1>2, <2>2
<1>4. CASE Text' = Text /\ onFocusPid' = onFocusPid
  BY <1>3, <1>4 DEF Same
<1>5. CASE Text' = TextWith(list, onFocusPid, pid) /\ onFocusPid' = pid
  <2>1. Shown!Open \ {NO_FOCUS} = ToSet(list) /\ Astray \ {NO_FOCUS} = Astray
    BY <1>1 DEF Shown!Open, Astray, NO_FOCUS, Pid
  <2>2. Shown!Show(NO_FOCUS, pid)
    BY <1>2, <1>3, <1>5, <2>1 DEF TextWith, Shown!Show
  <2> QED
    BY <2>2 DEF Shown!Next
<1> QED
  BY <1>3, <1>4, <1>5

LEMMA KillShows ==
  ASSUME ConsoleInv, NEW p \in processes, NEW pid \in processes \ {0}, Pkill(p, pid)
  PROVE  Shown!Next
<1> DEFINE rest == listWithout(pid)
           focus == focusWithout(pid)
           at == cursorsWithout(pid)
           next == ppid[pid]
<1>1. loadScreen(rest, at, focus, next) /\ next \in Pid /\ pid \in Pid
  BY DEF Pkill, nextOnFocus, ConsoleInv, TypeOK
<1>2. /\ WellFormed(rest, focus) /\ at \in CursorType
      /\ focus # NO_FOCUS /\ ~inVideo => at[focus] # focus
      /\ \A q \in Pid \ {pid} : at[q] = q <=> cursor[q] = q
  BY <1>1, RemoveKeeps, CursorsLeft DEF ConsoleInv
<1>3. ToSet(rest) = ToSet(list) \ {pid}
  <2>1. \A i \in DOMAIN rest : rest[i] # pid /\ \E j \in DOMAIN list : rest[i] = list[j]
    BY RemoveLeaves DEF ConsoleInv
  <2>2. \A q : q # pid /\ HasNode(list, q) => HasNode(rest, q)
    BY RemoveSpares DEF ConsoleInv
  <2> QED
    BY <2>1, <2>2 DEF ToSet, HasNode
<1>4. /\ ToSet(list) \subseteq Pid /\ NO_FOCUS \notin Pid
      /\ \A q \in ToSet(list) \ {pid} : q = onFocusPid <=> q = focus
  BY TextFacts DEF focusWithout, NO_FOCUS, Pid
<1>5. TextOn(rest, focus) = [q \in ToSet(list) \ {pid} |-> Text[q]]
  <2>1. \A q \in ToSet(list) \ {pid} : TextOn(rest, focus)[q] = Text[q]
    BY <1>3, <1>4 DEF Text, TextOn
  <2> QED
    BY <1>3, <2>1 DEF TextOn
<1>6. AstrayOn(rest, at, focus) = Astray \ {pid}
  BY <1>2, <1>3, <1>4 DEF AstrayOn, Astray
<1>7. Shown!Open = ToSet(list) /\ focus = IF onFocusPid = pid THEN NO_FOCUS ELSE onFocusPid
  BY TextFacts DEF Shown!Open, focusWithout
<1> HIDE DEF rest, focus, at, next
<1>8. /\ Astray' = Astray \ {pid}
      /\ \/ Text' = TextOn(rest, focus) /\ onFocusPid' = focus
         \/ Text' = TextWith(rest, focus, next) /\ onFocusPid' = next
  <2>1. TypeOK
    BY DEF ConsoleInv
  <2>2. /\ Astray' = AstrayOn(rest, at, focus)
        /\ \/ Text' = TextOn(rest, focus) /\ onFocusPid' = focus
           \/ Text' = TextWith(rest, focus, next) /\ onFocusPid' = next
    BY <1>1, <1>2, <2>1, LoadShows
  <2> QED
    BY <1>6, <2>2
<1>9. CASE Text' = TextOn(rest, focus) /\ onFocusPid' = focus
  <2>1. Shown!Close(pid)
    BY <1>5, <1>7, <1>8, <1>9 DEF Shown!Close
  <2> QED
    BY <1>1, <2>1 DEF Shown!Next
<1>10. CASE Text' = TextWith(rest, focus, next) /\ onFocusPid' = next
  <2>1. Text' = [q \in (ToSet(list) \ {pid}) \cup {next} |->
                   IF q \in ToSet(list) \ {pid} THEN Text[q] ELSE {}]
    BY <1>3, <1>5, <1>10 DEF TextWith
  <2>2. Shown!Show(pid, next)
    BY <1>7, <1>8, <1>10, <2>1 DEF Shown!Show
  <2> QED
    BY <1>1, <2>2 DEF Shown!Next
<1> QED
  BY <1>8, <1>9, <1>10

LEMMA StepShows ==
  ASSUME ConsoleInv, [Next]_vars
  PROVE  Shown!Next \/ Same
<1>1. CASE UNCHANGED screenVars
  BY <1>1, SameText
<1>2. ASSUME NEW c \in Char, Key(c) PROVE UNCHANGED screenVars
  BY <1>2 DEF Key, GetLost, screenVars
<1>3. ASSUME NEW pressed \in BOOLEAN, AltKey(pressed) PROVE UNCHANGED screenVars
  BY <1>3 DEF AltKey
<1>4. ASSUME NEW step \in {-1, 1}, Arrow(step) PROVE Shown!Next \/ Same
  <2>1. CASE GetLost
    BY <2>1, NothingShows
  <2>2. ASSUME NEW i \in DOMAIN list, i + step \in DOMAIN list,
               loadScreen(list, cursor, onFocusPid, list[i + step])
        PROVE  Shown!Next \/ Same
    BY <2>2, LoadsShow DEF ConsoleInv, TypeOK
  <2> QED
    BY <1>4, <2>1, <2>2 DEF Arrow, swapScreen
<1>5. ASSUME NEW p \in processes,
             ReadBlocks(p) \/ ReadNothing(p) \/ Read(p) \/ PcreateBackground(p)
      PROVE  UNCHANGED screenVars
  BY <1>5 DEF ReadBlocks, ReadNothing, Read, PcreateBackground
<1>6. ASSUME NEW p \in processes, Pcreate(p) PROVE Shown!Next \/ Same
  <2>1. currentPid \in Pid /\ loadScreen(list, cursor, onFocusPid, currentPid)
    BY <1>6, AddProcessFacts DEF Pcreate
  <2> QED
    BY <2>1, LoadsShow
<1>7. CASE UNCHANGED vars
  BY <1>7, NothingShows
<1> QED
  BY <1>1, <1>2, <1>3, <1>4, <1>5, <1>6, <1>7, WritesShow, KillShows
     DEF Next, keyBoardHandler

\* The screens implement the terminals: for any number of processes and any order of
\* switches, creations, kills and writes, focused or not, the output of a process is
\* on its own screen and stays there, but for the table of ps, which goes to the
\* screen being looked at, and for a process whose first write, made without a
\* screen, went astray (screenLoader.c:18-38, :50-64, :105-119, :183-207,
\* scheduler.c:357-371).
THEOREM ScreensImplementTerminals == Spec => ScreensAreTerminals
<1>1. Init => Shown!Init
  <2> SUFFICES ASSUME Init PROVE Shown!Init
    OBVIOUS
  <2>1. /\ ToSet(list) = {1} /\ onFocusPid = 1 /\ video = {} /\ inVideo = TRUE
    BY DEF Init, ToSet
  <2>2. Astray = {}
    BY <2>1 DEF Astray
  <2> QED
    BY <2>1, <2>2 DEF Shown!Init, Text
<1>2. ConsoleInv /\ [Next]_vars => [Shown!Next]_(Shown!termVars)
  BY StepShows DEF Shown!termVars, Same
<1>3. ConsoleInv /\ [Next]_vars => ConsoleInv'
  BY ConsoleStep
<1>4. Init => ConsoleInv
  BY ConsoleInit
<1> QED
  BY <1>1, <1>2, <1>3, <1>4, PTL DEF Spec, ScreensAreTerminals, Shown!Spec
=============================================================================
