------------------------------ MODULE PagesProofs ------------------------------
EXTENDS ProcessHeap, KernelObjects, FiniteSetTheorems, SequenceTheorems, WellFoundedInduction, TLAPS

(***************************************************************************)
(* Numbers, lists and rings.                                               *)
(***************************************************************************)
LEMMA LeastNumber ==
  ASSUME NEW S \in SUBSET Nat, S # {}
  PROVE  \E n \in S : \A m \in S : n <= m
<1> DEFINE R == {ss \in Nat \X Nat : ss[1] < ss[2]}
<1>1. OpToRel(<, Nat) = R
  BY DEF OpToRel
<1>2. IsWellFoundedOn(R, Nat)
  BY <1>1, NatLessThanWellFounded
<1>3. \A m, n \in Nat : m < n => <<m, n>> \in R
  OBVIOUS
<1> HIDE DEF R
<1>4. PICK n \in S : \A m \in S : ~(<<m, n>> \in R)
  BY <1>2, WFMin
<1>5. \A m \in S : ~(m < n)
  BY <1>3, <1>4
<1> QED BY <1>5

\* A set of numbers that holds the first and with each number the next.
LEMMA UpTo ==
  ASSUME NEW n \in Nat, NEW S,
         0 \in S, \A k \in 1..n : k - 1 \in S => k \in S
  PROVE  0..n \subseteq S
<1> SUFFICES ASSUME NEW out \in 0..n, out \notin S PROVE FALSE
  OBVIOUS
<1>1. PICK k \in {m \in 0..n : m \notin S} : \A m \in {m \in 0..n : m \notin S} : k <= m
  <2>1. {m \in 0..n : m \notin S} \in SUBSET Nat /\ {m \in 0..n : m \notin S} # {}
    OBVIOUS
  <2> QED BY <2>1, LeastNumber
<1>2. k \in 1..n /\ k - 1 \in 0..n
  BY <1>1
<1>3. k - 1 \in S
  <2> SUFFICES ASSUME k - 1 \notin S PROVE FALSE
    OBVIOUS
  <2>1. k <= k - 1
    BY <1>1, <1>2
  <2> QED BY <1>2, <2>1
<1> QED BY <1>1, <1>2, <1>3

\* A walk of so many nodes takes the links it takes.
IsWalk(words, first, size, s) ==
  /\ s \in [1..size -> Block]
  /\ size > 0 => s[1] = first
  /\ \A i \in 2..size : words[s[i - 1]][next] = s[i]

LEMMA WalkIs ==
  ASSUME NEW words, NEW first, NEW size \in Nat, NEW s, IsWalk(words, first, size, s)
  PROVE  Walk(words, first, size) = s
<1> DEFINE Step(f) == [k \in 1..size |-> IF k = 1 THEN first ELSE words[f[k - 1]][next]]
           at == CHOOSE f : f = Step(f)
<1>1. Walk(words, first, size) = at
  BY DEF Walk
<1>2. s = Step(s)
  <2>1. \A k \in 1..size : s[k] = IF k = 1 THEN first ELSE words[s[k - 1]][next]
    BY DEF IsWalk
  <2>2. s = [k \in 1..size |-> s[k]]
    BY DEF IsWalk
  <2>3. [k \in 1..size |-> s[k]] = Step(s)
    BY <2>1
  <2> QED BY <2>2, <2>3
<1>3. at = Step(at)
  <2> HIDE DEF Step
  <2> QED BY <1>2
<1> HIDE DEF at
<1>4. \A k \in 1..size : at[k] = IF k = 1 THEN first ELSE words[at[k - 1]][next]
  BY <1>3
<1>5. \A k \in 1..size : s[k] = IF k = 1 THEN first ELSE words[s[k - 1]][next]
  BY DEF IsWalk
<1> DEFINE S == {k \in 0..size : k > 0 => at[k] = s[k]}
<1>6. \A k \in 1..size : k - 1 \in S => k \in S
  <2> SUFFICES ASSUME NEW k \in 1..size, k - 1 \in S PROVE k \in S
    OBVIOUS
  <2>1. CASE k = 1
    BY <1>4, <1>5, <2>1
  <2>2. CASE k # 1
    <3>1. at[k - 1] = s[k - 1]
      BY <2>2
    <3>2. at[k] = s[k]
      BY <1>4, <1>5, <2>2, <3>1
    <3> QED BY <3>2
  <2> QED BY <2>1, <2>2
<1>7. 0..size \subseteq S
  <2>1. 0 \in S
    OBVIOUS
  <2> HIDE DEF S
  <2> QED BY <1>6, <2>1, UpTo
<1>8. \A k \in 1..size : at[k] = s[k]
  BY <1>7
<1>9. at = [k \in 1..size |-> at[k]]
  BY <1>3
<1>10. s = [k \in 1..size |-> s[k]]
  BY DEF IsWalk
<1>11. at = s
  BY <1>8, <1>9, <1>10
<1> QED BY <1>1, <1>11

\* The node at a place of a list; behind its end there is none.
NodeAt(s, i) == IF i \in 1..Len(s) THEN s[i] ELSE NULL

\* A list through the words next, ended by NULL.
Linked(words, first, s) ==
  /\ s \in Seq(Block)
  /\ first = NodeAt(s, 1)
  /\ \A i \in 1..Len(s) : words[s[i]][next] = NodeAt(s, i + 1)
  /\ \A i, j \in 1..Len(s) : s[i] = s[j] => i = j

LEMMA NoBlock == NULL \notin Block
BY BlocksAssumption DEF NULL, Block

\* A list that meets no node twice has no more nodes than there are pages.
LEMMA ShortList ==
  ASSUME NEW s \in Seq(Block), \A i, j \in 1..Len(s) : s[i] = s[j] => i = j
  PROVE  Len(s) \in Nat /\ Len(s) <= blocksAmount
<1>1. IsFiniteSet(Block) /\ Cardinality(Block) = blocksAmount
  <2>1. 0 \in Int /\ blocksAmount - 1 \in Int /\ (0 > blocksAmount - 1 <=> blocksAmount = 0)
    BY BlocksAssumption
  <2> QED BY <2>1, BlocksAssumption, FS_Interval DEF Block
<1>2. IsFiniteSet(1..Len(s)) /\ Cardinality(1..Len(s)) = Len(s) /\ Len(s) \in Nat
  <2>1. PICK n : n = Len(s) /\ n \in Nat
    OBVIOUS
  <2>2. 1 \in Int /\ n \in Int
    BY <2>1
  <2>3. IsFiniteSet(1..n) /\ Cardinality(1..n) = IF 1 > n THEN 0 ELSE n - 1 + 1
    BY <2>2, FS_Interval, Zenon
  <2> QED BY <2>1, <2>3
<1>3. s \in [1..Len(s) -> Block]
  OBVIOUS
<1>4. s \in Injection(1..Len(s), Block)
  <2>1. IsInjective(s)
    BY DEF IsInjective
  <2> QED BY <1>3, <2>1 DEF Injection
<1> QED BY <1>1, <1>2, <1>4, FS_Injection

LEMMA ChainIs ==
  ASSUME NEW words, NEW first, NEW s, Linked(words, first, s)
  PROVE  Chain(words, first) = s
<1> DEFINE Node(before) == IF before = <<>> THEN first ELSE words[before[Len(before)]][next]
           More(before) == IF Node(before) \in Block THEN Append(before, Node(before)) ELSE before
           Step(f) == [n \in 0..blocksAmount |-> IF n = 0 THEN <<>> ELSE More(f[n - 1])]
           upTo == CHOOSE f : f = Step(f)
<1>1. Chain(words, first) = upTo[blocksAmount]
  BY DEF Chain
<1>2. PICK m : m = Len(s)
  OBVIOUS
<1>3. /\ m \in Nat /\ m <= blocksAmount /\ blocksAmount \in Nat
      /\ \A i \in 1..m : s[i] \in Block
      /\ s = [i \in 1..m |-> s[i]]
  <2>1. s \in Seq(Block)
    BY DEF Linked
  <2> QED BY <1>2, <2>1, ShortList, BlocksAssumption DEF Linked
<1> DEFINE Least(n) == IF n < m THEN n ELSE m
           Front(n) == [i \in 1..Least(n) |-> s[i]]
           U == [n \in 0..blocksAmount |-> Front(n)]
<1>4. \A n \in Nat : Front(n) \in Seq(Block) /\ Len(Front(n)) = Least(n) /\ Least(n) \in Nat
  <2> SUFFICES ASSUME NEW n \in Nat
               PROVE  Front(n) \in Seq(Block) /\ Len(Front(n)) = Least(n) /\ Least(n) \in Nat
    OBVIOUS
  <2>1. PICK q : q = Least(n)
    OBVIOUS
  <2>2. q \in Nat /\ q <= m
    BY <1>3, <2>1
  <2>3. \A i \in 1..q : s[i] \in Block
    BY <1>3, <2>2
  <2>4. [i \in 1..q |-> s[i]] \in Seq(Block) /\ Len([i \in 1..q |-> s[i]]) = q
    BY <2>2, <2>3
  <2> QED BY <2>1, <2>2, <2>4
<1>5. \A n \in 1..blocksAmount : More(Front(n - 1)) = Front(n)
  <2> SUFFICES ASSUME NEW n \in 1..blocksAmount PROVE More(Front(n - 1)) = Front(n)
    OBVIOUS
  <2>0. n \in Nat /\ n >= 1 /\ n - 1 \in Nat
    BY <1>3
  <2>1. PICK before : before = Front(n - 1)
    OBVIOUS
  <2>2. before \in Seq(Block) /\ Len(before) = Least(n - 1)
    BY <1>4, <2>1
  <2>3. CASE n <= m
    <3>1. Least(n - 1) = n - 1 /\ Least(n) = n /\ before = [i \in 1..(n - 1) |-> s[i]]
      BY <1>3, <2>1, <2>3
    <3>0. Len(before) = n - 1
      BY <2>2, <3>1
    <3>2. Node(before) = s[n]
      <4>1. CASE n = 1
        <5>1. before = <<>>
          BY <2>2, <3>1, <4>1
        <5>2. first = s[1]
          BY <1>2, <1>3, <2>3, <4>1 DEF Linked, NodeAt
        <5> QED BY <4>1, <5>1, <5>2
      <4>2. CASE n # 1
        <5>1. before # <<>> /\ before[Len(before)] = s[n - 1]
          <6>1. before # <<>>
            BY <2>0, <2>2, <3>0, <4>2
          <6>2. n - 1 \in 1..(n - 1)
            BY <2>0, <4>2
          <6> QED BY <3>0, <3>1, <6>1, <6>2
        <5>2. words[s[n - 1]][next] = NodeAt(s, n - 1 + 1) /\ n - 1 + 1 = n
          BY <1>2, <1>3, <2>3, <4>2 DEF Linked
        <5>3. NodeAt(s, n) = s[n]
          BY <1>2, <1>3, <2>3 DEF NodeAt
        <5> QED BY <5>1, <5>2, <5>3
      <4> QED BY <4>1, <4>2
    <3>3. s[n] \in Block
      BY <1>3, <2>3
    <3>4. More(before) = Append(before, s[n])
      BY <3>2, <3>3
    <3>5. Append(before, s[n]) = Front(n)
      <4>1. Append(before, s[n]) \in Seq(Block) /\ Len(Append(before, s[n])) = n
        BY <2>2, <3>1, <3>3
      <4>2. \A i \in 1..n : Append(before, s[n])[i] = s[i]
        <5> SUFFICES ASSUME NEW i \in 1..n PROVE Append(before, s[n])[i] = s[i]
          OBVIOUS
        <5>1. CASE i = n
          BY <2>2, <3>1, <3>3, <5>1
        <5>2. CASE i < n
          <6>1. i \in 1..(n - 1) /\ Len(before) = n - 1
            BY <2>0, <3>0, <5>2
          <6>2. Append(before, s[n])[i] = before[i]
            BY <2>2, <6>1
          <6> QED BY <3>1, <6>1, <6>2
        <5>3. i = n \/ i < n
          BY <2>0
        <5> QED BY <5>1, <5>2, <5>3
      <4>3. Append(before, s[n]) = [i \in 1..n |-> Append(before, s[n])[i]]
        BY <4>1
      <4> QED BY <3>1, <4>2, <4>3
    <3> QED BY <2>1, <3>4, <3>5
  <2>4. CASE n > m
    <3>1. Least(n - 1) = m /\ Least(n) = m
      BY <1>3, <2>4
    <3>2. Node(before) = NULL
      <4>1. CASE m = 0
        <5>1. before = <<>>
          BY <2>2, <3>1, <4>1
        <5>2. first = NULL
          BY <1>2, <4>1 DEF Linked, NodeAt
        <5> QED BY <5>1, <5>2
      <4>2. CASE m # 0
        <5>1. before # <<>> /\ before[Len(before)] = s[m]
          BY <1>3, <2>1, <2>2, <3>1, <4>2
        <5>2. words[s[m]][next] = NULL
          <6>1. m \in 1..m /\ m = Len(s)
            BY <1>3, <4>2
          <6> QED BY <1>2, <6>1 DEF Linked, NodeAt
        <5> QED BY <5>1, <5>2
      <4> QED BY <4>1, <4>2
    <3>3. More(before) = before
      BY <3>2, NoBlock
    <3> QED BY <2>1, <3>1, <3>3
  <2>5. n <= m \/ n > m
    BY <1>3
  <2> QED BY <2>3, <2>4, <2>5
<1>6. Front(0) = <<>>
  BY <1>3
<1> HIDE DEF Front, More
<1>7. U = Step(U)
  <2>1. \A n \in 0..blocksAmount : Front(n) = IF n = 0 THEN <<>> ELSE More(U[n - 1])
    <3>1. \A n \in 1..blocksAmount : U[n - 1] = Front(n - 1)
      BY <1>3
    <3>2. \A n \in 1..blocksAmount : Front(n) = More(U[n - 1])
      BY <1>5, <3>1
    <3> HIDE DEF U
    <3>3. \A n \in 0..blocksAmount : n = 0 \/ n \in 1..blocksAmount
      BY <1>3
    <3> QED BY <1>6, <3>2, <3>3
  <2> QED BY <2>1
<1>8. upTo = Step(upTo)
  <2> HIDE DEF Step, U
  <2> QED BY <1>7
<1> HIDE DEF upTo, U
<1>9. upTo[0] = <<>> /\ \A n \in 1..blocksAmount : upTo[n] = More(upTo[n - 1])
  <2>1. \A n \in 0..blocksAmount : upTo[n] = IF n = 0 THEN <<>> ELSE More(upTo[n - 1])
    BY <1>8
  <2> QED BY <1>3, <2>1
<1> DEFINE S == {n \in 0..blocksAmount : upTo[n] = Front(n)}
<1>10. 0..blocksAmount \subseteq S
  <2>1. 0 \in S
    BY <1>3, <1>6, <1>9
  <2>2. \A n \in 1..blocksAmount : n - 1 \in S => n \in S
    BY <1>3, <1>5, <1>9
  <2> HIDE DEF S
  <2> QED BY <1>3, <2>1, <2>2, UpTo
<1>11. upTo[blocksAmount] = Front(blocksAmount)
  BY <1>3, <1>10
<1>12. Front(blocksAmount) = s
  BY <1>3 DEF Front
<1> QED BY <1>1, <1>11, <1>12

(***************************************************************************)
(* What allocate returns.                                                  *)
(***************************************************************************)
LEMMA AllocatedExists ==
  ASSUME NEW used, NEW n \in Nat \ {0}
  PROVE  \E b \in Block \cup {NULL} : Allocated(used, n, b)
<1>1. CASE NoFit(used, n)
  BY <1>1 DEF Allocated
<1>2. CASE ~NoFit(used, n)
  <2> DEFINE S == {k \in Candidates(n) : Available(used, k, n)}
  <2>1. S \in SUBSET Nat /\ S # {}
    BY <1>2 DEF NoFit, Candidates
  <2>2. PICK b \in S : \A k \in S : b <= k
    <3> HIDE DEF S
    <3> QED BY <2>1, LeastNumber
  <2>3. FirstFit(used, n, b)
    BY <2>2, BlocksAssumption DEF FirstFit, Candidates
  <2>4. b \in Block /\ b # NULL
    BY <2>2, BlocksAssumption DEF Candidates, Block, NULL
  <2> QED BY <2>3, <2>4 DEF Allocated
<1> QED BY <1>1, <1>2

\* One after the other, each the first run that fits.
Taken(sizes, got, k) == UNION {Run(got[j], sizes[j]) : j \in 1..k}

Grants(used, sizes, got) ==
  /\ got \in Seq(Block \cup {NULL}) /\ Len(got) = Len(sizes)
  /\ \A k \in 1..Len(sizes) :
       Allocated(used \cup Taken(sizes, got, k - 1), sizes[k], got[k])

LEMMA AllocateIs ==
  ASSUME NEW sizes \in Seq(Nat \ {0})
  PROVE  Grants(usedMap, sizes, allocate(sizes))
<1> DEFINE FirstRun(used, n) == CHOOSE b \in Block \cup {NULL} : Allocated(used, n, b)
           More(k, before) ==
             Append(before, FirstRun(usedMap \cup
               UNION {Run(before[j], sizes[j]) : j \in DOMAIN before}, sizes[k]))
           Step(n, f) == [k \in 0..n |-> IF k = 0 THEN <<>> ELSE More(k, f[k - 1])]
<1>1. PICK N : N = Len(sizes) /\ N \in Nat
  OBVIOUS
<1> DEFINE got == CHOOSE f : f = Step(N, f)
<1>2. allocate(sizes) = got[N]
  BY <1>1 DEF allocate
<1> DEFINE Good(k, f) ==
             /\ f \in Seq(Block \cup {NULL}) /\ Len(f) = k
             /\ \A i \in 1..k : Allocated(usedMap \cup Taken(sizes, f, i - 1), sizes[i], f[i])
<1>3. ASSUME NEW k \in 1..N, NEW f, Good(k - 1, f)
      PROVE  Good(k, More(k, f))
  <2>1. PICK used : used = usedMap \cup UNION {Run(f[j], sizes[j]) : j \in DOMAIN f}
    OBVIOUS
  <2>2. PICK b : b = FirstRun(used, sizes[k])
    OBVIOUS
  <2>3. sizes[k] \in Nat \ {0} /\ k \in Nat /\ k >= 1
    BY <1>1
  <2>4. b \in Block \cup {NULL} /\ Allocated(used, sizes[k], b)
    BY <2>2, <2>3, AllocatedExists
  <2>5. PICK h : h = More(k, f) /\ h = Append(f, b)
    BY <2>1, <2>2
  <2>6. f \in Seq(Block \cup {NULL}) /\ Len(f) = k - 1
    BY <1>3
  <2>7. /\ h \in Seq(Block \cup {NULL}) /\ Len(h) = k
        /\ h[k] = b /\ \A i \in 1..(k - 1) : h[i] = f[i]
    <3>1. PICK V : V = Block \cup {NULL}
      OBVIOUS
    <3>2. f \in Seq(V) /\ b \in V
      BY <2>4, <2>6, <3>1
    <3>3. h \in Seq(V) /\ Len(h) = k - 1 + 1 /\ h[k - 1 + 1] = b
      <4>1. /\ Append(f, b) \in Seq(V) /\ Len(Append(f, b)) = Len(f) + 1
            /\ Append(f, b)[Len(f) + 1] = b
        BY <3>2
      <4>2. h = Append(f, b)
        BY <2>5
      <4> QED BY <2>6, <4>1, <4>2
    <3>4. \A i \in 1..(k - 1) : h[i] = f[i]
      <4>1. \A i \in 1..Len(f) : Append(f, b)[i] = f[i]
        BY <3>2
      <4> QED BY <2>5, <2>6, <4>1
    <3> QED BY <2>3, <3>1, <3>3, <3>4
  <2>9. \A i \in 1..k : Taken(sizes, h, i - 1) = Taken(sizes, f, i - 1)
    <3> SUFFICES ASSUME NEW i \in 1..k
                 PROVE  Taken(sizes, h, i - 1) = Taken(sizes, f, i - 1)
      OBVIOUS
    <3>1. \A j \in 1..(i - 1) : j \in 1..(k - 1)
      BY <2>3
    <3>2. \A j \in 1..(i - 1) : Run(h[j], sizes[j]) = Run(f[j], sizes[j])
      BY <2>7, <3>1
    <3> QED BY <3>2 DEF Taken
  <2>10. used = usedMap \cup Taken(sizes, f, k - 1)
    <3>1. DOMAIN f = 1..(k - 1)
      BY <2>6
    <3> QED BY <2>1, <3>1 DEF Taken
  <2>11. \A i \in 1..k : Allocated(usedMap \cup Taken(sizes, h, i - 1), sizes[i], h[i])
    <3> SUFFICES ASSUME NEW i \in 1..k
                 PROVE  Allocated(usedMap \cup Taken(sizes, h, i - 1), sizes[i], h[i])
      OBVIOUS
    <3>1. CASE i = k
      BY <2>4, <2>7, <2>9, <2>10, <3>1
    <3>2. CASE i # k
      <4>1. i \in 1..(k - 1)
        BY <2>3, <3>2
      <4>2. Allocated(usedMap \cup Taken(sizes, f, i - 1), sizes[i], f[i])
        BY <1>3, <4>1
      <4> QED BY <2>7, <2>9, <4>1, <4>2
    <3> QED BY <3>1, <3>2
  <2> HIDE DEF More
  <2> QED BY <2>5, <2>7, <2>11
<1> HIDE DEF More
<1>4. \E f : f = Step(N, f)
  <2> DEFINE S == {n \in 0..N : \E f : f = Step(n, f)}
  <2>1. 0 \in S
    <3>1. PICK f : f = [k \in 0..0 |-> <<>>]
      OBVIOUS
    <3>2. f = Step(0, f)
      BY <3>1
    <3> QED BY <1>1, <3>2
  <2>2. ASSUME NEW n \in 1..N, n - 1 \in S
        PROVE  n \in S
    <3>1. PICK f : f = Step(n - 1, f)
      BY <2>2
    <3>2. n \in Nat /\ n >= 1
      BY <1>1
    <3> DEFINE g == [k \in 0..n |-> IF k = n THEN More(n, f[n - 1]) ELSE f[k]]
    <3>3. \A k \in 0..(n - 1) : f[k] = IF k = 0 THEN <<>> ELSE More(k, f[k - 1])
      BY <3>1
    <3>4. \A k \in 0..n : g[k] = IF k = 0 THEN <<>> ELSE More(k, g[k - 1])
      <4> SUFFICES ASSUME NEW k \in 0..n PROVE g[k] = IF k = 0 THEN <<>> ELSE More(k, g[k - 1])
        OBVIOUS
      <4>1. CASE k = n
        <5>1. g[n] = More(n, f[n - 1]) /\ g[n - 1] = f[n - 1]
          BY <3>2
        <5> HIDE DEF g
        <5> QED BY <3>2, <4>1, <5>1
      <4>2. CASE k # n
        <5>1. k \in 0..(n - 1) /\ (k # 0 => k - 1 \in 0..n /\ k - 1 # n)
          BY <3>2, <4>2
        <5>2. g[k] = f[k] /\ (k # 0 => g[k - 1] = f[k - 1])
          BY <4>2, <5>1
        <5> HIDE DEF g
        <5> QED BY <3>3, <5>1, <5>2
      <4> QED BY <4>1, <4>2
    <3>5. g = [k \in 0..n |-> g[k]]
      OBVIOUS
    <3> HIDE DEF g
    <3>6. g = Step(n, g)
      BY <3>4, <3>5
    <3>7. n \in 0..N
      BY <3>2
    <3> QED BY <3>6, <3>7
  <2>3. N \in 0..N
    BY <1>1
  <2> HIDE DEF S
  <2>4. 0..N \subseteq S
    BY <1>1, <2>1, <2>2, UpTo
  <2> QED BY <2>3, <2>4 DEF S
<1>5. got = Step(N, got)
  <2> HIDE DEF Step
  <2> QED BY <1>4
<1> HIDE DEF got
<1>6. got[0] = <<>> /\ \A k \in 1..N : got[k] = More(k, got[k - 1])
  <2>1. \A k \in 0..N : got[k] = IF k = 0 THEN <<>> ELSE More(k, got[k - 1])
    BY <1>5
  <2>2. 0 \in 0..N /\ \A k \in 1..N : k \in 0..N /\ k # 0
    BY <1>1
  <2> QED BY <2>1, <2>2
<1> DEFINE G == {k \in 0..N : Good(k, got[k])}
<1>7. 0 \in G
  <2>1. <<>> \in Seq(Block \cup {NULL}) /\ Len(<<>>) = 0 /\ 1..0 = {} /\ 0 \in 0..N
    BY <1>1
  <2> QED BY <1>6, <2>1
<1>8. ASSUME NEW k \in 1..N, k - 1 \in G
      PROVE  k \in G
  <2> HIDE DEF Good
  <2>1. Good(k, More(k, got[k - 1]))
    BY <1>3, <1>8
  <2>2. k \in 0..N
    BY <1>1
  <2> QED BY <1>6, <2>1, <2>2
<1>9. N \in G
  <2> HIDE DEF G
  <2>1. 0..N \subseteq G
    BY <1>1, <1>7, <1>8, UpTo
  <2> QED BY <1>1, <2>1
<1> QED BY <1>1, <1>2, <1>9 DEF Grants

\* The runs lie apart from each other and from what was in use.
LEMMA FreshRuns ==
  ASSUME NEW used \in SUBSET Block, NEW sizes \in Seq(Nat \ {0}), NEW got,
         Grants(used, sizes, got), NULL \notin Range(got)
  PROVE  \A k \in 1..Len(sizes) :
           /\ got[k] \in Block
           /\ FirstFit(used \cup Taken(sizes, got, k - 1), sizes[k], got[k])
           /\ Run(got[k], sizes[k]) \subseteq Block \ used
           /\ \A j \in 1..Len(sizes) :
                j # k => Run(got[j], sizes[j]) \cap Run(got[k], sizes[k]) = {}
<1>1. \A k \in 1..Len(sizes) :
        /\ got[k] \in Block
        /\ FirstFit(used \cup Taken(sizes, got, k - 1), sizes[k], got[k])
  <2>1. \A k \in 1..Len(sizes) : got[k] \in Block \cup {NULL} /\ k \in DOMAIN got
    BY DEF Grants
  <2>2. \A k \in 1..Len(sizes) : got[k] # NULL
    BY <2>1 DEF Range
  <2> QED BY <2>1, <2>2 DEF Grants, Allocated
<1>2. ASSUME NEW k \in 1..Len(sizes)
      PROVE  /\ Run(got[k], sizes[k]) \subseteq Block \ used
             /\ \A j \in 1..(k - 1) : Run(got[j], sizes[j]) \cap Run(got[k], sizes[k]) = {}
  <2>1. Run(got[k], sizes[k]) \cap (used \cup Taken(sizes, got, k - 1)) = {}
    BY <1>1 DEF FirstFit, Available
  <2>2. Run(got[k], sizes[k]) \subseteq Block
    <3>1. sizes[k] \in Nat /\ got[k] \in 0..(blocksAmount - sizes[k])
      <4>1. sizes[k] \in Nat
        OBVIOUS
      <4> QED BY <1>1, <4>1 DEF FirstFit, Candidates
    <3> QED BY <3>1, BlocksAssumption DEF Run, Block
  <2>3. \A j \in 1..(k - 1) : Run(got[j], sizes[j]) \subseteq Taken(sizes, got, k - 1)
    BY DEF Taken
  <2> QED BY <2>1, <2>2, <2>3
<1>3. \A j, k \in 1..Len(sizes) : j < k => j \in 1..(k - 1)
  OBVIOUS
<1>4. ASSUME NEW k \in 1..Len(sizes), NEW j \in 1..Len(sizes), j # k
      PROVE  Run(got[j], sizes[j]) \cap Run(got[k], sizes[k]) = {}
  <2>1. j < k \/ k < j
    BY <1>4
  <2> QED BY <1>2, <1>3, <2>1
<1> QED BY <1>1, <1>2, <1>4

LEMMA RunOfOne == \A b \in Int : Run(b, 1) = {b}
BY DEF Run

(***************************************************************************)
(* The pages and who has them.                                             *)
(***************************************************************************)
ProcessRole == {"page", "slot", "name", "library", "thread", "stack"}
ObjectRole == {"object", "waiter"}
Role == {"free", "leaked"} \cup ProcessRole \cup ObjectRole

Words == [Block -> [0..4 -> Int]]

ProcessRecord ==
  [page : Block, slot : Block, name : Block,
   threadSize : Int, currentPThread : Nat \ {0}, tkilled : Nat]

LEMMA OwnFields ==
  ASSUME NEW own \in ProcessRecord
  PROVE  /\ own.page \in Block /\ own.slot \in Block /\ own.name \in Block
         /\ own.threadSize \in Int /\ own.currentPThread \in Nat \ {0} /\ own.tkilled \in Nat
BY DEF ProcessRecord

\* A process has three pages of its own, and counts a thread less for each tkill.
HasOwn(procs, role, of, pid) ==
  LET own == procs[pid]
  IN /\ own \in ProcessRecord
     /\ own.threadSize = own.currentPThread - own.tkilled
     /\ role[own.page] = "page" /\ of[own.page] = pid
     /\ role[own.slot] = "slot" /\ of[own.slot] = pid
     /\ role[own.name] = "name" /\ of[own.name] = pid

\* Its threads are a ring of as many nodes as it ever had threads.
HasRing(words, procs, role, of, rings, pid) ==
  LET own == procs[pid]
      ring == rings[pid]
      n == own.currentPThread
  IN /\ ring \in [1..n -> Block]
     /\ words[own.page][threadLibrary] = ring[1] /\ words[own.page][currentThread] # NULL
     /\ \A i \in 1..n : role[ring[i]] = "library" /\ of[ring[i]] = pid
     /\ \A i, j \in 1..n : ring[i] = ring[j] => i = j
     /\ \A i \in 2..n : words[ring[i - 1]][next] = ring[i]
     /\ words[ring[n]][next] = ring[1]

StackAt(words, b) == Run(words[words[b][thread]][baseStack], NUMBER_OF_PAGES)

\* A node of a ring has a thread, and the thread a stack.
HasThread(words, role, of, b) ==
  LET t == words[b][thread]
  IN /\ t \in Block /\ role[t] = "thread" /\ of[t] = b
     /\ StackAt(words, b) \subseteq Block
     /\ \A x \in StackAt(words, b) : role[x] = "stack" /\ of[x] = b

\* A page of a process is one of those.
BelongsToProcess(words, procs, role, of, rings, b) ==
  /\ role[b] = "page" => of[b] \in DOMAIN procs /\ procs[of[b]].page = b
  /\ role[b] = "slot" => of[b] \in DOMAIN procs /\ procs[of[b]].slot = b
  /\ role[b] = "name" => of[b] \in DOMAIN procs /\ procs[of[b]].name = b
  /\ role[b] = "library" =>
       /\ of[b] \in DOMAIN procs
       /\ \E i \in 1..procs[of[b]].currentPThread : rings[of[b]][i] = b
       /\ HasThread(words, role, of, b)
  /\ role[b] = "thread" =>
       of[b] \in Block /\ role[of[b]] = "library" /\ words[of[b]][thread] = b
  /\ role[b] = "stack" =>
       of[b] \in Block /\ role[of[b]] = "library" /\ b \in StackAt(words, of[b])

ProcessLayout(words, procs, role, of, rings) ==
  /\ \A pid \in DOMAIN procs :
       HasOwn(procs, role, of, pid) /\ HasRing(words, procs, role, of, rings, pid)
  /\ \A b \in Block : BelongsToProcess(words, procs, role, of, rings, b)

\* The objects of a kind are a list with growing identifiers.
HasList(words, firsts, counts, ids, role, of, objs, k) ==
  LET s == objs[k]
  IN /\ Linked(words, firsts[k], s)
     /\ \A i \in 1..Len(s) :
          /\ role[s[i]] = "object" /\ of[s[i]] = k
          /\ words[s[i]][thread] \in Nat /\ words[s[i]][thread] < counts[k]
     /\ \A i, j \in 1..Len(s) : i < j => words[s[i]][thread] < words[s[j]][thread]
     /\ DOMAIN ids[k] = {words[s[i]][thread] : i \in 1..Len(s)}

\* Those that wait at an object are a list, too.
HasQueue(words, ids, role, of, queue, b) ==
  /\ Linked(words, words[b][blockedThreadList], queue[b])
  /\ \A i \in 1..Len(queue[b]) : role[queue[b][i]] = "waiter" /\ of[queue[b][i]] = b
  /\ ids[of[b]][words[b][thread]] = Len(queue[b])

BelongsToObject(words, ids, role, of, objs, queue, b) ==
  /\ role[b] = "object" =>
       /\ of[b] \in Kind /\ \E i \in 1..Len(objs[of[b]]) : objs[of[b]][i] = b
       /\ HasQueue(words, ids, role, of, queue, b)
  /\ role[b] = "waiter" =>
       /\ of[b] \in Block /\ role[of[b]] = "object"
       /\ \E i \in 1..Len(queue[of[b]]) : queue[of[b]][i] = b

ObjectLayout(words, firsts, counts, ids, role, of, objs, queue) ==
  /\ \A k \in Kind : HasList(words, firsts, counts, ids, role, of, objs, k)
  /\ \A b \in Block : BelongsToObject(words, ids, role, of, objs, queue, b)

\* Pages on which nothing was left behind.
Clean(words, role) ==
  \A b \in Block :
    /\ role[b] \in {"free", "waiter", "object"} => words[b][currentThread] = NULL
    /\ role[b] \in {"free", "waiter"} => words[b][blockedThreadList] = NULL
    /\ role[b] = "free" => words[b][next] = NULL

\* Pages that were handed out one after the other, a stack behind its thread.
InOrder(words, handed, role) ==
  /\ \E m \in Nat : handed = 0..(m - 1)
  /\ \A b \in Block : role[b] = "library" =>
       words[words[b][thread]][baseStack] = words[b][thread] + 1

Layout(role, of, rings, objs, queue) ==
  /\ role \in [Block -> Role]
  /\ usedMap = {b \in Block : role[b] # "free"}
  /\ leaked = {b \in Block : role[b] = "leaked"}
  /\ ProcessLayout(word, process, role, of, rings)
  /\ ObjectLayout(word, list, counter, waiting, role, of, objs, queue)
  /\ bequeathed = {} => Clean(word, role)
  /\ ~reused => InOrder(word, handedOut, role)

ObjectTypes ==
  /\ word \in Words
  /\ usedMap \in SUBSET Block /\ handedOut \in SUBSET Block /\ usedMap \subseteq handedOut
  /\ process = [pid \in DOMAIN process |-> process[pid]]
  /\ currentPid \in Nat /\ \A pid \in DOMAIN process : pid \in Nat /\ pid < currentPid
  /\ list \in [Kind -> Int] /\ counter \in [Kind -> Nat]
  /\ waiting = [k \in Kind |-> waiting[k]]
  /\ \A k \in Kind : waiting[k] = [id \in DOMAIN waiting[k] |-> waiting[k][id]]
  /\ reused \in BOOLEAN

PagesInv ==
  /\ ObjectTypes
  /\ \E role, of, rings, objs, queue : Layout(role, of, rings, objs, queue)
  /\ FirstUseIsClean

----------------------------------------------------------------------------
\* What the pages of one side look like is untouched by a step of the other.
Untouched(roles, words, words2, role, role2, of, of2) ==
  \A b \in Block : role[b] \in roles \/ role2[b] \in roles =>
    role2[b] = role[b] /\ of2[b] = of[b] /\ words2[b] = words[b]

LEMMA ProcessFrame ==
  ASSUME NEW words, NEW words2, NEW procs, NEW role, NEW role2, NEW of, NEW of2, NEW rings,
         Untouched(ProcessRole, words, words2, role, role2, of, of2),
         ProcessLayout(words, procs, role, of, rings)
  PROVE  ProcessLayout(words2, procs, role2, of2, rings)
<1>1. ASSUME NEW pid \in DOMAIN procs
      PROVE  HasOwn(procs, role2, of2, pid) /\ HasRing(words2, procs, role2, of2, rings, pid)
  <2>1. HasOwn(procs, role, of, pid) /\ HasRing(words, procs, role, of, rings, pid)
    BY DEF ProcessLayout
  <2>2. HasOwn(procs, role2, of2, pid)
    <3>1. procs[pid].page \in Block /\ procs[pid].slot \in Block /\ procs[pid].name \in Block
      BY <2>1, OwnFields DEF HasOwn
    <3> QED BY <2>1, <3>1 DEF HasOwn, Untouched, ProcessRole
  <2>3. PICK ring : ring = rings[pid]
    OBVIOUS
  <2>4. PICK own : own = procs[pid]
    OBVIOUS
  <2>5. own.page \in Block /\ words2[own.page] = words[own.page] /\ own.currentPThread \in Nat \ {0}
    BY <2>1, <2>4, OwnFields DEF HasOwn, Untouched, ProcessRole
  <2>6. \A i \in 1..own.currentPThread :
          ring[i] \in Block /\ role2[ring[i]] = "library" /\ of2[ring[i]] = pid
          /\ words2[ring[i]] = words[ring[i]]
    BY <2>1, <2>3, <2>4 DEF HasRing, Untouched, ProcessRole
  <2>7. \A i \in 2..own.currentPThread : i - 1 \in 1..own.currentPThread
    BY <2>5
  <2>8. own.currentPThread \in 1..own.currentPThread
    BY <2>5
  <2>9. HasRing(words2, procs, role2, of2, rings, pid)
    BY <2>1, <2>3, <2>4, <2>5, <2>6, <2>7, <2>8 DEF HasRing
  <2> QED BY <2>2, <2>9
<1>2. ASSUME NEW b \in Block
      PROVE  BelongsToProcess(words2, procs, role2, of2, rings, b)
  <2>1. \A x \in Block : BelongsToProcess(words, procs, role, of, rings, x)
    BY DEF ProcessLayout
  <2>2. BelongsToProcess(words, procs, role, of, rings, b)
    BY <2>1
  <2>3. \A x \in Block : role[x] = "library" => StackAt(words2, x) = StackAt(words, x)
    BY <2>1 DEF BelongsToProcess, HasThread, StackAt, Untouched, ProcessRole
  <2>4. role2[b] = "library" => HasThread(words2, role2, of2, b)
    BY <2>2, <2>3 DEF BelongsToProcess, HasThread, Untouched, ProcessRole
  <2> QED BY <2>2, <2>3, <2>4 DEF BelongsToProcess, Untouched, ProcessRole
<1> QED BY <1>1, <1>2 DEF ProcessLayout

LEMMA LinkedFrame ==
  ASSUME NEW words, NEW words2, NEW first, NEW s, Linked(words, first, s),
         \A i \in 1..Len(s) : words2[s[i]][next] = words[s[i]][next]
  PROVE  Linked(words2, first, s)
BY DEF Linked

LEMMA ObjectFrame ==
  ASSUME NEW words, NEW words2, NEW firsts, NEW counts, NEW ids, NEW role, NEW role2,
         NEW of, NEW of2, NEW objs, NEW queue,
         Untouched(ObjectRole, words, words2, role, role2, of, of2),
         ObjectLayout(words, firsts, counts, ids, role, of, objs, queue)
  PROVE  ObjectLayout(words2, firsts, counts, ids, role2, of2, objs, queue)
<1>1. ASSUME NEW k \in Kind
      PROVE  HasList(words2, firsts, counts, ids, role2, of2, objs, k)
  <2>1. HasList(words, firsts, counts, ids, role, of, objs, k)
    BY DEF ObjectLayout
  <2>2. \A i \in 1..Len(objs[k]) :
          /\ objs[k][i] \in Block
          /\ role2[objs[k][i]] = "object" /\ of2[objs[k][i]] = k
          /\ words2[objs[k][i]] = words[objs[k][i]]
    <3>1. \A i \in 1..Len(objs[k]) :
            objs[k][i] \in Block /\ role[objs[k][i]] = "object" /\ of[objs[k][i]] = k
      BY <2>1 DEF HasList, Linked
    <3> QED BY <3>1 DEF Untouched, ObjectRole
  <2>3. Linked(words2, firsts[k], objs[k])
    BY <2>1, <2>2, LinkedFrame DEF HasList
  <2>4. {words2[objs[k][i]][thread] : i \in 1..Len(objs[k])} =
        {words[objs[k][i]][thread] : i \in 1..Len(objs[k])}
    BY <2>2
  <2> QED BY <2>1, <2>2, <2>3, <2>4 DEF HasList
<1>2. ASSUME NEW b \in Block
      PROVE  BelongsToObject(words2, ids, role2, of2, objs, queue, b)
  <2>1. \A x \in Block : BelongsToObject(words, ids, role, of, objs, queue, x)
    BY DEF ObjectLayout
  <2>2. role2[b] = "object" => HasQueue(words2, ids, role2, of2, queue, b)
    <3> SUFFICES ASSUME role2[b] = "object" PROVE HasQueue(words2, ids, role2, of2, queue, b)
      OBVIOUS
    <3>1. HasQueue(words, ids, role, of, queue, b) /\ words2[b] = words[b] /\ of2[b] = of[b]
      BY <2>1 DEF BelongsToObject, Untouched, ObjectRole
    <3>2. \A i \in 1..Len(queue[b]) :
            /\ role2[queue[b][i]] = "waiter" /\ of2[queue[b][i]] = b
            /\ words2[queue[b][i]] = words[queue[b][i]]
      BY <3>1 DEF HasQueue, Linked, Untouched, ObjectRole
    <3>3. Linked(words2, words2[b][blockedThreadList], queue[b])
      BY <3>1, <3>2, LinkedFrame DEF HasQueue
    <3> QED BY <3>1, <3>2, <3>3 DEF HasQueue
  <2> QED BY <2>1, <2>2 DEF BelongsToObject, Untouched, ObjectRole
<1> QED BY <1>1, <1>2 DEF ObjectLayout

LEMMA InitPages == Init => PagesInv
<1> SUFFICES ASSUME Init PROVE PagesInv
  OBVIOUS
<1>1. ObjectTypes
  <2>1. Zeroed \in [0..4 -> Int]
    BY DEF Zeroed, NULL
  <2>2. word \in Words
    BY <2>1 DEF Init, Words
  <2>3. DOMAIN process = {} /\ process = [pid \in DOMAIN process |-> process[pid]]
    BY DEF Init
  <2>4. waiting = [k \in Kind |-> waiting[k]]
    BY DEF Init
  <2>5. \A k \in Kind : waiting[k] = [id \in DOMAIN waiting[k] |-> waiting[k][id]]
    BY DEF Init
  <2>6. list \in [Kind -> Int] /\ counter \in [Kind -> Nat]
    BY DEF Init, NULL
  <2>7. usedMap \in SUBSET Block /\ handedOut \in SUBSET Block /\ usedMap \subseteq handedOut
    BY DEF Init
  <2>8. currentPid \in Nat /\ reused \in BOOLEAN
    BY DEF Init
  <2> QED BY <2>2, <2>3, <2>4, <2>5, <2>6, <2>7, <2>8 DEF ObjectTypes
<1>2. PICK role : role = [b \in Block |-> "free"]
  OBVIOUS
<1>3. PICK none : none = [b \in Block |-> <<>>]
  OBVIOUS
<1>4. PICK objs : objs = [k \in Kind |-> <<>>]
  OBVIOUS
<1>5. ProcessLayout(word, process, role, none, none)
  <2>1. DOMAIN process = {}
    BY DEF Init
  <2> QED BY <1>2, <2>1 DEF ProcessLayout, BelongsToProcess
<1>6. ObjectLayout(word, list, counter, waiting, role, none, objs, none)
  <2>1. ASSUME NEW k \in Kind PROVE HasList(word, list, counter, waiting, role, none, objs, k)
    <3>1. objs[k] = <<>> /\ <<>> \in Seq(Block) /\ Len(<<>>) = 0 /\ list[k] = NULL
      BY <1>4 DEF Init
    <3>2. Linked(word, list[k], objs[k])
      BY <3>1 DEF Linked, NodeAt
    <3>3. DOMAIN waiting[k] = {}
      BY DEF Init
    <3> QED BY <3>1, <3>2, <3>3 DEF HasList
  <2> QED BY <1>2, <2>1 DEF ObjectLayout, BelongsToObject
<1>7. Clean(word, role)
  BY <1>2 DEF Clean, Init, Zeroed, currentThread, blockedThreadList, next
<1>8. InOrder(word, handedOut, role)
  <2>1. handedOut = 0..(0 - 1) /\ 0 \in Nat
    BY DEF Init
  <2> QED BY <1>2, <2>1 DEF InOrder
<1>9. Layout(role, none, none, objs, none)
  BY <1>2, <1>5, <1>6, <1>7, <1>8 DEF Layout, Init, Role
<1>10. \E role2, of, rings, objs2, queue : Layout(role2, of, rings, objs2, queue)
  BY <1>9
<1> QED BY <1>1, <1>10 DEF PagesInv, FirstUseIsClean, Init

----------------------------------------------------------------------------
\* One word of one page is written.
Written(words, words2, a, f, v) ==
  /\ words2 \in Words
  /\ words2[a][f] = v
  /\ \A g \in 0..4 : g # f => words2[a][g] = words[a][g]
  /\ \A x \in Block : x # a => words2[x] = words[x]

Put(words, a, f, v) == [words EXCEPT ![a][f] = v]

LEMMA Cell ==
  ASSUME NEW words \in Words, NEW a \in Block, NEW f \in 0..4, NEW v \in Int
  PROVE  Written(words, Put(words, a, f, v), a, f, v)
BY DEF Words, Put, Written

LEMMA Fields ==
  /\ thread \in 0..4 /\ next \in 0..4 /\ baseStack \in 0..4 /\ blockedThreadList \in 0..4
  /\ threadLibrary \in 0..4 /\ currentThread \in 0..4
  /\ JUNK \in Int /\ NULL \in Int /\ JUNK # NULL
  /\ Block \subseteq Int
BY DEF thread, next, baseStack, blockedThreadList, threadLibrary, currentThread, JUNK, NULL, Block

\* The words that change when thread t and its node are made.
Made(words, t, library, stack) ==
  [words EXCEPT ![t][baseStack] = stack, ![t][next] = JUNK, ![t][thread] = JUNK,
                ![library][thread] = t]

IsMade(words, made, t, library, stack) ==
  /\ made \in Words
  /\ made[t][baseStack] = stack /\ made[library][thread] = t
  /\ \A x \in Block : x # t /\ x # library => made[x] = words[x]

LEMMA MadeThread ==
  ASSUME NEW words \in Words, NEW t \in Block, NEW library \in Block, NEW stack \in Int,
         t # library, NEW made, made = Made(words, t, library, stack)
  PROVE  IsMade(words, made, t, library, stack)
<1> USE Fields
<1>1. PICK m1 : m1 = Put(words, t, baseStack, stack)
  OBVIOUS
<1>2. PICK m2 : m2 = Put(m1, t, next, JUNK)
  OBVIOUS
<1>3. PICK m3 : m3 = Put(m2, t, thread, JUNK)
  OBVIOUS
<1>4. made = Put(m3, library, thread, t)
  BY <1>1, <1>2, <1>3 DEF Put, Made
<1>5. Written(words, m1, t, baseStack, stack)
  BY <1>1, Cell
<1>6. Written(m1, m2, t, next, JUNK)
  <2>1. m1 \in Words
    BY <1>5 DEF Written
  <2> QED BY <1>2, <2>1, Cell
<1>7. Written(m2, m3, t, thread, JUNK)
  <2>1. m2 \in Words
    BY <1>6 DEF Written
  <2> QED BY <1>3, <2>1, Cell
<1>8. Written(m3, made, library, thread, t)
  <2>1. m3 \in Words
    BY <1>7 DEF Written
  <2> QED BY <1>4, <2>1, Cell
<1> QED BY <1>5, <1>6, <1>7, <1>8 DEF Written, IsMade, baseStack, next, thread

LEMMA WithFirstThread ==
  ASSUME NEW words \in Words, NEW page \in Block, NEW t \in Block, NEW library \in Block,
         NEW stack \in Int, page # t, page # library, t # library,
         words[page][currentThread] = NULL,
         NEW words2, words2 = withThread(words, page, t, stack, library)
  PROVE  /\ words2 \in Words
         /\ words2[t][baseStack] = stack
         /\ words2[library][thread] = t /\ words2[library][next] = library
         /\ words2[page][threadLibrary] = library /\ words2[page][currentThread] = library
         /\ \A x \in Block \ {page, t, library} : words2[x] = words[x]
<1> USE Fields
<1>1. PICK made : made = Made(words, t, library, stack)
  OBVIOUS
<1>2. /\ made \in Words
      /\ made[t][baseStack] = stack /\ made[library][thread] = t
      /\ \A x \in Block : x # t /\ x # library => made[x] = words[x]
  <2>1. IsMade(words, made, t, library, stack)
    BY <1>1, MadeThread
  <2> QED BY <2>1 DEF IsMade
<1>3. PICK m1 : m1 = Put(made, library, next, library)
  OBVIOUS
<1>4. PICK m2 : m2 = Put(m1, page, threadLibrary, library)
  OBVIOUS
<1>5. words2 = Put(m2, page, currentThread, library)
  BY <1>1, <1>3, <1>4 DEF withThread, Put, Made
<1>6. Written(made, m1, library, next, library)
  BY <1>2, <1>3, Cell
<1>7. Written(m1, m2, page, threadLibrary, library)
  <2>1. m1 \in Words
    BY <1>6 DEF Written
  <2> QED BY <1>4, <2>1, Cell
<1>8. Written(m2, words2, page, currentThread, library)
  <2>1. m2 \in Words
    BY <1>7 DEF Written
  <2> QED BY <1>5, <2>1, Cell
<1>9. words2 \in Words
  BY <1>8 DEF Written
<1>10. words2[t][baseStack] = stack
  BY <1>2, <1>6, <1>7, <1>8 DEF Written
<1>11. words2[library][thread] = t /\ words2[library][next] = library
  BY <1>2, <1>6, <1>7, <1>8 DEF Written, thread, next
<1>12. words2[page][threadLibrary] = library /\ words2[page][currentThread] = library
  BY <1>7, <1>8 DEF Written, threadLibrary, currentThread
<1>13. \A x \in Block \ {page, t, library} : words2[x] = words[x]
  BY <1>2, <1>6, <1>7, <1>8 DEF Written
<1> QED BY <1>9, <1>10, <1>11, <1>12, <1>13

MoreThread(words, words2, t, stack, library, head) ==
  /\ words2 \in Words
  /\ words2[t][baseStack] = stack
  /\ words2[library][thread] = t /\ words2[library][next] = words[head][next]
  /\ words2[head][next] = library
  /\ \A f \in 0..4 : f # next => words2[head][f] = words[head][f]
  /\ \A x \in Block \ {head, t, library} : words2[x] = words[x]

LEMMA WithMoreThread ==
  ASSUME NEW words \in Words, NEW page \in Block, NEW t \in Block, NEW library \in Block,
         NEW stack \in Int, t # library,
         words[page][currentThread] # NULL,
         NEW head \in Block, head = words[page][threadLibrary], head # t, head # library,
         NEW words2, words2 = withThread(words, page, t, stack, library)
  PROVE  MoreThread(words, words2, t, stack, library, head)
<1> USE Fields
<1>1. PICK made : made = Made(words, t, library, stack)
  OBVIOUS
<1>2. /\ made \in Words
      /\ made[t][baseStack] = stack /\ made[library][thread] = t
      /\ \A x \in Block : x # t /\ x # library => made[x] = words[x]
  <2>1. IsMade(words, made, t, library, stack)
    BY <1>1, MadeThread
  <2> QED BY <2>1 DEF IsMade
<1>3. PICK m1 : m1 = Put(made, library, next, words[head][next])
  OBVIOUS
<1>4. words2 = Put(m1, head, next, library)
  BY <1>1, <1>3 DEF withThread, Put, Made
<1>5. words[head][next] \in Int
  BY DEF Words
<1>6. Written(made, m1, library, next, words[head][next])
  BY <1>2, <1>3, <1>5, Cell
<1>7. Written(m1, words2, head, next, library)
  <2>1. m1 \in Words
    BY <1>6 DEF Written
  <2> QED BY <1>4, <2>1, Cell
<1>8. words2 \in Words /\ words2[head][next] = library
  BY <1>7 DEF Written
<1>9. words2[t][baseStack] = stack
  BY <1>2, <1>6, <1>7 DEF Written
<1>10. words2[library][next] = words[head][next]
  BY <1>6, <1>7 DEF Written
<1>11. words2[library][thread] = t
  <2>1. words2[library] = m1[library]
    BY <1>7 DEF Written
  <2>2. thread \in 0..4 /\ thread # next
    BY DEF thread, next
  <2>3. m1[library][thread] = made[library][thread]
    BY <1>6, <2>2 DEF Written
  <2> QED BY <1>2, <2>1, <2>3
<1>12. \A f \in 0..4 : f # next => words2[head][f] = words[head][f]
  <2>1. \A f \in 0..4 : f # next => words2[head][f] = m1[head][f]
    BY <1>7 DEF Written
  <2>2. m1[head] = made[head]
    BY <1>6 DEF Written
  <2>3. made[head] = words[head]
    BY <1>2
  <2> QED BY <2>1, <2>2, <2>3
<1>13. \A x \in Block \ {head, t, library} : words2[x] = words[x]
  BY <1>2, <1>6, <1>7 DEF Written
<1> QED BY <1>8, <1>9, <1>10, <1>11, <1>12, <1>13 DEF MoreThread

(***************************************************************************)
(* Pages that are handed out.                                              *)
(***************************************************************************)
IsSegment(S) == \E m \in Nat : S = 0..(m - 1)

\* Without a page that is used again a run begins where the ones before end.
FitsFresh(m, used, n, b) ==
  /\ m \in Nat /\ used \subseteq 0..(m - 1) /\ n \in Nat \ {0}
  /\ FirstFit(used, n, b) /\ Run(b, n) \cap 0..(m - 1) = {}

LEMMA NextRun ==
  ASSUME NEW m, NEW used, NEW n, NEW b, FitsFresh(m, used, n, b)
  PROVE  b = m /\ 0..(m - 1) \cup Run(b, n) = 0..(m + n - 1)
<1> USE DEF FitsFresh
<1>1. b \in Int /\ 0 <= b /\ b <= blocksAmount - n
  BY BlocksAssumption DEF FirstFit, Candidates
<1>2. b >= m
  <2>1. b \in Run(b, n)
    BY <1>1 DEF Run
  <2> QED BY <1>1, <2>1
<1>3. b <= m
  <2> SUFFICES ASSUME b > m PROVE FALSE
    BY <1>1
  <2>1. m \in Candidates(n)
    BY <1>1, BlocksAssumption DEF Candidates
  <2>2. Available(used, m, n)
    BY DEF Available, Run
  <2> QED BY <2>1, <2>2 DEF FirstFit
<1>4. b = m
  BY <1>1, <1>2, <1>3
<1> QED BY <1>4 DEF Run

\* What a call of allocate leaves.
Reserved(sizes, got, used, used2, handed, handed2, again, again2) ==
  /\ used2 = used \cup Taken(sizes, got, Len(sizes))
  /\ handed2 = handed \cup Taken(sizes, got, Len(sizes))
  /\ Taken(sizes, got, Len(sizes)) \subseteq Block \ used
  /\ \A k \in 1..Len(sizes) :
       /\ got[k] \in Block /\ got[k] \in Run(got[k], sizes[k])
       /\ Run(got[k], sizes[k]) \subseteq Block \ used
       /\ \A j \in 1..Len(sizes) : j # k => Run(got[j], sizes[j]) \cap Run(got[k], sizes[k]) = {}
  /\ again2 \in BOOLEAN
  /\ ~again2 => ~again
  /\ ~again2 /\ IsSegment(handed) =>
       /\ IsSegment(handed2)
       /\ \A k \in 2..Len(sizes) : got[k] = got[k - 1] + sizes[k - 1]

LEMMA ReserveIs ==
  ASSUME NEW sizes \in Seq(Nat \ {0}), NEW got, got = allocate(sizes),
         usedMap \in SUBSET Block, usedMap \subseteq handedOut, reused \in BOOLEAN,
         Reserve(got, sizes)
  PROVE  Reserved(sizes, got, usedMap, usedMap', handedOut, handedOut', reused, reused')
<1>1. PICK n : n = Len(sizes) /\ n \in Nat
  OBVIOUS
<1>2. Grants(usedMap, sizes, got) /\ NULL \notin Range(got)
  BY AllocateIs DEF Reserve
<1>3. PICK new : new = Taken(sizes, got, n)
  OBVIOUS
<1>4. /\ usedMap' = usedMap \cup new /\ handedOut' = handedOut \cup new
      /\ reused' = (reused \/ new \cap handedOut # {})
  <2>1. DOMAIN got = 1..n
    BY <1>1, <1>2 DEF Grants
  <2> QED BY <1>3, <2>1 DEF Reserve, Taken
<1>5. \A k \in 1..n :
        /\ got[k] \in Block
        /\ FirstFit(usedMap \cup Taken(sizes, got, k - 1), sizes[k], got[k])
        /\ Run(got[k], sizes[k]) \subseteq Block \ usedMap
        /\ \A j \in 1..n : j # k => Run(got[j], sizes[j]) \cap Run(got[k], sizes[k]) = {}
  BY <1>1, <1>2, FreshRuns
<1>6. \A k \in 1..n : sizes[k] \in Nat \ {0}
  BY <1>1
<1>7. \A k \in 1..n : got[k] \in Run(got[k], sizes[k])
  <2> SUFFICES ASSUME NEW k \in 1..n PROVE got[k] \in Run(got[k], sizes[k])
    OBVIOUS
  <2>1. PICK b : b = got[k] /\ b \in Int
    BY <1>5, Fields
  <2>2. PICK size : size = sizes[k] /\ size \in Nat \ {0}
    BY <1>6
  <2>3. b \in Run(b, size)
    BY <2>1, <2>2 DEF Run
  <2> QED BY <2>1, <2>2, <2>3
<1>8. new \subseteq Block \ usedMap
  BY <1>3, <1>5 DEF Taken
<1>9. ASSUME ~reused', NEW m \in Nat, handedOut = 0..(m - 1)
      PROVE  /\ IsSegment(handedOut')
             /\ \A k \in 2..n : got[k] = got[k - 1] + sizes[k - 1]
  <2>1. \A k \in 1..n : Run(got[k], sizes[k]) \cap handedOut = {}
    <3>1. new \cap handedOut = {}
      BY <1>4, <1>9
    <3> QED BY <1>3, <3>1 DEF Taken
  <2> DEFINE Covers(k, e) ==
               /\ e \in Nat /\ 0..(e - 1) = handedOut \cup Taken(sizes, got, k)
               /\ k >= 1 => e = got[k] + sizes[k]
               /\ k >= 2 => got[k] = got[k - 1] + sizes[k - 1]
             S == {k \in 0..n : \E e : Covers(k, e)}
  <2>2. 0 \in S
    <3>1. Taken(sizes, got, 0) = {}
      BY DEF Taken
    <3>2. Covers(0, m)
      BY <1>9, <3>1
    <3> HIDE DEF Covers
    <3> QED BY <1>1, <3>2
  <2>3. ASSUME NEW k \in 1..n, k - 1 \in S
        PROVE  k \in S
    <3>0. k \in Nat /\ k >= 1 /\ k \in 0..n
      BY <1>1
    <3>1. PICK e : Covers(k - 1, e)
      BY <2>3
    <3>2. PICK size : size = sizes[k] /\ size \in Nat \ {0}
      BY <1>6
    <3>3. Taken(sizes, got, k) = Taken(sizes, got, k - 1) \cup Run(got[k], size)
      <4>1. 1..k = 1..(k - 1) \cup {k}
        BY <3>0
      <4> QED BY <3>2, <4>1 DEF Taken
    <3>4. Run(got[k], size) \cap 0..(e - 1) = {}
      <4>1. Run(got[k], size) \cap Taken(sizes, got, k - 1) = {}
        <5>1. \A j \in 1..(k - 1) : j \in 1..n /\ j # k
          BY <1>1, <3>0
        <5>2. \A j \in 1..(k - 1) : Run(got[j], sizes[j]) \cap Run(got[k], size) = {}
          BY <1>5, <3>2, <5>1
        <5> QED BY <5>2 DEF Taken
      <4> QED BY <2>1, <3>1, <3>2, <4>1
    <3>5. PICK used : used = usedMap \cup Taken(sizes, got, k - 1)
      OBVIOUS
    <3>6. FirstFit(used, size, got[k]) /\ used \subseteq 0..(e - 1)
      BY <1>5, <3>1, <3>2, <3>5
    <3>7. got[k] = e /\ 0..(e - 1) \cup Run(got[k], size) = 0..(e + size - 1)
      <4>1. e \in Nat
        BY <3>1
      <4> HIDE DEF Covers
      <4>2. FitsFresh(e, used, size, got[k])
        BY <3>2, <3>4, <3>6, <4>1 DEF FitsFresh
      <4> QED BY <4>2, NextRun
    <3>8. PICK e2 : e2 = e + size
      OBVIOUS
    <3>9. Covers(k, e2)
      <4>1. e2 \in Nat /\ e2 = got[k] + sizes[k]
        BY <3>1, <3>2, <3>7, <3>8
      <4>2. 0..(e2 - 1) = handedOut \cup Taken(sizes, got, k)
        <5>1. 0..(e - 1) = handedOut \cup Taken(sizes, got, k - 1)
          BY <3>1
        <5>2. 0..(e2 - 1) = 0..(e - 1) \cup Run(got[k], size)
          <6>1. e2 - 1 = e + size - 1
            <7>1. e \in Nat
              BY <3>1
            <7> HIDE DEF Covers
            <7> QED BY <3>2, <3>8, <7>1
          <6> QED BY <3>7, <6>1, Zenon
        <5> HIDE DEF Covers
        <5> QED BY <3>3, <5>1, <5>2
      <4>3. k >= 2 => got[k] = got[k - 1] + sizes[k - 1]
        BY <3>0, <3>1, <3>7
      <4> QED BY <4>1, <4>2, <4>3
    <3> HIDE DEF Covers
    <3> QED BY <3>0, <3>9
  <2>4. 0..n \subseteq S
    <3> HIDE DEF S
    <3> QED BY <1>1, <2>2, <2>3, UpTo
  <2>5. IsSegment(handedOut')
    <3>1. PICK e : Covers(n, e)
      BY <1>1, <2>4
    <3> QED BY <1>3, <1>4, <3>1 DEF IsSegment
  <2>6. \A k \in 2..n : got[k] = got[k - 1] + sizes[k - 1]
    <3> SUFFICES ASSUME NEW k \in 2..n PROVE got[k] = got[k - 1] + sizes[k - 1]
      OBVIOUS
    <3>1. k \in 0..n /\ k >= 2
      BY <1>1
    <3>2. PICK e : Covers(k, e)
      BY <2>4, <3>1
    <3> QED BY <3>1, <3>2
  <2> QED BY <2>5, <2>6
<1>10. ~reused' /\ IsSegment(handedOut) =>
         /\ IsSegment(handedOut')
         /\ \A k \in 2..n : got[k] = got[k - 1] + sizes[k - 1]
  <2> SUFFICES ASSUME ~reused', IsSegment(handedOut)
               PROVE  /\ IsSegment(handedOut')
                      /\ \A k \in 2..n : got[k] = got[k - 1] + sizes[k - 1]
    OBVIOUS
  <2>1. PICK m \in Nat : handedOut = 0..(m - 1)
    BY DEF IsSegment
  <2> QED BY <1>9, <2>1
<1>11. reused' \in BOOLEAN /\ (~reused' => ~reused)
  BY <1>4
<1> QED
  BY <1>1, <1>3, <1>4, <1>5, <1>7, <1>8, <1>10, <1>11 DEF Reserved

LEMMA OnePage ==
  ASSUME ObjectTypes, NEW got, got = allocate(<< 1 >>), Reserve(got, << 1 >>), NEW b, b = got[1]
  PROVE  /\ b \in Block /\ b \notin usedMap
         /\ usedMap' = usedMap \cup {b} /\ handedOut' = handedOut \cup {b}
         /\ reused' \in BOOLEAN
         /\ ~reused' => ~reused /\ (IsSegment(handedOut) => IsSegment(handedOut'))
<1>1. PICK sizes : sizes = <<1>>
  OBVIOUS
<1>2. sizes \in Seq(Nat \ {0}) /\ Len(sizes) = 1 /\ sizes[1] = 1
  BY <1>1
<1>3. Reserved(sizes, got, usedMap, usedMap', handedOut, handedOut', reused, reused')
  BY <1>1, <1>2, ReserveIs DEF ObjectTypes
<1>4. b \in Block /\ Run(b, 1) \subseteq Block \ usedMap
  BY <1>2, <1>3 DEF Reserved
<1>5. Run(b, 1) = {b}
  BY <1>4, Fields, RunOfOne
<1>6. Taken(sizes, got, 1) = {b}
  <2>1. 1..1 = {1}
    OBVIOUS
  <2> QED BY <1>2, <1>5, <2>1 DEF Taken
<1> QED BY <1>2, <1>3, <1>4, <1>5, <1>6 DEF Reserved

(***************************************************************************)
(* Lists that grow and shrink.                                             *)
(***************************************************************************)
Appended(s, b) == [j \in 1..(Len(s) + 1) |-> IF j <= Len(s) THEN s[j] ELSE b]
Pushed(s, b) == [j \in 1..(Len(s) + 1) |-> IF j = 1 THEN b ELSE s[j - 1]]
Without(s, i) == [j \in 1..(Len(s) - 1) |-> IF j < i THEN s[j] ELSE s[j + 1]]

LEMMA SeqsOfNodes ==
  ASSUME NEW s \in Seq(Block), NEW b \in Block
  PROVE  /\ Appended(s, b) \in Seq(Block) /\ Len(Appended(s, b)) = Len(s) + 1
         /\ Pushed(s, b) \in Seq(Block) /\ Len(Pushed(s, b)) = Len(s) + 1
         /\ \A i \in 1..Len(s) :
              Without(s, i) \in Seq(Block) /\ Len(Without(s, i)) = Len(s) - 1
<1>1. PICK n : n = Len(s) /\ n \in Nat /\ \A i \in 1..n : s[i] \in Block
  OBVIOUS
<1>2. Appended(s, b) \in Seq(Block) /\ Len(Appended(s, b)) = n + 1
  BY <1>1 DEF Appended
<1>3. Pushed(s, b) \in Seq(Block) /\ Len(Pushed(s, b)) = n + 1
  BY <1>1 DEF Pushed
<1>4. ASSUME NEW i \in 1..n
      PROVE  Without(s, i) \in Seq(Block) /\ Len(Without(s, i)) = n - 1
  <2>1. n - 1 \in Nat
    BY <1>1
  <2> QED BY <1>1, <2>1 DEF Without
<1> QED BY <1>1, <1>2, <1>3, <1>4

LEMMA LinkedAppend ==
  ASSUME NEW words, NEW words2, NEW first, NEW first2, NEW s, NEW b \in Block,
         Linked(words, first, s),
         \A i \in 1..Len(s) : s[i] # b,
         \A i \in 1..Len(s) : i < Len(s) => words2[s[i]][next] = words[s[i]][next],
         s # <<>> => first2 = first /\ words2[s[Len(s)]][next] = b,
         s = <<>> => first2 = b,
         words2[b][next] = NULL
  PROVE  Linked(words2, first2, Appended(s, b))
<1>1. PICK n : n = Len(s) /\ n \in Nat /\ \A i \in 1..n : s[i] \in Block
  BY DEF Linked
<1>2. PICK z : z = Appended(s, b)
  OBVIOUS
<1>3. /\ z \in Seq(Block) /\ Len(z) = n + 1
      /\ z[n + 1] = b /\ \A i \in 1..n : z[i] = s[i]
  <2>1. s \in Seq(Block)
    BY DEF Linked
  <2>2. z \in Seq(Block) /\ Len(z) = n + 1
    BY <1>1, <1>2, <2>1, SeqsOfNodes
  <2> QED BY <1>1, <1>2, <2>2 DEF Appended
<1>4. first2 = NodeAt(z, 1)
  <2>1. CASE n = 0
    <3>1. s = <<>>
      <4>1. s \in Seq(Block)
        BY DEF Linked
      <4>2. Len(s) = 0
        BY <1>1, <2>1
      <4> QED BY <4>1, <4>2, EmptySeq
    <3>2. 1 \in 1..Len(z) /\ z[1] = b
      BY <1>3, <2>1
    <3> QED BY <3>1, <3>2 DEF NodeAt
  <2>2. CASE n # 0
    <3>1. s # <<>> /\ 1 \in 1..n /\ 1 \in 1..(n + 1)
      BY <1>1, <2>2
    <3>2. first2 = s[1]
      BY <1>1, <3>1 DEF Linked, NodeAt
    <3> QED BY <1>3, <3>1, <3>2 DEF NodeAt
  <2> QED BY <2>1, <2>2
<1>5. \A i \in 1..(n + 1) : words2[z[i]][next] = NodeAt(z, i + 1)
  <2> SUFFICES ASSUME NEW i \in 1..(n + 1) PROVE words2[z[i]][next] = NodeAt(z, i + 1)
    OBVIOUS
  <2>1. CASE i = n + 1
    <3>1. i + 1 \notin 1..(n + 1)
      BY <1>1, <2>1
    <3> QED BY <1>3, <2>1, <3>1 DEF NodeAt
  <2>2. CASE i = n
    <3>1. s # <<>> /\ n \in 1..n /\ n + 1 \in 1..(n + 1)
      BY <1>1, <2>2
    <3> QED BY <1>1, <1>3, <2>2, <3>1 DEF NodeAt
  <2>3. CASE i < n
    <3>1. i \in 1..n /\ i + 1 \in 1..n /\ i + 1 \in 1..(n + 1)
      BY <1>1, <2>3
    <3>2. words[s[i]][next] = s[i + 1]
      BY <1>1, <3>1 DEF Linked, NodeAt
    <3> QED BY <1>1, <1>3, <2>3, <3>1, <3>2 DEF NodeAt
  <2> QED BY <1>1, <2>1, <2>2, <2>3
<1>6. \A i, j \in 1..(n + 1) : z[i] = z[j] => i = j
  <2>1. \A i \in 1..(n + 1) : i \in 1..n \/ i = n + 1
    BY <1>1
  <2>2. \A i, j \in 1..n : s[i] = s[j] => i = j
    BY <1>1 DEF Linked
  <2> QED BY <1>1, <1>3, <2>1, <2>2
<1> QED BY <1>2, <1>3, <1>4, <1>5, <1>6 DEF Linked

LEMMA LinkedPush ==
  ASSUME NEW words, NEW words2, NEW first, NEW s, NEW b \in Block,
         Linked(words, first, s),
         \A i \in 1..Len(s) : s[i] # b /\ words2[s[i]][next] = words[s[i]][next],
         words2[b][next] = first
  PROVE  Linked(words2, b, Pushed(s, b))
<1>1. PICK n : n = Len(s) /\ n \in Nat /\ \A i \in 1..n : s[i] \in Block
  BY DEF Linked
<1>2. PICK z : z = Pushed(s, b)
  OBVIOUS
<1>3. /\ z \in Seq(Block) /\ Len(z) = n + 1
      /\ z[1] = b /\ \A i \in 1..n : z[i + 1] = s[i]
  <2>1. s \in Seq(Block)
    BY DEF Linked
  <2>2. z \in Seq(Block) /\ Len(z) = n + 1
    BY <1>1, <1>2, <2>1, SeqsOfNodes
  <2>3. \A i \in 1..n : i + 1 \in 1..(n + 1) /\ i + 1 # 1 /\ i + 1 - 1 = i
    BY <1>1
  <2>4. 1 \in 1..(n + 1)
    BY <1>1
  <2> QED BY <1>1, <1>2, <2>2, <2>3, <2>4 DEF Pushed
<1>4. b = NodeAt(z, 1)
  BY <1>1, <1>3 DEF NodeAt
<1>5. \A i \in 1..(n + 1) : words2[z[i]][next] = NodeAt(z, i + 1)
  <2>1. words2[z[1]][next] = NodeAt(z, 1 + 1)
    <3>1. first = NodeAt(s, 1)
      BY DEF Linked
    <3>2. NodeAt(z, 1 + 1) = NodeAt(s, 1)
      <4>1. 1 + 1 \in 1..(n + 1) <=> 1 \in 1..n
        BY <1>1
      <4> QED BY <1>1, <1>3, <4>1 DEF NodeAt
    <3> QED BY <1>3, <3>1, <3>2
  <2>2. ASSUME NEW i \in 1..n PROVE words2[z[i + 1]][next] = NodeAt(z, i + 1 + 1)
    <3>1. words2[s[i]][next] = NodeAt(s, i + 1)
      BY <1>1 DEF Linked
    <3>2. NodeAt(z, i + 1 + 1) = NodeAt(s, i + 1)
      <4>1. i + 1 + 1 \in 1..(n + 1) <=> i + 1 \in 1..n
        BY <1>1
      <4> QED BY <1>1, <1>3, <4>1 DEF NodeAt
    <3> QED BY <1>3, <3>1, <3>2
  <2>3. \A i \in 1..(n + 1) : i = 1 \/ \E j \in 1..n : i = j + 1
    <3> SUFFICES ASSUME NEW i \in 1..(n + 1), i # 1 PROVE \E j \in 1..n : i = j + 1
      OBVIOUS
    <3>1. i - 1 \in 1..n /\ i = i - 1 + 1
      BY <1>1
    <3> QED BY <3>1
  <2> QED BY <2>1, <2>2, <2>3
<1>6. \A i, j \in 1..(n + 1) : z[i] = z[j] => i = j
  <2> SUFFICES ASSUME NEW i \in 1..(n + 1), NEW j \in 1..(n + 1), z[i] = z[j] PROVE i = j
    OBVIOUS
  <2>1. \A x \in 1..(n + 1) : x # 1 => x - 1 \in 1..n /\ z[x] = s[x - 1]
    <3> SUFFICES ASSUME NEW x \in 1..(n + 1), x # 1 PROVE x - 1 \in 1..n /\ z[x] = s[x - 1]
      OBVIOUS
    <3>1. x - 1 \in 1..n /\ x - 1 + 1 = x
      BY <1>1
    <3> QED BY <1>3, <3>1
  <2>2. \A x \in 1..(n + 1) : x # 1 => z[x] # b
    BY <1>1, <2>1
  <2>3. CASE i = 1 \/ j = 1
    BY <1>3, <2>2, <2>3
  <2>4. CASE i # 1 /\ j # 1
    <3>1. s[i - 1] = s[j - 1] /\ i - 1 \in 1..n /\ j - 1 \in 1..n
      BY <2>1, <2>4
    <3>2. i - 1 = j - 1
      BY <1>1, <3>1 DEF Linked
    <3> QED BY <1>1, <3>2
  <2> QED BY <2>3, <2>4
<1> QED BY <1>2, <1>3, <1>4, <1>5, <1>6 DEF Linked

LEMMA LinkedWithout ==
  ASSUME NEW words, NEW words2, NEW first, NEW first2, NEW s, Linked(words, first, s),
         NEW i \in 1..Len(s),
         first2 = IF i = 1 THEN words[s[1]][next] ELSE first,
         \A j \in 1..Len(s) : j # i =>
           words2[s[j]][next] = IF j = i - 1 THEN words[s[i]][next] ELSE words[s[j]][next]
  PROVE  Linked(words2, first2, Without(s, i))
<1>0. PICK n : n = Len(s) /\ n \in Nat
  BY DEF Linked
<1>1. n = Len(s) /\ n \in Nat /\ n >= 1 /\ n - 1 \in Nat /\ i \in 1..n
  BY <1>0
<1>2. PICK z : z = Without(s, i)
  OBVIOUS
<1>3. z \in Seq(Block) /\ Len(z) = n - 1
  <2>1. s \in Seq(Block) /\ s[i] \in Block
    BY <1>1 DEF Linked
  <2> QED BY <1>1, <1>2, <2>1, SeqsOfNodes
\* The place in s of what is at place j now.
<1> DEFINE Old(j) == IF j < i THEN j ELSE j + 1
<1>4. \A j \in 1..(n - 1) : Old(j) \in 1..n /\ Old(j) # i /\ z[j] = s[Old(j)]
  BY <1>1, <1>2 DEF Without
<1>5. \A j \in 1..n : NodeAt(z, j) = IF j < i THEN s[j] ELSE NodeAt(s, j + 1)
  <2> SUFFICES ASSUME NEW j \in 1..n
               PROVE  NodeAt(z, j) = IF j < i THEN s[j] ELSE NodeAt(s, j + 1)
    OBVIOUS
  <2>1. CASE j = n
    <3>1. j \notin 1..(n - 1) /\ ~(j < i) /\ j + 1 \notin 1..n
      BY <1>1, <2>1
    <3> QED BY <1>1, <1>3, <3>1 DEF NodeAt
  <2>2. CASE j # n
    <3>1. j \in 1..(n - 1) /\ j + 1 \in 1..n
      BY <1>1, <2>2
    <3> QED BY <1>1, <1>3, <1>4, <3>1 DEF NodeAt
  <2> QED BY <2>1, <2>2
<1>6. \A j \in 1..n : words[s[j]][next] = NodeAt(s, j + 1)
  BY <1>1 DEF Linked
<1>7. first2 = NodeAt(z, 1)
  <2>1. 1 \in 1..n
    BY <1>1
  <2>2. first = s[1]
    BY <1>1, <2>1 DEF Linked, NodeAt
  <2>3. CASE i = 1
    BY <1>1, <1>5, <1>6, <2>1, <2>3
  <2>4. CASE i # 1
    BY <1>1, <1>5, <2>1, <2>2, <2>4
  <2> QED BY <2>3, <2>4
<1>8. \A j \in 1..(n - 1) : words2[z[j]][next] = NodeAt(z, j + 1)
  <2> SUFFICES ASSUME NEW j \in 1..(n - 1) PROVE words2[z[j]][next] = NodeAt(z, j + 1)
    OBVIOUS
  <2>0. j \in 1..n /\ j + 1 \in 1..n
    BY <1>1
  <2>1. CASE j < i - 1
    <3>1. words2[s[j]][next] = NodeAt(s, j + 1) /\ z[j] = s[j] /\ NodeAt(s, j + 1) = s[j + 1]
      BY <1>1, <1>4, <1>6, <2>0, <2>1 DEF NodeAt
    <3>2. NodeAt(z, j + 1) = s[j + 1]
      BY <1>1, <1>5, <2>0, <2>1
    <3> QED BY <3>1, <3>2
  <2>2. CASE j = i - 1
    <3>1. words2[s[j]][next] = NodeAt(s, i + 1) /\ z[j] = s[j]
      BY <1>1, <1>4, <1>6, <2>0, <2>2
    <3>2. NodeAt(z, j + 1) = NodeAt(s, j + 1 + 1)
      BY <1>1, <1>5, <2>0, <2>2
    <3>3. j + 1 + 1 = i + 1
      BY <1>1, <2>2
    <3> QED BY <3>1, <3>2, <3>3
  <2>3. CASE j > i - 1
    <3>1. words2[s[j + 1]][next] = NodeAt(s, j + 1 + 1) /\ z[j] = s[j + 1]
      BY <1>1, <1>4, <1>6, <2>0, <2>3
    <3>2. NodeAt(z, j + 1) = NodeAt(s, j + 1 + 1)
      BY <1>1, <1>5, <2>0, <2>3
    <3> QED BY <3>1, <3>2
  <2> QED BY <1>1, <2>0, <2>1, <2>2, <2>3
<1>9. \A j, m \in 1..(n - 1) : z[j] = z[m] => j = m
  <2> SUFFICES ASSUME NEW j \in 1..(n - 1), NEW m \in 1..(n - 1), z[j] = z[m] PROVE j = m
    OBVIOUS
  <2>1. Old(j) = Old(m)
    <3>1. s[Old(j)] = s[Old(m)] /\ Old(j) \in 1..n /\ Old(m) \in 1..n
      BY <1>4
    <3> HIDE DEF Old
    <3> QED BY <1>1, <3>1 DEF Linked
  <2> QED BY <1>1, <2>1
<1> QED BY <1>2, <1>3, <1>7, <1>8, <1>9 DEF Linked

\* A list whose words a step leaves alone.
LEMMA ListFrame ==
  ASSUME NEW words, NEW words2, NEW firsts, NEW firsts2, NEW counts, NEW counts2, NEW ids, NEW ids2,
         NEW role, NEW role2, NEW of, NEW of2, NEW objs, NEW objs2, NEW k,
         HasList(words, firsts, counts, ids, role, of, objs, k),
         firsts2[k] = firsts[k], counts[k] \in Nat, counts2[k] = counts[k],
         DOMAIN ids2[k] = DOMAIN ids[k], objs2[k] = objs[k],
         \A b \in Block : role[b] = "object" /\ of[b] = k =>
           /\ role2[b] = "object" /\ of2[b] = k
           /\ words2[b][next] = words[b][next] /\ words2[b][thread] = words[b][thread]
  PROVE  HasList(words2, firsts2, counts2, ids2, role2, of2, objs2, k)
<1>1. PICK s : s = objs[k] /\ s = objs2[k]
  OBVIOUS
<1>2. Linked(words, firsts[k], s) /\ s \in Seq(Block)
  BY <1>1 DEF HasList, Linked
<1>3. \A i \in 1..Len(s) :
        /\ s[i] \in Block /\ role2[s[i]] = "object" /\ of2[s[i]] = k
        /\ words2[s[i]][next] = words[s[i]][next] /\ words2[s[i]][thread] = words[s[i]][thread]
  BY <1>1, <1>2 DEF HasList
<1>4. Linked(words2, firsts2[k], s)
  BY <1>2, <1>3, LinkedFrame
<1>5. {words2[s[i]][thread] : i \in 1..Len(s)} = {words[s[i]][thread] : i \in 1..Len(s)}
  BY <1>3
<1>6. /\ \A i \in 1..Len(s) : words[s[i]][thread] \in Nat /\ words[s[i]][thread] < counts[k]
      /\ \A i, j \in 1..Len(s) : i < j => words[s[i]][thread] < words[s[j]][thread]
      /\ DOMAIN ids[k] = {words[s[i]][thread] : i \in 1..Len(s)}
  BY <1>1 DEF HasList
<1>7. /\ \A i \in 1..Len(s) : words2[s[i]][thread] \in Nat /\ words2[s[i]][thread] < counts2[k]
      /\ \A i, j \in 1..Len(s) : i < j => words2[s[i]][thread] < words2[s[j]][thread]
      /\ DOMAIN ids2[k] = {words2[s[i]][thread] : i \in 1..Len(s)}
  BY <1>3, <1>5, <1>6
<1> QED BY <1>1, <1>3, <1>4, <1>7 DEF HasList

\* Those that wait at an object, when a step leaves their words alone.
LEMMA QueueFrame ==
  ASSUME NEW words, NEW words2, NEW ids, NEW ids2, NEW role, NEW role2, NEW of, NEW of2,
         NEW queue, NEW queue2, NEW b,
         HasQueue(words, ids, role, of, queue, b),
         queue2[b] = queue[b], words2[b][blockedThreadList] = words[b][blockedThreadList],
         ids2[of2[b]][words2[b][thread]] = ids[of[b]][words[b][thread]],
         \A x \in Block : role[x] = "waiter" /\ of[x] = b =>
           role2[x] = "waiter" /\ of2[x] = b /\ words2[x][next] = words[x][next]
  PROVE  HasQueue(words2, ids2, role2, of2, queue2, b)
<1>1. PICK s : s = queue[b] /\ s = queue2[b]
  OBVIOUS
<1>2. Linked(words, words[b][blockedThreadList], s) /\ s \in Seq(Block)
  BY <1>1 DEF HasQueue, Linked
<1>3. \A i \in 1..Len(s) :
        /\ s[i] \in Block /\ role2[s[i]] = "waiter" /\ of2[s[i]] = b
        /\ words2[s[i]][next] = words[s[i]][next]
  BY <1>1, <1>2 DEF HasQueue
<1>4. Linked(words2, words2[b][blockedThreadList], s)
  BY <1>2, <1>3, LinkedFrame
<1> QED BY <1>1, <1>3, <1>4 DEF HasQueue

LEMMA InOrderFrame ==
  ASSUME NEW words, NEW words2, NEW procs, NEW role, NEW role2, NEW of, NEW of2, NEW rings,
         NEW handed, NEW handed2,
         Untouched(ProcessRole, words, words2, role, role2, of, of2),
         ProcessLayout(words, procs, role, of, rings),
         InOrder(words, handed, role), IsSegment(handed2)
  PROVE  InOrder(words2, handed2, role2)
<1>1. ASSUME NEW b \in Block, role2[b] = "library"
      PROVE  words2[words2[b][thread]][baseStack] = words2[b][thread] + 1
  <2>1. role[b] = "library" /\ words2[b] = words[b]
    BY <1>1 DEF Untouched, ProcessRole
  <2>2. words[b][thread] \in Block /\ role[words[b][thread]] = "thread"
    BY <2>1 DEF ProcessLayout, BelongsToProcess, HasThread
  <2>3. words2[words[b][thread]] = words[words[b][thread]]
    BY <2>2 DEF Untouched, ProcessRole
  <2> QED BY <2>1, <2>3 DEF InOrder
<1> QED BY <1>1 DEF InOrder, IsSegment

LEMMA NextPages ==
  ASSUME NEW role, NEW of, NEW rings, NEW objs, NEW queue,
         ObjectTypes',
         role \in [Block -> Role],
         usedMap' = {b \in Block : role[b] # "free"},
         leaked' = {b \in Block : role[b] = "leaked"},
         ProcessLayout(word', process', role, of, rings),
         ObjectLayout(word', list', counter', waiting', role, of, objs, queue),
         bequeathed' = {} => Clean(word', role),
         ~reused' => InOrder(word', handedOut', role),
         kernel' # "stale"
  PROVE  PagesInv'
<1>1. Layout(role, of, rings, objs, queue)'
  BY DEF Layout
<1>2. (\E r, o, g, s, q : Layout(r, o, g, s, q))'
  BY <1>1
<1> QED BY <1>2 DEF PagesInv, FirstUseIsClean

\* What the walks over the lists find.
LEMMA Walks ==
  ASSUME NEW role, NEW of, NEW rings, NEW objs, NEW queue, Layout(role, of, rings, objs, queue)
  PROVE  /\ \A k \in Kind : Nodes(k) = objs[k]
         /\ \A b \in Block : role[b] = "object" =>
              Chain(word, word[b][blockedThreadList]) = queue[b]
         /\ \A pid \in DOMAIN process : Library(pid) = rings[pid]
<1>1. ASSUME NEW k \in Kind PROVE Nodes(k) = objs[k]
  <2>1. Linked(word, list[k], objs[k])
    BY DEF Layout, ObjectLayout, HasList
  <2> QED BY <2>1, ChainIs DEF Nodes
<1>2. ASSUME NEW b \in Block, role[b] = "object"
      PROVE  Chain(word, word[b][blockedThreadList]) = queue[b]
  <2>1. Linked(word, word[b][blockedThreadList], queue[b])
    BY <1>2 DEF Layout, ObjectLayout, BelongsToObject, HasQueue
  <2> QED BY <2>1, ChainIs
<1>3. ASSUME NEW pid \in DOMAIN process PROVE Library(pid) = rings[pid]
  <2>1. HasOwn(process, role, of, pid) /\ HasRing(word, process, role, of, rings, pid)
    BY DEF Layout, ProcessLayout
  <2>2. process[pid].currentPThread \in Nat
    BY <2>1, OwnFields DEF HasOwn
  <2>3. IsWalk(word, word[process[pid].page][threadLibrary], process[pid].currentPThread, rings[pid])
    BY <2>1 DEF HasRing, IsWalk
  <2> QED BY <2>2, <2>3, WalkIs DEF Library
<1> QED BY <1>1, <1>2, <1>3

IsObject(role, of, objs, queue, k, id, i, o) ==
  /\ i \in 1..Len(objs[k]) /\ o = objs[k][i]
  /\ o \in Block /\ role[o] = "object" /\ of[o] = k /\ word[o][thread] = id
  /\ HasQueue(word, waiting, role, of, queue, o)

LEMMA FindsObject ==
  ASSUME NEW role, NEW of, NEW rings, NEW objs, NEW queue, Layout(role, of, rings, objs, queue),
         NEW k \in Kind, NEW id \in DOMAIN waiting[k]
  PROVE  IsObject(role, of, objs, queue, k, id, Find(k, id), Nodes(k)[Find(k, id)])
<1>1. PICK s : s = objs[k] /\ s = Nodes(k)
  BY Walks
<1>2. HasList(word, list, counter, waiting, role, of, objs, k)
  BY DEF Layout, ObjectLayout
<1>3. s \in Seq(Block)
  BY <1>1, <1>2 DEF HasList, Linked
<1>4. DOMAIN s = 1..Len(s)
  BY <1>3
<1>5. \E i \in DOMAIN s : word[s[i]][thread] = id
  BY <1>1, <1>2, <1>4 DEF HasList
<1>6. PICK i : i = Find(k, id)
  OBVIOUS
<1>7. i \in DOMAIN s /\ word[s[i]][thread] = id
  <2>1. i = CHOOSE j \in DOMAIN s : word[s[j]][thread] = id
    BY <1>1, <1>6 DEF Find
  <2> QED BY <1>5, <2>1
<1>8. s[i] \in Block /\ role[s[i]] = "object" /\ of[s[i]] = k
  BY <1>1, <1>2, <1>3, <1>4, <1>7 DEF HasList
<1>9. HasQueue(word, waiting, role, of, queue, s[i])
  BY <1>8 DEF Layout, ObjectLayout, BelongsToObject
<1> QED BY <1>1, <1>4, <1>6, <1>7, <1>8, <1>9 DEF IsObject

\* Objects of a list have identifiers of their own.
LEMMA OneIdentifierEach ==
  ASSUME NEW role, NEW of, NEW rings, NEW objs, NEW queue, Layout(role, of, rings, objs, queue),
         ObjectTypes,
         NEW o \in Block, NEW b \in Block, role[o] = "object", role[b] = "object",
         of[o] = of[b], word[o][thread] = word[b][thread]
  PROVE  o = b
<1>1. PICK k \in Kind : of[o] = k
  BY DEF Layout, ObjectLayout, BelongsToObject
<1>2. PICK s : s = objs[k]
  OBVIOUS
<1>3. HasList(word, list, counter, waiting, role, of, objs, k)
  BY DEF Layout, ObjectLayout
<1>4. PICK i \in 1..Len(s) : s[i] = o
  BY <1>1, <1>2 DEF Layout, ObjectLayout, BelongsToObject
<1>5. PICK j \in 1..Len(s) : s[j] = b
  <2>1. BelongsToObject(word, waiting, role, of, objs, queue, b) /\ of[b] = k
    BY <1>1 DEF Layout, ObjectLayout
  <2> QED BY <1>2, <2>1 DEF BelongsToObject
<1>6. word[o][thread] \in Nat
  BY <1>2, <1>3, <1>4 DEF HasList
<1>7. ~(i < j) /\ ~(j < i)
  BY <1>2, <1>3, <1>4, <1>5, <1>6 DEF HasList
<1>8. Len(s) \in Nat
  BY <1>2, <1>3 DEF HasList, Linked
<1> QED BY <1>4, <1>5, <1>7, <1>8

(***************************************************************************)
(* Mutexes and semaphores.                                                 *)
(***************************************************************************)
LEMMA SamePages ==
  ASSUME PagesInv, UNCHANGED <<usedMap, word, processes, objects, history>>,
         kernel' = "stale" => bequeathed # {}
  PROVE  PagesInv'
<1>1. ObjectTypes'
  BY DEF PagesInv, ObjectTypes, processes, objects, history
<1>2. PICK role, of, rings, objs, queue : Layout(role, of, rings, objs, queue)
  BY DEF PagesInv
<1>3. Layout(role, of, rings, objs, queue)'
  BY <1>2 DEF Layout, processes, objects, history
<1>4. (\E r, o, g, s, q : Layout(r, o, g, s, q))'
  BY <1>3
<1> QED BY <1>1, <1>4 DEF PagesInv, FirstUseIsClean, history

\* The first page of several that are to be had is free.
LEMMA FirstIsFree ==
  ASSUME ObjectTypes, NEW sizes \in Seq(Nat \ {0}), sizes # <<>>, NEW got, got = allocate(sizes),
         NULL \notin Range(got)
  PROVE  got[1] \in Block /\ got[1] \notin usedMap
<1>1. Grants(usedMap, sizes, got)
  BY AllocateIs
<1>2. 1 \in 1..Len(sizes)
  BY EmptySeq
<1>3. got[1] \in Block /\ Run(got[1], sizes[1]) \subseteq Block \ usedMap
  BY <1>1, <1>2, FreshRuns DEF ObjectTypes
<1>4. PICK n : n = sizes[1] /\ n \in Nat \ {0}
  BY <1>2
<1>5. got[1] \in Run(got[1], n)
  <2>1. got[1] \in Int
    BY <1>3, Fields
  <2> QED BY <1>4, <2>1 DEF Run
<1> QED BY <1>3, <1>4, <1>5

LEMMA ObjectIds ==
  ASSUME NEW role, NEW of, NEW rings, NEW objs, NEW queue, Layout(role, of, rings, objs, queue),
         NEW b \in Block, role[b] = "object"
  PROVE  /\ of[b] \in Kind /\ word[b][thread] \in Nat /\ word[b][thread] < counter[of[b]]
         /\ word[b][thread] \in DOMAIN waiting[of[b]]
<1>1. PICK k \in Kind : of[b] = k
  BY DEF Layout, ObjectLayout, BelongsToObject
<1>2. HasList(word, list, counter, waiting, role, of, objs, k)
  BY DEF Layout, ObjectLayout
<1>3. PICK i \in 1..Len(objs[k]) : objs[k][i] = b
  BY <1>1 DEF Layout, ObjectLayout, BelongsToObject
<1> QED BY <1>1, <1>2, <1>3 DEF HasList

LEMMA CreatePages ==
  ASSUME PagesInv, NEW k \in Kind, Create(k)
  PROVE  PagesInv'
<1>1. PICK got : got = allocate(<<1>>)
  OBVIOUS
<1>2. PICK b : b = got[1]
  OBVIOUS
<1>3. PICK role, of, rings, objs, queue : Layout(role, of, rings, objs, queue)
  BY DEF PagesInv
<1>4. ObjectTypes
  BY DEF PagesInv
<1>5. <<1>> \in Seq(Nat \ {0}) /\ <<1>> # <<>> /\ Len(<<1>>) = 1
  OBVIOUS
<1> DEFINE Stale == /\ b # NULL
                    /\ word[b][next] # NULL \/ word[b][blockedThreadList] # NULL
                    /\ TakesOver
<1>6. CASE RefusedPages(got)
  BY <1>6, SamePages DEF RefusedPages, history
<1>7. CASE Stale
  <2>1. NULL \notin Range(got)
    <3>1. DOMAIN got = {1}
      <4>1. Grants(usedMap, <<1>>, got)
        BY <1>1, <1>5, AllocateIs
      <4>2. Len(got) = 1 /\ got \in Seq(Block \cup {NULL})
        BY <1>5, <4>1 DEF Grants
      <4>3. 1..1 = {1}
        OBVIOUS
      <4> QED BY <4>2, <4>3
    <3> QED BY <1>2, <1>7, <3>1 DEF Range
  <2>2. b \in Block /\ b \notin usedMap
    BY <1>1, <1>2, <1>4, <1>5, <2>1, FirstIsFree
  <2>3. role[b] = "free"
    BY <1>3, <2>2 DEF Layout
  <2>4. bequeathed # {}
    BY <1>3, <1>7, <2>2, <2>3 DEF Layout, Clean
  <2> QED BY <1>7, <2>4, SamePages DEF TakesOver, history
<1>8. CASE ~RefusedPages(got) /\ ~Stale
  <2> DEFINE s == objs[k]
             id == counter[k]
  <2>1. Nodes(k) = s
    BY <1>3, Walks
  <2>2. /\ Reserve(got, <<1>>)
        /\ word[b][next] = NULL /\ word[b][blockedThreadList] = NULL
        /\ IF s = <<>>
           THEN list' = [list EXCEPT ![k] = b] /\ word' = [word EXCEPT ![b][thread] = id]
           ELSE /\ word' = [word EXCEPT ![b][thread] = id, ![s[Len(s)]][next] = b]
                /\ UNCHANGED list
        /\ waiting' = [waiting EXCEPT ![k] =
             [j \in DOMAIN waiting[k] \cup {id} |-> IF j = id THEN 0 ELSE waiting[k][j]]]
        /\ counter' = [counter EXCEPT ![k] = @ + 1]
        /\ UNCHANGED <<processes, leaked, bequeathed, kernel>> /\ kernel = "running"
    BY <1>1, <1>2, <1>8, <2>1 DEF Create
  <2>3. HasList(word, list, counter, waiting, role, of, objs, k)
    BY <1>3 DEF Layout, ObjectLayout
  <2>4. s \in Seq(Block) /\ Linked(word, list[k], s)
    BY <2>3 DEF HasList, Linked
  <2>5. /\ b \in Block /\ b \notin usedMap
        /\ usedMap' = usedMap \cup {b} /\ handedOut' = handedOut \cup {b}
        /\ reused' \in BOOLEAN
        /\ ~reused' => ~reused /\ (IsSegment(handedOut) => IsSegment(handedOut'))
    BY <1>1, <1>2, <1>4, <2>2, OnePage
  <2>6. role[b] = "free"
    BY <1>3, <2>5 DEF Layout
  <2>7. \A i \in 1..Len(s) : s[i] \in Block /\ role[s[i]] = "object" /\ of[s[i]] = k /\ s[i] # b
    BY <2>3, <2>4, <2>6 DEF HasList
  \* The words of the next state.
  <2>8. /\ word' \in Words
        /\ word'[b][thread] = id
        /\ \A f \in 0..4 : f # thread => word'[b][f] = word[b][f]
        /\ s # <<>> =>
             /\ word'[s[Len(s)]][next] = b
             /\ \A f \in 0..4 : f # next => word'[s[Len(s)]][f] = word[s[Len(s)]][f]
        /\ \A x \in Block : x # b /\ (s = <<>> \/ x # s[Len(s)]) => word'[x] = word[x]
    <3>1. id \in Int /\ word \in Words
      BY <1>4 DEF ObjectTypes
    <3>2. PICK made : made = Put(word, b, thread, id)
      OBVIOUS
    <3>3. Written(word, made, b, thread, id)
      BY <2>5, <3>1, <3>2, Cell, Fields
    <3>4. CASE s = <<>>
      <4>1. word' = made
        BY <2>2, <3>2, <3>4 DEF Put
      <4> QED BY <3>3, <3>4, <4>1 DEF Written
    <3>5. CASE s # <<>>
      <4>1. Len(s) \in 1..Len(s)
        BY <2>4, <3>5, EmptySeq
      <4>2. PICK last : last = s[Len(s)] /\ last \in Block /\ last # b
        BY <2>7, <4>1
      <4>3. word' = Put(made, last, next, b)
        BY <2>2, <3>2, <3>5, <4>2 DEF Put
      <4>4. made \in Words
        BY <3>3 DEF Written
      <4>5. Written(made, word', last, next, b)
        BY <2>5, <4>2, <4>3, <4>4, Cell, Fields
      <4> QED BY <2>5, <3>3, <3>5, <4>2, <4>5 DEF Written
    <3> QED BY <3>4, <3>5
  <2> DEFINE role2 == [x \in Block |-> IF x = b THEN "object" ELSE role[x]]
             of2 == [x \in Block |-> IF x = b THEN k ELSE of[x]]
             objs2 == [j \in Kind |-> IF j = k THEN Appended(s, b) ELSE objs[j]]
             queue2 == [x \in Block |-> IF x = b THEN <<>> ELSE queue[x]]
  <2>9. Untouched(ProcessRole, word, word', role, role2, of, of2)
    <3>1. s # <<>> => role[s[Len(s)]] = "object"
      BY <2>4, <2>7, EmptySeq
    <3> QED BY <2>6, <2>8, <3>1 DEF Untouched, ProcessRole
  <2>10. /\ counter[k] \in Nat /\ counter'[k] = id + 1
         /\ \A j \in Kind : j # k => counter'[j] = counter[j]
         /\ DOMAIN waiting'[k] = DOMAIN waiting[k] \cup {id} /\ waiting'[k][id] = 0
         /\ \A j \in DOMAIN waiting[k] : j # id => waiting'[k][j] = waiting[k][j]
         /\ \A j \in Kind : j # k => waiting'[j] = waiting[j]
         /\ \A j \in Kind : j # k => list'[j] = list[j]
    BY <1>4, <2>2 DEF ObjectTypes
  <2>11. ProcessLayout(word', process', role2, of2, rings)
    <3>1. process' = process
      BY <2>2 DEF processes
    <3>2. ProcessLayout(word, process, role, of, rings)
      BY <1>3 DEF Layout
    <3> HIDE DEF role2, of2
    <3> QED BY <2>9, <3>1, <3>2, ProcessFrame
  <2>12. ObjectTypes'
    <3>1. list' \in [Kind -> Int]
      BY <1>4, <2>2, <2>5, Fields DEF ObjectTypes
    <3>2. counter' \in [Kind -> Nat]
      BY <1>4, <2>2 DEF ObjectTypes
    <3>3. /\ waiting' = [j \in Kind |-> waiting'[j]]
          /\ \A j \in Kind : waiting'[j] = [i \in DOMAIN waiting'[j] |-> waiting'[j][i]]
      <4>1. PICK more : more = [i \in DOMAIN waiting[k] \cup {id} |-> IF i = id THEN 0 ELSE waiting[k][i]]
        OBVIOUS
      <4>2. waiting' = [j \in Kind |-> IF j = k THEN more ELSE waiting[j]]
        BY <1>4, <2>2, <4>1 DEF ObjectTypes
      <4>3. more = [i \in DOMAIN more |-> more[i]]
        BY <4>1
      <4> QED BY <1>4, <4>2, <4>3 DEF ObjectTypes
    <3>4. usedMap' \in SUBSET Block /\ handedOut' \in SUBSET Block /\ usedMap' \subseteq handedOut'
      BY <1>4, <2>5 DEF ObjectTypes
    <3>5. process' = process /\ currentPid' = currentPid
      BY <2>2 DEF processes
    <3> QED BY <1>4, <2>5, <2>8, <3>1, <3>2, <3>3, <3>4, <3>5 DEF ObjectTypes
  <2>13. HasList(word', list', counter', waiting', role2, of2, objs2, k)
    <3>1. PICK s2 : s2 = Appended(s, b)
      OBVIOUS
    <3>2. PICK n : n = Len(s) /\ n \in Nat
      BY <2>4
    <3>3. s2 \in Seq(Block) /\ Len(s2) = n + 1 /\ s2[n + 1] = b /\ \A i \in 1..n : s2[i] = s[i]
      <4>1. s2 \in Seq(Block) /\ Len(s2) = n + 1
        BY <2>4, <2>5, <3>1, <3>2, SeqsOfNodes
      <4> QED BY <3>1, <3>2, <4>1 DEF Appended
    <3>4. Linked(word', list'[k], s2)
      <4>1. \A i \in 1..Len(s) : i < Len(s) => word'[s[i]][next] = word[s[i]][next]
        <5> SUFFICES ASSUME NEW i \in 1..Len(s), i < Len(s)
                     PROVE  word'[s[i]][next] = word[s[i]][next]
          OBVIOUS
        <5> HIDE DEF s
        <5>0. \A j, l \in 1..Len(s) : s[j] = s[l] => j = l
          BY <2>4 DEF Linked
        <5>1. Len(s) \in 1..Len(s) /\ s # <<>>
          BY <3>2
        <5>2. s[i] # s[Len(s)]
          BY <3>2, <5>0, <5>1
        <5> QED BY <2>7, <2>8, <5>2
      <4>2. s # <<>> => list'[k] = list[k] /\ word'[s[Len(s)]][next] = b
        BY <2>2, <2>8
      <4>3. s = <<>> => list'[k] = b
        BY <1>4, <2>2 DEF ObjectTypes
      <4>4. word'[b][next] = NULL
        BY <2>2, <2>8 DEF next, thread
      <4>5. \A i \in 1..Len(s) : s[i] # b
        BY <2>7
      <4> HIDE DEF s
      <4> QED BY <2>4, <2>5, <3>1, <4>1, <4>2, <4>3, <4>4, <4>5, LinkedAppend
    <3>5. \A i \in 1..n : word'[s[i]][thread] = word[s[i]][thread]
      BY <2>7, <2>8, <3>2 DEF next, thread
    <3>6. \A i \in 1..n : /\ word[s[i]][thread] \in Nat /\ word[s[i]][thread] < id
                          /\ \A j \in 1..n : i < j => word[s[i]][thread] < word[s[j]][thread]
      BY <2>3, <3>2 DEF HasList
    <3>7. \A i \in 1..(n + 1) : i \in 1..n \/ i = n + 1
      BY <3>2
    <3>8. \A i \in 1..(n + 1) : role2[s2[i]] = "object" /\ of2[s2[i]] = k
      BY <2>5, <2>7, <3>2, <3>3, <3>7
    <3>9. \A i \in 1..(n + 1) : word'[s2[i]][thread] \in Nat /\ word'[s2[i]][thread] < counter'[k]
      <4>1. \A i \in 1..n : s2[i] = s[i] /\ word'[s2[i]][thread] \in Nat /\ word'[s2[i]][thread] < id
        BY <3>3, <3>5, <3>6
      <4>2. word'[s2[n + 1]][thread] = id
        BY <2>8, <3>3
      <4> QED BY <2>10, <3>7, <4>1, <4>2
    <3>10. \A i, j \in 1..(n + 1) : i < j => word'[s2[i]][thread] < word'[s2[j]][thread]
      <4>1. \A i, j \in 1..(n + 1) : i < j => i \in 1..n
        BY <3>2
      <4> QED BY <2>8, <3>3, <3>5, <3>6, <3>7, <4>1
    <3>11. DOMAIN waiting'[k] = {word'[s2[i]][thread] : i \in 1..(n + 1)}
      <4>1. DOMAIN waiting[k] = {word[s[i]][thread] : i \in 1..n}
        BY <2>3, <3>2 DEF HasList
      <4>2. 1..(n + 1) = 1..n \cup {n + 1}
        BY <3>2
      <4>3. \A i \in 1..n : word'[s2[i]][thread] = word[s[i]][thread]
        BY <3>3, <3>5
      <4>4. word'[s2[n + 1]][thread] = id
        BY <2>8, <3>3
      <4>5. {word'[s2[i]][thread] : i \in 1..(n + 1)} = {word'[s2[i]][thread] : i \in 1..n} \cup {id}
        BY <4>2, <4>4
      <4>6. {word'[s2[i]][thread] : i \in 1..n} = {word[s[i]][thread] : i \in 1..n}
        BY <4>3
      <4>7. DOMAIN waiting'[k] = DOMAIN waiting[k] \cup {id}
        BY <2>10
      <4> QED BY <4>1, <4>5, <4>6, <4>7
    <3>12. objs2[k] = s2
      BY <3>1
    <3> HIDE DEF role2, of2, objs2
    <3> QED BY <3>3, <3>4, <3>8, <3>9, <3>10, <3>11, <3>12 DEF HasList
  <2>14. ASSUME NEW j \in Kind, j # k
         PROVE  HasList(word', list', counter', waiting', role2, of2, objs2, j)
    <3>1. HasList(word, list, counter, waiting, role, of, objs, j) /\ counter[j] \in Nat
      BY <1>3, <1>4 DEF Layout, ObjectLayout, ObjectTypes
    <3>2. s # <<>> => of[s[Len(s)]] = k
      BY <2>4, <2>7, EmptySeq
    <3>3. \A x \in Block : role[x] = "object" /\ of[x] = j =>
            /\ role2[x] = "object" /\ of2[x] = j
            /\ word'[x][next] = word[x][next] /\ word'[x][thread] = word[x][thread]
      BY <2>6, <2>8, <2>14, <3>2
    <3>4. objs2[j] = objs[j] /\ DOMAIN waiting'[j] = DOMAIN waiting[j]
      BY <2>10, <2>14
    <3> HIDE DEF role2, of2, objs2
    <3> QED BY <2>10, <2>14, <3>1, <3>3, <3>4, ListFrame
  <2>15. ASSUME NEW x \in Block, role2[x] = "object"
         PROVE  /\ of2[x] \in Kind /\ \E i \in 1..Len(objs2[of2[x]]) : objs2[of2[x]][i] = x
                /\ HasQueue(word', waiting', role2, of2, queue2, x)
    <3>1. CASE x = b
      <4>1. PICK n : n = Len(s) /\ n \in Nat
        BY <2>4
      <4>2. n + 1 \in 1..Len(objs2[k]) /\ objs2[k][n + 1] = b
        <5>1. Len(Appended(s, b)) = n + 1
          BY <2>4, <2>5, <4>1, SeqsOfNodes
        <5> QED BY <4>1, <5>1 DEF Appended
      <4>3. queue2[b] = <<>> /\ of2[b] = k
        BY <2>5
      <4>4. word'[b][blockedThreadList] = NULL
        BY <2>2, <2>8 DEF blockedThreadList, thread
      <4>5. Linked(word', word'[b][blockedThreadList], queue2[b])
        <5>1. <<>> \in Seq(Block) /\ Len(<<>>) = 0
          OBVIOUS
        <5> HIDE DEF queue2
        <5> QED BY <4>3, <4>4, <5>1 DEF Linked, NodeAt
      <4>6. HasQueue(word', waiting', role2, of2, queue2, b)
        <5> HIDE DEF role2, of2, queue2
        <5> QED BY <2>8, <2>10, <4>3, <4>5 DEF HasQueue
      <4> HIDE DEF objs2, queue2
      <4> QED BY <3>1, <4>2, <4>3, <4>6
    <3>2. CASE x # b
      <4>1. role[x] = "object" /\ of2[x] = of[x] /\ queue2[x] = queue[x]
        BY <2>15, <3>2
      <4>2. PICK j \in Kind : j = of[x]
        BY <1>3, <4>1, ObjectIds
      <4>3. PICK i \in 1..Len(objs[j]) : objs[j][i] = x
        BY <1>3, <4>1, <4>2 DEF Layout, ObjectLayout, BelongsToObject
      <4>4. i \in 1..Len(objs2[j]) /\ objs2[j][i] = x
        <5>1. CASE j = k
          <6>1. PICK n : n = Len(s) /\ n \in Nat
            BY <2>4
          <6>2. Len(Appended(s, b)) = n + 1
            BY <2>4, <2>5, <6>1, SeqsOfNodes
          <6>3. i \in 1..(n + 1) /\ i <= n
            BY <4>3, <5>1, <6>1
          <6> QED BY <4>3, <5>1, <6>1, <6>2, <6>3 DEF Appended
        <5>2. CASE j # k
          BY <4>3, <5>2
        <5> QED BY <5>1, <5>2
      <4>5. HasQueue(word, waiting, role, of, queue, x)
        BY <1>3, <4>1 DEF Layout, ObjectLayout, BelongsToObject
      <4>6. word'[x][blockedThreadList] = word[x][blockedThreadList] /\ word'[x][thread] = word[x][thread]
        BY <2>8, <3>2 DEF blockedThreadList, thread, next
      <4>7. waiting'[j][word[x][thread]] = waiting[j][word[x][thread]]
        <5>1. word[x][thread] \in DOMAIN waiting[j] /\ word[x][thread] \in Nat
              /\ word[x][thread] < counter[j]
          BY <1>3, <4>1, <4>2, ObjectIds
        <5> QED BY <2>10, <5>1
      <4>8. \A y \in Block : role[y] = "waiter" /\ of[y] = x =>
              role2[y] = "waiter" /\ of2[y] = x /\ word'[y][next] = word[y][next]
        <5>1. s # <<>> => role[s[Len(s)]] = "object"
          BY <2>4, <2>7, EmptySeq
        <5> QED BY <2>6, <2>8, <5>1
      <4>9. HasQueue(word', waiting', role2, of2, queue2, x)
        <5> HIDE DEF role2, of2, queue2
        <5> QED BY <4>1, <4>2, <4>5, <4>6, <4>7, <4>8, QueueFrame
      <4> HIDE DEF objs2, queue2
      <4> QED BY <4>1, <4>2, <4>4, <4>9
    <3> QED BY <3>1, <3>2
  <2>16. ASSUME NEW x \in Block, role2[x] = "waiter"
         PROVE  /\ of2[x] \in Block /\ role2[of2[x]] = "object"
                /\ \E i \in 1..Len(queue2[of2[x]]) : queue2[of2[x]][i] = x
    <3>1. x # b /\ role[x] = "waiter" /\ of2[x] = of[x]
      BY <2>16
    <3>2. /\ of[x] \in Block /\ role[of[x]] = "object"
          /\ \E i \in 1..Len(queue[of[x]]) : queue[of[x]][i] = x
      BY <1>3, <3>1 DEF Layout, ObjectLayout, BelongsToObject
    <3>3. of[x] # b
      BY <2>6, <3>2
    <3> QED BY <3>1, <3>2, <3>3
  <2>17. ObjectLayout(word', list', counter', waiting', role2, of2, objs2, queue2)
    <3> HIDE DEF role2, of2, objs2, queue2
    <3> QED BY <2>13, <2>14, <2>15, <2>16 DEF ObjectLayout, BelongsToObject
  <2>18. bequeathed' = {} => Clean(word', role2)
    <3> SUFFICES ASSUME bequeathed = {}, NEW x \in Block
                 PROVE  /\ role2[x] \in {"free", "waiter", "object"} => word'[x][currentThread] = NULL
                        /\ role2[x] \in {"free", "waiter"} => word'[x][blockedThreadList] = NULL
                        /\ role2[x] = "free" => word'[x][next] = NULL
      BY <2>2 DEF Clean
    <3>1. Clean(word, role)
      BY <1>3 DEF Layout
    <3>2. s # <<>> => role[s[Len(s)]] = "object" /\ s[Len(s)] # b
      BY <2>4, <2>7, EmptySeq
    <3> QED BY <2>6, <2>8, <3>1, <3>2
            DEF Clean, currentThread, blockedThreadList, next, thread
  <2>19. ~reused' => InOrder(word', handedOut', role2)
    <3> SUFFICES ASSUME ~reused' PROVE InOrder(word', handedOut', role2)
      OBVIOUS
    <3>1. InOrder(word, handedOut, role) /\ ProcessLayout(word, process, role, of, rings)
      BY <1>3, <2>5 DEF Layout
    <3>2. IsSegment(handedOut')
      BY <2>5, <3>1 DEF InOrder, IsSegment
    <3> HIDE DEF role2, of2
    <3> QED BY <2>9, <3>1, <3>2, InOrderFrame
  <2>20. role2 \in [Block -> Role]
    BY <1>3 DEF Layout, Role, ObjectRole
  <2>21. usedMap' = {x \in Block : role2[x] # "free"} /\ leaked' = {x \in Block : role2[x] = "leaked"}
    BY <1>3, <2>2, <2>5, <2>6 DEF Layout
  <2>22. kernel' # "stale"
    BY <2>2
  <2> HIDE DEF role2, of2, objs2, queue2
  <2> QED BY <2>11, <2>12, <2>17, <2>18, <2>19, <2>20, <2>21, <2>22, NextPages
<1> QED BY <1>6, <1>7, <1>8

LEMMA WithWaiter ==
  ASSUME word \in Words, NEW o \in Block, NEW b \in Block, o # b,
         NEW words2, words2 = withWaiter(o, b)
  PROVE  /\ words2 \in Words
         /\ words2[b][next] = word[o][blockedThreadList] /\ words2[o][blockedThreadList] = b
         /\ \A f \in 0..4 : f # thread /\ f # next => words2[b][f] = word[b][f]
         /\ \A f \in 0..4 : f # blockedThreadList => words2[o][f] = word[o][f]
         /\ \A x \in Block \ {b, o} : words2[x] = word[x]
<1> USE Fields
<1>1. PICK m1 : m1 = Put(word, b, thread, JUNK)
  OBVIOUS
<1>2. PICK m2 : m2 = Put(m1, b, next, word[o][blockedThreadList])
  OBVIOUS
<1>3. words2 = Put(m2, o, blockedThreadList, b)
  BY <1>1, <1>2 DEF withWaiter, Put
<1>4. Written(word, m1, b, thread, JUNK)
  BY <1>1, Cell
<1>5. Written(m1, m2, b, next, word[o][blockedThreadList])
  <2>1. m1 \in Words
    BY <1>4 DEF Written
  <2>2. word[o][blockedThreadList] \in Int
    BY DEF Words
  <2> QED BY <1>2, <2>1, <2>2, Cell
<1>6. Written(m2, words2, o, blockedThreadList, b)
  <2>1. m2 \in Words
    BY <1>5 DEF Written
  <2> QED BY <1>3, <2>1, Cell
<1> QED BY <1>4, <1>5, <1>6 DEF Written, thread, next, blockedThreadList

LEMMA RequestAccessPages ==
  ASSUME PagesInv, NEW k \in Kind, NEW id \in DOMAIN waiting[k], RequestAccess(k, id)
  PROVE  PagesInv'
<1>1. PICK got : got = allocate(<<1>>)
  OBVIOUS
<1>2. PICK b : b = got[1]
  OBVIOUS
<1>3. PICK role, of, rings, objs, queue : Layout(role, of, rings, objs, queue)
  BY DEF PagesInv
<1>4. ObjectTypes
  BY DEF PagesInv
<1>5. PICK i, o : i = Find(k, id) /\ o = Nodes(k)[Find(k, id)]
  OBVIOUS
<1>6. CASE RefusedPages(got)
  BY <1>6, SamePages DEF RefusedPages, history
<1>7. CASE ~RefusedPages(got)
  <2>1. /\ Reserve(got, <<1>>)
        /\ word' = withWaiter(o, b)
        /\ waiting' = [waiting EXCEPT ![k][id] = @ + 1]
        /\ UNCHANGED <<processes, list, counter, leaked, bequeathed, kernel>> /\ kernel = "running"
    BY <1>1, <1>2, <1>5, <1>7 DEF RequestAccess
  <2>2. IsObject(role, of, objs, queue, k, id, i, o)
    BY <1>3, <1>5, FindsObject
  <2>3. /\ o \in Block /\ role[o] = "object" /\ of[o] = k /\ word[o][thread] = id
        /\ HasQueue(word, waiting, role, of, queue, o)
    BY <2>2 DEF IsObject
  <2>4. /\ b \in Block /\ b \notin usedMap
        /\ usedMap' = usedMap \cup {b} /\ handedOut' = handedOut \cup {b}
        /\ reused' \in BOOLEAN
        /\ ~reused' => ~reused /\ (IsSegment(handedOut) => IsSegment(handedOut'))
    BY <1>1, <1>2, <1>4, <2>1, OnePage
  <2>5. role[b] = "free" /\ o # b
    BY <1>3, <2>3, <2>4 DEF Layout
  <2>6. word \in Words
    BY <1>4 DEF ObjectTypes
  <2>7. /\ word' \in Words
        /\ word'[b][next] = word[o][blockedThreadList] /\ word'[o][blockedThreadList] = b
        /\ \A f \in 0..4 : f # thread /\ f # next => word'[b][f] = word[b][f]
        /\ \A f \in 0..4 : f # blockedThreadList => word'[o][f] = word[o][f]
        /\ \A x \in Block \ {b, o} : word'[x] = word[x]
    BY <2>1, <2>3, <2>4, <2>5, <2>6, WithWaiter
  <2> DEFINE s == queue[o]
             role2 == [x \in Block |-> IF x = b THEN "waiter" ELSE role[x]]
             of2 == [x \in Block |-> IF x = b THEN o ELSE of[x]]
             queue2 == [x \in Block |-> IF x = o THEN Pushed(s, b) ELSE queue[x]]
  <2>8. Untouched(ProcessRole, word, word', role, role2, of, of2)
    BY <2>3, <2>5, <2>7 DEF Untouched, ProcessRole
  <2>9. ProcessLayout(word', process', role2, of2, rings)
    <3>1. process' = process
      BY <2>1 DEF processes
    <3>2. ProcessLayout(word, process, role, of, rings)
      BY <1>3 DEF Layout
    <3> HIDE DEF role2, of2
    <3> QED BY <2>8, <3>1, <3>2, ProcessFrame
  <2>10. /\ \A j \in Kind : DOMAIN waiting'[j] = DOMAIN waiting[j]
         /\ waiting'[k][id] = waiting[k][id] + 1
         /\ \A j \in Kind : \A x \in DOMAIN waiting[j] :
              j # k \/ x # id => waiting'[j][x] = waiting[j][x]
         /\ waiting' = [j \in Kind |-> waiting'[j]]
         /\ \A j \in Kind : waiting'[j] = [x \in DOMAIN waiting'[j] |-> waiting'[j][x]]
    <3>1. PICK more : more = [waiting[k] EXCEPT ![id] = @ + 1]
      OBVIOUS
    <3>2. /\ more = [x \in DOMAIN more |-> more[x]] /\ DOMAIN more = DOMAIN waiting[k]
          /\ more[id] = waiting[k][id] + 1
          /\ \A x \in DOMAIN waiting[k] : x # id => more[x] = waiting[k][x]
      BY <1>4, <3>1 DEF ObjectTypes
    <3>3. waiting' = [j \in Kind |-> IF j = k THEN more ELSE waiting[j]]
      BY <1>4, <2>1, <3>1 DEF ObjectTypes
    <3> QED BY <1>4, <3>2, <3>3 DEF ObjectTypes
  <2>11. ObjectTypes'
    <3>1. usedMap' \in SUBSET Block /\ handedOut' \in SUBSET Block /\ usedMap' \subseteq handedOut'
      BY <1>4, <2>4 DEF ObjectTypes
    <3>2. process' = process /\ currentPid' = currentPid
      BY <2>1 DEF processes
    <3>3. list' = list /\ counter' = counter
      BY <2>1
    <3>4. waiting' = [j \in Kind |-> waiting'[j]]
      BY <2>10
    <3>5. \A j \in Kind : waiting'[j] = [x \in DOMAIN waiting'[j] |-> waiting'[j][x]]
      BY <2>10
    <3>6. word' \in Words /\ reused' \in BOOLEAN
      BY <2>4, <2>7
    <3> QED BY <1>4, <3>1, <3>2, <3>3, <3>4, <3>5, <3>6 DEF ObjectTypes
  <2>12. ASSUME NEW j \in Kind
         PROVE  HasList(word', list', counter', waiting', role2, of2, objs, j)
    <3>1. HasList(word, list, counter, waiting, role, of, objs, j) /\ counter[j] \in Nat
      BY <1>3, <1>4 DEF Layout, ObjectLayout, ObjectTypes
    <3>2. \A x \in Block : role[x] = "object" /\ of[x] = j =>
            /\ role2[x] = "object" /\ of2[x] = j
            /\ word'[x][next] = word[x][next] /\ word'[x][thread] = word[x][thread]
      BY <2>5, <2>7 DEF next, thread, blockedThreadList
    <3> HIDE DEF role2, of2
    <3> QED BY <2>1, <2>10, <3>1, <3>2, ListFrame
  <2>13. Len(s) \in Nat /\ s \in Seq(Block) /\ Len(Pushed(s, b)) = Len(s) + 1
         /\ \A j \in 1..Len(s) : s[j] \in Block /\ role[s[j]] = "waiter" /\ of[s[j]] = o /\ s[j] # b
    <3>1. s \in Seq(Block)
      BY <2>3 DEF HasQueue, Linked
    <3>2. Len(Pushed(s, b)) = Len(s) + 1
      BY <2>4, <3>1, SeqsOfNodes
    <3>3. \A j \in 1..Len(s) : role[s[j]] = "waiter" /\ of[s[j]] = o
      BY <2>3 DEF HasQueue
    <3>4. \A j \in 1..Len(s) : s[j] # b
      BY <2>5, <3>3
    <3> QED BY <3>1, <3>2, <3>3, <3>4
  <2>14. HasQueue(word', waiting', role2, of2, queue2, o)
    <3>1. Linked(word', b, Pushed(s, b))
      <4>1. \A j \in 1..Len(s) : s[j] # b /\ word'[s[j]][next] = word[s[j]][next]
        BY <2>3, <2>7, <2>13
      <4>2. Linked(word, word[o][blockedThreadList], s)
        BY <2>3 DEF HasQueue
      <4> HIDE DEF s
      <4> QED BY <2>4, <2>7, <4>1, <4>2, LinkedPush
    <3>2. \A j \in 1..(Len(s) + 1) :
            role2[Pushed(s, b)[j]] = "waiter" /\ of2[Pushed(s, b)[j]] = o
      <4> SUFFICES ASSUME NEW j \in 1..(Len(s) + 1)
                   PROVE  role2[Pushed(s, b)[j]] = "waiter" /\ of2[Pushed(s, b)[j]] = o
        OBVIOUS
      <4>1. CASE j = 1
        BY <2>4, <4>1 DEF Pushed
      <4>2. CASE j # 1
        <5>1. j - 1 \in 1..Len(s)
          BY <2>13, <4>2
        <5>2. Pushed(s, b)[j] = s[j - 1]
          BY <4>2 DEF Pushed
        <5> QED BY <2>13, <5>1, <5>2
      <4> QED BY <4>1, <4>2
    <3>3. waiting'[k][id] = Len(s) + 1
      BY <2>3, <2>10 DEF HasQueue
    <3>4. queue2[o] = Pushed(s, b) /\ of2[o] = k /\ word'[o][thread] = id
          /\ word'[o][blockedThreadList] = b
      BY <2>3, <2>5, <2>7 DEF thread, blockedThreadList
    <3> HIDE DEF role2, of2, queue2, s
    <3> QED BY <2>13, <3>1, <3>2, <3>3, <3>4 DEF HasQueue
  <2>15. ASSUME NEW x \in Block, role2[x] = "object"
         PROVE  /\ of2[x] \in Kind /\ \E j \in 1..Len(objs[of2[x]]) : objs[of2[x]][j] = x
                /\ HasQueue(word', waiting', role2, of2, queue2, x)
    <3>1. role[x] = "object" /\ of2[x] = of[x] /\ x # b
      BY <2>15
    <3>2. /\ of[x] \in Kind /\ \E j \in 1..Len(objs[of[x]]) : objs[of[x]][j] = x
          /\ HasQueue(word, waiting, role, of, queue, x)
      BY <1>3, <3>1 DEF Layout, ObjectLayout, BelongsToObject
    <3>3. CASE x # o
      <4>1. queue2[x] = queue[x] /\ word'[x] = word[x]
        BY <2>7, <3>1, <3>3
      <4>2. waiting'[of[x]][word[x][thread]] = waiting[of[x]][word[x][thread]]
        <5>1. word[x][thread] \in DOMAIN waiting[of[x]]
          BY <1>3, <3>1, ObjectIds
        <5>2. of[x] # k \/ word[x][thread] # id
          BY <1>3, <1>4, <2>3, <3>1, <3>3, OneIdentifierEach
        <5> QED BY <2>10, <3>2, <5>1, <5>2
      <4>3. \A y \in Block : role[y] = "waiter" /\ of[y] = x =>
              role2[y] = "waiter" /\ of2[y] = x /\ word'[y][next] = word[y][next]
        BY <2>3, <2>5, <2>7
      <4>4. HasQueue(word', waiting', role2, of2, queue2, x)
        <5> HIDE DEF role2, of2, queue2
        <5> QED BY <3>1, <3>2, <4>1, <4>2, <4>3, QueueFrame
      <4> HIDE DEF role2, of2, queue2
      <4> QED BY <3>1, <3>2, <4>4
    <3> HIDE DEF role2, of2, queue2
    <3> QED BY <2>14, <3>1, <3>2, <3>3
  <2>16. ASSUME NEW x \in Block, role2[x] = "waiter"
         PROVE  /\ of2[x] \in Block /\ role2[of2[x]] = "object"
                /\ \E j \in 1..Len(queue2[of2[x]]) : queue2[of2[x]][j] = x
    <3>1. CASE x = b
      <4>1. 1 \in 1..Len(Pushed(s, b)) /\ Pushed(s, b)[1] = b
        BY <2>13 DEF Pushed
      <4> QED BY <2>3, <2>4, <2>5, <3>1, <4>1
    <3>2. CASE x # b
      <4>1. /\ role[x] = "waiter" /\ of2[x] = of[x]
            /\ of[x] \in Block /\ role[of[x]] = "object"
            /\ \E j \in 1..Len(queue[of[x]]) : queue[of[x]][j] = x
        BY <1>3, <2>16, <3>2 DEF Layout, ObjectLayout, BelongsToObject
      <4>2. role2[of[x]] = "object"
        BY <2>5, <4>1
      <4>3. CASE of[x] = o
        <5>1. PICK j \in 1..Len(s) : s[j] = x
          BY <4>1, <4>3
        <5>2. j + 1 \in 1..(Len(s) + 1) /\ j + 1 # 1 /\ j + 1 - 1 = j
          BY <2>13
        <5>3. Pushed(s, b)[j + 1] = x
          BY <5>1, <5>2 DEF Pushed
        <5>4. queue2[o] = Pushed(s, b)
          BY <2>3
        <5> HIDE DEF queue2, s, role2, of2
        <5> QED BY <2>13, <4>1, <4>2, <4>3, <5>2, <5>3, <5>4
      <4>4. CASE of[x] # o
        BY <4>1, <4>2, <4>4
      <4> QED BY <4>3, <4>4
    <3> QED BY <3>1, <3>2
  <2>17. ObjectLayout(word', list', counter', waiting', role2, of2, objs, queue2)
    <3> HIDE DEF role2, of2, queue2
    <3> QED BY <2>12, <2>15, <2>16 DEF ObjectLayout, BelongsToObject
  <2>18. bequeathed' = {} => Clean(word', role2)
    <3> SUFFICES ASSUME bequeathed = {}, NEW x \in Block
                 PROVE  /\ role2[x] \in {"free", "waiter", "object"} => word'[x][currentThread] = NULL
                        /\ role2[x] \in {"free", "waiter"} => word'[x][blockedThreadList] = NULL
                        /\ role2[x] = "free" => word'[x][next] = NULL
      BY <2>1 DEF Clean
    <3>1. Clean(word, role)
      BY <1>3 DEF Layout
    <3> QED BY <2>3, <2>5, <2>7, <3>1 DEF Clean, currentThread, blockedThreadList, next, thread
  <2>19. ~reused' => InOrder(word', handedOut', role2)
    <3> SUFFICES ASSUME ~reused' PROVE InOrder(word', handedOut', role2)
      OBVIOUS
    <3>1. InOrder(word, handedOut, role) /\ ProcessLayout(word, process, role, of, rings)
      BY <1>3, <2>4 DEF Layout
    <3>2. IsSegment(handedOut')
      BY <2>4, <3>1 DEF InOrder, IsSegment
    <3> HIDE DEF role2, of2
    <3> QED BY <2>8, <3>1, <3>2, InOrderFrame
  <2>20. role2 \in [Block -> Role]
    BY <1>3 DEF Layout, Role, ObjectRole
  <2>21. usedMap' = {x \in Block : role2[x] # "free"} /\ leaked' = {x \in Block : role2[x] = "leaked"}
    BY <1>3, <2>1, <2>4, <2>5 DEF Layout
  <2>22. kernel' # "stale"
    BY <2>1
  <2> HIDE DEF role2, of2, queue2
  <2> QED BY <2>9, <2>11, <2>17, <2>18, <2>19, <2>20, <2>21, <2>22, NextPages
<1> QED BY <1>6, <1>7

LEMMA GivenBack ==
  ASSUME NEW words \in Words, NEW pages, GiveBack(words, pages)
  PROVE  /\ word' \in Words
         /\ \A x \in Block : x \notin pages => word'[x] = words[x]
         /\ \A x \in Block, f \in 0..4 : words[x][f] = NULL => word'[x][f] = NULL
<1>1. PICK empty : empty =
        [x \in Block |-> [field \in 0..4 |-> IF words[x][field] = NULL THEN NULL ELSE JUNK]]
  OBVIOUS
<1>2. empty \in Words
  BY <1>1, Fields DEF Words
<1>3. word' = [x \in Block |-> IF x \notin pages THEN words[x] ELSE empty[x]]
  BY <1>1 DEF GiveBack
<1>4. word' \in Words
  BY <1>2, <1>3 DEF Words
<1>5. \A x \in Block, f \in 0..4 : words[x][f] = NULL => empty[x][f] = NULL
  BY <1>1
<1> QED BY <1>3, <1>4, <1>5

LEMMA UnlockPages ==
  ASSUME PagesInv, NEW k \in Kind, NEW id \in DOMAIN waiting[k], Unlock(k, id)
  PROVE  PagesInv'
<1>1. PICK role, of, rings, objs, queue : Layout(role, of, rings, objs, queue)
  BY DEF PagesInv
<1>2. ObjectTypes
  BY DEF PagesInv
<1>3. PICK i, o : i = Find(k, id) /\ o = Nodes(k)[Find(k, id)]
  OBVIOUS
<1>4. IsObject(role, of, objs, queue, k, id, i, o)
  BY <1>1, <1>3, FindsObject
<1>5. /\ o \in Block /\ role[o] = "object" /\ of[o] = k /\ word[o][thread] = id
      /\ HasQueue(word, waiting, role, of, queue, o)
  BY <1>4 DEF IsObject
<1>6. PICK s : s = queue[o]
  OBVIOUS
<1>7. PICK freed : freed = Range(s)
  OBVIOUS
<1>8. PICK words : words = Put(word, o, blockedThreadList, NULL)
  OBVIOUS
<1>9. Chain(word, word[o][blockedThreadList]) = s
  BY <1>1, <1>5, <1>6, Walks
<1>10. /\ GiveBack(words, freed)
       /\ waiting' = [waiting EXCEPT ![k][id] = 0]
       /\ bequeathed' = IF waiting[k][id] > 1 THEN bequeathed \cup {"waiters"} ELSE bequeathed
       /\ UNCHANGED <<processes, list, counter, created, leaked, handedOut, reused, kernel>>
       /\ kernel = "running" /\ waiting[k][id] > 0
  BY <1>3, <1>7, <1>8, <1>9 DEF Unlock, Put
<1>11. s \in Seq(Block) /\ Linked(word, word[o][blockedThreadList], s)
       /\ waiting[k][id] = Len(s)
  BY <1>5, <1>6 DEF HasQueue, Linked
<1>12. freed = {s[j] : j \in 1..Len(s)}
  BY <1>7, <1>11 DEF Range
<1>13. \A x \in freed : x \in Block /\ role[x] = "waiter" /\ of[x] = o
  BY <1>5, <1>6, <1>11, <1>12 DEF HasQueue
<1>14. /\ word' \in Words
       /\ word'[o][blockedThreadList] = NULL
       /\ \A f \in 0..4 : f # blockedThreadList => word'[o][f] = word[o][f]
       /\ \A x \in Block : x # o /\ x \notin freed => word'[x] = word[x]
       /\ \A x \in freed, f \in 0..4 : word[x][f] = NULL => word'[x][f] = NULL
  <2>1. word \in Words
    BY <1>2 DEF ObjectTypes
  <2>2. Written(word, words, o, blockedThreadList, NULL)
    BY <1>5, <1>8, <2>1, Cell, Fields
  <2>3. words \in Words
    BY <2>2 DEF Written
  <2>4. /\ word' \in Words
        /\ \A x \in Block : x \notin freed => word'[x] = words[x]
        /\ \A x \in Block, f \in 0..4 : words[x][f] = NULL => word'[x][f] = NULL
    BY <1>10, <2>3, GivenBack
  <2>5. o \notin freed
    BY <1>5, <1>13
  <2> QED BY <1>5, <1>13, <2>2, <2>4, <2>5 DEF Written
<1> DEFINE role2 == [x \in Block |-> IF x \in freed THEN "free" ELSE role[x]]
           queue2 == [x \in Block |-> IF x = o THEN <<>> ELSE queue[x]]
<1>15. Untouched(ProcessRole, word, word', role, role2, of, of)
  BY <1>5, <1>13, <1>14 DEF Untouched, ProcessRole
<1>16. ProcessLayout(word', process', role2, of, rings)
  <2>1. process' = process
    BY <1>10 DEF processes
  <2>2. ProcessLayout(word, process, role, of, rings)
    BY <1>1 DEF Layout
  <2> HIDE DEF role2
  <2> QED BY <1>15, <2>1, <2>2, ProcessFrame
<1>17. /\ \A j \in Kind : DOMAIN waiting'[j] = DOMAIN waiting[j]
       /\ waiting'[k][id] = 0
       /\ \A j \in Kind : \A x \in DOMAIN waiting[j] :
            j # k \/ x # id => waiting'[j][x] = waiting[j][x]
       /\ waiting' = [j \in Kind |-> waiting'[j]]
       /\ \A j \in Kind : waiting'[j] = [x \in DOMAIN waiting'[j] |-> waiting'[j][x]]
  <2>1. PICK none : none = [waiting[k] EXCEPT ![id] = 0]
    OBVIOUS
  <2>2. /\ none = [x \in DOMAIN none |-> none[x]] /\ DOMAIN none = DOMAIN waiting[k]
        /\ none[id] = 0
        /\ \A x \in DOMAIN waiting[k] : x # id => none[x] = waiting[k][x]
    BY <1>2, <2>1 DEF ObjectTypes
  <2>3. waiting' = [j \in Kind |-> IF j = k THEN none ELSE waiting[j]]
    BY <1>2, <1>10, <2>1 DEF ObjectTypes
  <2> QED BY <1>2, <2>2, <2>3 DEF ObjectTypes
<1>18. ObjectTypes'
  <2>1. usedMap' \in SUBSET Block /\ handedOut' \in SUBSET Block /\ usedMap' \subseteq handedOut'
    BY <1>2, <1>10 DEF ObjectTypes, GiveBack
  <2>2. process' = process /\ currentPid' = currentPid
    BY <1>10 DEF processes
  <2>3. list' = list /\ counter' = counter /\ reused' = reused
    BY <1>10
  <2>4. waiting' = [j \in Kind |-> waiting'[j]]
    BY <1>17
  <2>5. \A j \in Kind : waiting'[j] = [x \in DOMAIN waiting'[j] |-> waiting'[j][x]]
    BY <1>17
  <2> QED BY <1>2, <1>14, <2>1, <2>2, <2>3, <2>4, <2>5 DEF ObjectTypes
<1>19. ASSUME NEW j \in Kind
       PROVE  HasList(word', list', counter', waiting', role2, of, objs, j)
  <2>1. HasList(word, list, counter, waiting, role, of, objs, j) /\ counter[j] \in Nat
    BY <1>1, <1>2 DEF Layout, ObjectLayout, ObjectTypes
  <2>2. \A x \in Block : role[x] = "object" /\ of[x] = j =>
          /\ role2[x] = "object" /\ of[x] = j
          /\ word'[x][next] = word[x][next] /\ word'[x][thread] = word[x][thread]
    BY <1>13, <1>14 DEF next, thread, blockedThreadList
  <2> HIDE DEF role2
  <2> QED BY <1>10, <1>17, <2>1, <2>2, ListFrame
<1>20. HasQueue(word', waiting', role2, of, queue2, o)
  <2>1. <<>> \in Seq(Block) /\ Len(<<>>) = 0
    OBVIOUS
  <2>2. queue2[o] = <<>>
    BY <1>5
  <2>3. Linked(word', word'[o][blockedThreadList], queue2[o])
    <3> HIDE DEF queue2
    <3> QED BY <1>14, <2>1, <2>2 DEF Linked, NodeAt
  <2>4. word'[o][thread] = id
    BY <1>5, <1>14 DEF thread, blockedThreadList
  <2> HIDE DEF role2, queue2
  <2> QED BY <1>5, <1>17, <2>1, <2>2, <2>3, <2>4 DEF HasQueue
<1>21. ASSUME NEW x \in Block, role2[x] = "object"
       PROVE  /\ of[x] \in Kind /\ \E j \in 1..Len(objs[of[x]]) : objs[of[x]][j] = x
              /\ HasQueue(word', waiting', role2, of, queue2, x)
  <2>1. role[x] = "object" /\ x \notin freed
    BY <1>21
  <2>2. /\ of[x] \in Kind /\ \E j \in 1..Len(objs[of[x]]) : objs[of[x]][j] = x
        /\ HasQueue(word, waiting, role, of, queue, x)
    BY <1>1, <2>1 DEF Layout, ObjectLayout, BelongsToObject
  <2>3. CASE x # o
    <3>1. queue2[x] = queue[x] /\ word'[x] = word[x]
      BY <1>14, <2>1, <2>3
    <3>2. waiting'[of[x]][word[x][thread]] = waiting[of[x]][word[x][thread]]
      <4>1. word[x][thread] \in DOMAIN waiting[of[x]]
        BY <1>1, <2>1, ObjectIds
      <4>2. of[x] # k \/ word[x][thread] # id
        BY <1>1, <1>2, <1>5, <2>1, <2>3, OneIdentifierEach
      <4> QED BY <1>17, <2>2, <4>1, <4>2
    <3>3. \A y \in Block : role[y] = "waiter" /\ of[y] = x =>
            role2[y] = "waiter" /\ of[y] = x /\ word'[y][next] = word[y][next]
      <4>1. \A y \in Block : role[y] = "waiter" /\ of[y] = x => y \notin freed /\ y # o
        BY <1>5, <1>13, <2>3
      <4> QED BY <1>14, <4>1
    <3> HIDE DEF role2, queue2
    <3> QED BY <2>2, <3>1, <3>2, <3>3, QueueFrame
  <2> HIDE DEF role2, queue2
  <2> QED BY <1>20, <2>2, <2>3
<1>22. ASSUME NEW x \in Block, role2[x] = "waiter"
       PROVE  /\ of[x] \in Block /\ role2[of[x]] = "object"
              /\ \E j \in 1..Len(queue2[of[x]]) : queue2[of[x]][j] = x
  <2>1. role[x] = "waiter" /\ x \notin freed
    BY <1>22
  <2>2. /\ of[x] \in Block /\ role[of[x]] = "object"
        /\ \E j \in 1..Len(queue[of[x]]) : queue[of[x]][j] = x
    BY <1>1, <2>1 DEF Layout, ObjectLayout, BelongsToObject
  <2>3. of[x] # o
    BY <1>6, <1>12, <2>1, <2>2
  <2>4. role2[of[x]] = "object"
    BY <1>13, <2>2
  <2> QED BY <2>2, <2>3, <2>4
<1>23. ObjectLayout(word', list', counter', waiting', role2, of, objs, queue2)
  <2> HIDE DEF role2, queue2
  <2> QED BY <1>19, <1>21, <1>22 DEF ObjectLayout, BelongsToObject
<1>24. bequeathed' = {} => Clean(word', role2)
  <2> SUFFICES ASSUME bequeathed' = {}, NEW x \in Block
               PROVE  /\ role2[x] \in {"free", "waiter", "object"} => word'[x][currentThread] = NULL
                      /\ role2[x] \in {"free", "waiter"} => word'[x][blockedThreadList] = NULL
                      /\ role2[x] = "free" => word'[x][next] = NULL
    BY DEF Clean
  <2>1. bequeathed = {} /\ ~(Len(s) > 1) /\ Len(s) > 0
    BY <1>10, <1>11
  <2>2. Clean(word, role)
    BY <1>1, <2>1 DEF Layout
  <2>3. CASE x \in freed
    <3>1. Len(s) = 1
      <4>1. PICK n : n = Len(s) /\ n \in Nat
        BY <1>11
      <4>2. n <= 1 /\ n > 0
        BY <2>1, <4>1
      <4>3. n = 1
        BY <4>1, <4>2
      <4> QED BY <4>1, <4>3
    <3>2. x = s[1] /\ word[x][next] = NULL
      <4>1. 1..1 = {1} /\ 1 + 1 \notin 1..1
        OBVIOUS
      <4>2. x = s[1]
        BY <1>12, <2>3, <3>1, <4>1
      <4>3. word[s[1]][next] = NodeAt(s, 1 + 1)
        BY <1>11, <3>1, <4>1 DEF Linked
      <4> QED BY <3>1, <4>1, <4>2, <4>3 DEF NodeAt
    <3>3. word[x][currentThread] = NULL /\ word[x][blockedThreadList] = NULL
      BY <1>13, <2>2, <2>3 DEF Clean
    <3> QED BY <1>14, <2>3, <3>2, <3>3, Fields
  <2>4. CASE x \notin freed
    BY <1>5, <1>14, <2>2, <2>4 DEF Clean, currentThread, blockedThreadList, next
  <2> QED BY <2>3, <2>4
<1>25. ~reused' => InOrder(word', handedOut', role2)
  <2> SUFFICES ASSUME ~reused' PROVE InOrder(word', handedOut', role2)
    OBVIOUS
  <2>1. InOrder(word, handedOut, role) /\ ProcessLayout(word, process, role, of, rings)
    BY <1>1, <1>10 DEF Layout
  <2>2. IsSegment(handedOut')
    BY <1>10, <2>1 DEF InOrder, IsSegment
  <2> HIDE DEF role2
  <2> QED BY <1>15, <2>1, <2>2, InOrderFrame
<1>26. role2 \in [Block -> Role]
  BY <1>1 DEF Layout, Role
<1>27. usedMap' = {x \in Block : role2[x] # "free"} /\ leaked' = {x \in Block : role2[x] = "leaked"}
  BY <1>1, <1>10, <1>13 DEF Layout, GiveBack
<1>28. kernel' # "stale"
  BY <1>10
<1> HIDE DEF role2, queue2
<1> QED BY <1>16, <1>18, <1>23, <1>24, <1>25, <1>26, <1>27, <1>28, NextPages

LEMMA DestroyPages ==
  ASSUME PagesInv, NEW k \in Kind, NEW id \in DOMAIN waiting[k], Destroy(k, id)
  PROVE  PagesInv'
<1>1. PICK role, of, rings, objs, queue : Layout(role, of, rings, objs, queue)
  BY DEF PagesInv
<1>2. ObjectTypes
  BY DEF PagesInv
<1>3. PICK i, o : i = Find(k, id) /\ o = Nodes(k)[Find(k, id)]
  OBVIOUS
<1>4. IsObject(role, of, objs, queue, k, id, i, o)
  BY <1>1, <1>3, FindsObject
<1>5. PICK s : s = objs[k] /\ s = Nodes(k)
  BY <1>1, Walks
<1>6. /\ o \in Block /\ role[o] = "object" /\ of[o] = k /\ word[o][thread] = id
      /\ HasQueue(word, waiting, role, of, queue, o)
      /\ i \in 1..Len(s) /\ o = s[i]
  BY <1>4, <1>5 DEF IsObject
<1>7. PICK q : q = queue[o]
  OBVIOUS
<1>8. PICK lost : lost = Range(q)
  OBVIOUS
<1>9. Chain(word, word[o][blockedThreadList]) = q
  BY <1>1, <1>6, <1>7, Walks
<1>10. PICK words, first : words = unlinked(k, i).words /\ first = unlinked(k, i).at
  OBVIOUS
<1>11. /\ list' = [list EXCEPT ![k] = first]
       /\ GiveBack(words, {o})
       /\ waiting' = [waiting EXCEPT ![k] = [j \in DOMAIN @ \ {id} |-> @[j]]]
       /\ leaked' = leaked \cup lost
       /\ bequeathed' = IF i < Len(s) \/ waiting[k][id] > 0
                        THEN bequeathed \cup {"object"} ELSE bequeathed
       /\ UNCHANGED <<processes, counter, created, handedOut, reused, kernel>>
       /\ kernel = "running"
  BY <1>3, <1>5, <1>8, <1>9, <1>10 DEF Destroy
<1>12. HasList(word, list, counter, waiting, role, of, objs, k)
  BY <1>1 DEF Layout, ObjectLayout
<1>13. PICK n : n = Len(s) /\ n \in Nat
  BY <1>5, <1>12 DEF HasList, Linked
<1>14. /\ s \in Seq(Block) /\ Linked(word, list[k], s)
       /\ \A j \in 1..n : s[j] \in Block /\ role[s[j]] = "object" /\ of[s[j]] = k
       /\ \A j, m \in 1..n : s[j] = s[m] => j = m
  <2>1. Linked(word, list[k], s)
    BY <1>5, <1>12 DEF HasList
  <2>2. s \in Seq(Block) /\ \A j, m \in 1..n : s[j] = s[m] => j = m
    BY <1>13, <2>1 DEF Linked
  <2>3. \A j \in 1..n : role[s[j]] = "object" /\ of[s[j]] = k
    BY <1>5, <1>12, <1>13 DEF HasList
  <2> QED BY <1>13, <2>1, <2>2, <2>3
<1>15. q \in Seq(Block) /\ Linked(word, word[o][blockedThreadList], q)
       /\ waiting[k][id] = Len(q)
  BY <1>6, <1>7 DEF HasQueue, Linked
<1>16. lost = {q[j] : j \in 1..Len(q)}
  BY <1>8, <1>15 DEF Range
<1>17. \A x \in lost : x \in Block /\ role[x] = "waiter" /\ of[x] = o
  BY <1>6, <1>7, <1>15, <1>16 DEF HasQueue
\* The node before is linked to the one behind.
<1>18. /\ first \in Int /\ first = IF i = 1 THEN word[s[1]][next] ELSE list[k]
       /\ words \in Words
       /\ \A j \in 1..n :
            words[s[j]][next] = IF j = i - 1 THEN word[s[i]][next] ELSE word[s[j]][next]
       /\ \A x \in Block, f \in 0..4 : role[x] # "object" \/ f # next => words[x][f] = word[x][f]
       /\ \A x \in Block : role[x] # "object" \/ of[x] # k => words[x] = word[x]
       /\ words[o] = word[o]
  <2>1. word \in Words /\ list[k] \in Int /\ word[o][next] \in Int
    <3>1. word \in Words /\ list[k] \in Int
      BY <1>2 DEF ObjectTypes
    <3>2. o \in Block /\ next \in 0..4
      BY <1>6, Fields DEF next
    <3> QED BY <3>1, <3>2 DEF Words
  <2>2. CASE i = 1
    <3>1. words = word /\ first = word[o][next]
      BY <1>5, <1>6, <1>10, <2>2 DEF unlinked
    <3>2. \A j \in 1..n : j # i - 1
      BY <2>2
    <3> QED BY <1>6, <2>1, <2>2, <3>1, <3>2
  <2>3. CASE i # 1
    <3>1. i - 1 \in 1..n /\ i - 1 # i
      BY <1>6, <1>13, <2>3
    <3>2. PICK p : p = s[i - 1] /\ p \in Block /\ p # o /\ role[p] = "object" /\ of[p] = k
      BY <1>6, <1>13, <1>14, <3>1
    <3>3. words = Put(word, p, next, word[o][next]) /\ first = list[k]
      BY <1>5, <1>6, <1>10, <2>3, <3>2 DEF unlinked, Put
    <3>4. Written(word, words, p, next, word[o][next])
      BY <2>1, <3>2, <3>3, Cell, Fields
    <3>5. \A j \in 1..n :
            words[s[j]][next] = IF j = i - 1 THEN word[s[i]][next] ELSE word[s[j]][next]
      BY <1>6, <1>14, <3>1, <3>2, <3>4 DEF Written
    <3> QED BY <1>6, <2>1, <2>3, <3>2, <3>3, <3>4, <3>5 DEF Written
  <2> QED BY <2>2, <2>3
<1>19. /\ word' \in Words
       /\ \A x \in Block : x # o => word'[x] = words[x]
       /\ \A f \in 0..4 : word[o][f] = NULL => word'[o][f] = NULL
  BY <1>6, <1>11, <1>18, GivenBack
<1> DEFINE role2 == [x \in Block |-> IF x = o THEN "free" ELSE IF x \in lost THEN "leaked" ELSE role[x]]
           objs2 == [j \in Kind |-> IF j = k THEN Without(s, i) ELSE objs[j]]
<1>20. Untouched(ProcessRole, word, word', role, role2, of, of)
  BY <1>6, <1>17, <1>18, <1>19 DEF Untouched, ProcessRole
<1>21. ProcessLayout(word', process', role2, of, rings)
  <2>1. process' = process
    BY <1>11 DEF processes
  <2>2. ProcessLayout(word, process, role, of, rings)
    BY <1>1 DEF Layout
  <2> HIDE DEF role2
  <2> QED BY <1>20, <2>1, <2>2, ProcessFrame
<1>22. /\ DOMAIN waiting'[k] = DOMAIN waiting[k] \ {id}
       /\ \A x \in DOMAIN waiting[k] : x # id => waiting'[k][x] = waiting[k][x]
       /\ \A j \in Kind : j # k => waiting'[j] = waiting[j]
       /\ waiting' = [j \in Kind |-> waiting'[j]]
       /\ \A j \in Kind : waiting'[j] = [x \in DOMAIN waiting'[j] |-> waiting'[j][x]]
  <2>1. PICK less : less = [j \in DOMAIN waiting[k] \ {id} |-> waiting[k][j]]
    OBVIOUS
  <2>2. /\ less = [x \in DOMAIN less |-> less[x]] /\ DOMAIN less = DOMAIN waiting[k] \ {id}
        /\ \A x \in DOMAIN waiting[k] : x # id => less[x] = waiting[k][x]
    BY <2>1
  <2>3. waiting' = [j \in Kind |-> IF j = k THEN less ELSE waiting[j]]
    BY <1>2, <1>11, <2>1 DEF ObjectTypes
  <2> QED BY <1>2, <2>2, <2>3 DEF ObjectTypes
<1>23. ObjectTypes'
  <2>1. usedMap' \in SUBSET Block /\ handedOut' \in SUBSET Block /\ usedMap' \subseteq handedOut'
    BY <1>2, <1>11 DEF ObjectTypes, GiveBack
  <2>2. process' = process /\ currentPid' = currentPid
    BY <1>11 DEF processes
  <2>3. counter' = counter /\ reused' = reused
    BY <1>11
  <2>4. waiting' = [j \in Kind |-> waiting'[j]]
    BY <1>22
  <2>5. \A j \in Kind : waiting'[j] = [x \in DOMAIN waiting'[j] |-> waiting'[j][x]]
    BY <1>22
  <2>6. list' \in [Kind -> Int]
    BY <1>2, <1>11, <1>18 DEF ObjectTypes
  <2> QED BY <1>2, <1>19, <2>1, <2>2, <2>3, <2>4, <2>5, <2>6 DEF ObjectTypes
<1>24. HasList(word', list', counter', waiting', role2, of, objs2, k)
  <2>1. PICK z : z = Without(s, i)
    OBVIOUS
  <2>2. z \in Seq(Block) /\ Len(z) = n - 1
    BY <1>6, <1>13, <1>14, <2>1, SeqsOfNodes
  <2> DEFINE Old(j) == IF j < i THEN j ELSE j + 1
  <2>3. \A j \in 1..(n - 1) : Old(j) \in 1..n /\ Old(j) # i /\ z[j] = s[Old(j)]
    BY <1>6, <1>13, <2>1 DEF Without
  <2>4. \A j, m \in 1..(n - 1) : j < m => Old(j) < Old(m)
    BY <1>6, <1>13
  <2>5. \A j \in 1..n : j # i => \E m \in 1..(n - 1) : Old(m) = j
    <3> SUFFICES ASSUME NEW j \in 1..n, j # i PROVE \E m \in 1..(n - 1) : Old(m) = j
      OBVIOUS
    <3>1. CASE j < i
      <4>1. j \in 1..(n - 1)
        BY <1>6, <1>13, <3>1
      <4> QED BY <3>1, <4>1
    <3>2. CASE j > i
      <4>1. j - 1 \in 1..(n - 1) /\ ~(j - 1 < i) /\ j - 1 + 1 = j
        BY <1>6, <1>13, <3>2
      <4> QED BY <4>1
    <3> QED BY <1>6, <1>13, <3>1, <3>2
  <2>6. \A j \in 1..n : j # i => s[j] # o
    BY <1>6, <1>13, <1>14
  <2>7. Linked(word', list'[k], z)
    <3>1. list'[k] = IF i = 1 THEN word[s[1]][next] ELSE list[k]
      BY <1>2, <1>11, <1>18 DEF ObjectTypes
    <3>2. \A j \in 1..Len(s) : j # i =>
            word'[s[j]][next] = IF j = i - 1 THEN word[s[i]][next] ELSE word[s[j]][next]
      BY <1>13, <1>14, <1>18, <1>19, <2>6
    <3> QED BY <1>6, <1>14, <2>1, <3>1, <3>2, LinkedWithout
  <2>8. \A j \in 1..n : j # i => word'[s[j]][thread] = word[s[j]][thread]
    BY <1>14, <1>18, <1>19, <2>6 DEF thread, next
  <2>9. \A j \in 1..n : /\ word[s[j]][thread] \in Nat /\ word[s[j]][thread] < counter[k]
                      /\ \A m \in 1..n : j < m => word[s[j]][thread] < word[s[m]][thread]
    BY <1>5, <1>12, <1>13 DEF HasList
  <2> HIDE DEF Old
  <2>10. \A j \in 1..(n - 1) :
           /\ role2[z[j]] = "object" /\ of[z[j]] = k
           /\ word'[z[j]][thread] \in Nat /\ word'[z[j]][thread] < counter'[k]
           /\ word'[z[j]][thread] = word[s[Old(j)]][thread]
    BY <1>11, <1>14, <1>17, <2>3, <2>6, <2>8, <2>9
  <2>11. \A j, m \in 1..(n - 1) : j < m => word'[z[j]][thread] < word'[z[m]][thread]
    BY <2>3, <2>4, <2>9, <2>10
  <2>12. DOMAIN waiting'[k] = {word'[z[j]][thread] : j \in 1..(n - 1)}
    <3>1. DOMAIN waiting[k] = {word[s[j]][thread] : j \in 1..n}
      BY <1>5, <1>12, <1>13 DEF HasList
    <3>2. \A j \in 1..n : word[s[j]][thread] = id => j = i
      <4> SUFFICES ASSUME NEW j \in 1..n, word[s[j]][thread] = id PROVE j = i
        OBVIOUS
      <4>1. word[s[i]][thread] = id /\ id \in Nat
        BY <1>6, <1>13, <2>9
      <4>2. ~(j < i) /\ ~(i < j)
        BY <1>6, <1>13, <2>9, <4>1
      <4> QED BY <1>6, <1>13, <4>2
    <3>3. \A x \in DOMAIN waiting'[k] : \E j \in 1..(n - 1) : word'[z[j]][thread] = x
      <4> SUFFICES ASSUME NEW x \in DOMAIN waiting[k], x # id
                   PROVE  \E j \in 1..(n - 1) : word'[z[j]][thread] = x
        BY <1>22
      <4>1. PICK j \in 1..n : word[s[j]][thread] = x
        BY <3>1
      <4>2. j # i
        BY <1>6, <4>1
      <4>3. PICK m \in 1..(n - 1) : Old(m) = j
        BY <2>5, <4>2
      <4> QED BY <2>10, <4>1, <4>3
    <3>4. \A j \in 1..(n - 1) : word'[z[j]][thread] \in DOMAIN waiting'[k]
      <4> SUFFICES ASSUME NEW j \in 1..(n - 1) PROVE word'[z[j]][thread] \in DOMAIN waiting'[k]
        OBVIOUS
      <4>1. Old(j) \in 1..n /\ Old(j) # i
        BY <2>3
      <4>2. word[s[Old(j)]][thread] \in DOMAIN waiting[k] /\ word[s[Old(j)]][thread] # id
        BY <3>1, <3>2, <4>1
      <4> QED BY <1>22, <2>10, <4>2
    <3> QED BY <3>3, <3>4
  <2>13. objs2[k] = z
    BY <2>1
  <2> HIDE DEF role2, objs2
  <2> QED BY <2>2, <2>7, <2>10, <2>11, <2>12, <2>13 DEF HasList
<1>25. ASSUME NEW j \in Kind, j # k
       PROVE  HasList(word', list', counter', waiting', role2, of, objs2, j)
  <2>1. HasList(word, list, counter, waiting, role, of, objs, j) /\ counter[j] \in Nat
    BY <1>1, <1>2 DEF Layout, ObjectLayout, ObjectTypes
  <2>2. \A x \in Block : role[x] = "object" /\ of[x] = j =>
          /\ role2[x] = "object" /\ of[x] = j
          /\ word'[x][next] = word[x][next] /\ word'[x][thread] = word[x][thread]
    BY <1>6, <1>17, <1>18, <1>19, <1>25
  <2>3. /\ list'[j] = list[j] /\ counter'[j] = counter[j] /\ objs2[j] = objs[j]
        /\ DOMAIN waiting'[j] = DOMAIN waiting[j]
    BY <1>2, <1>11, <1>22, <1>25 DEF ObjectTypes
  <2> HIDE DEF role2, objs2
  <2> QED BY <2>1, <2>2, <2>3, ListFrame
<1>26. ASSUME NEW x \in Block, role2[x] = "object"
       PROVE  /\ of[x] \in Kind /\ \E j \in 1..Len(objs2[of[x]]) : objs2[of[x]][j] = x
              /\ HasQueue(word', waiting', role2, of, queue, x)
  <2>1. role[x] = "object" /\ x # o
    BY <1>17, <1>26
  <2>2. /\ of[x] \in Kind /\ \E j \in 1..Len(objs[of[x]]) : objs[of[x]][j] = x
        /\ HasQueue(word, waiting, role, of, queue, x)
    BY <1>1, <2>1 DEF Layout, ObjectLayout, BelongsToObject
  <2>3. \E j \in 1..Len(objs2[of[x]]) : objs2[of[x]][j] = x
    <3>1. CASE of[x] # k
      BY <2>2, <3>1
    <3>2. CASE of[x] = k
      <4>1. PICK j \in 1..n : s[j] = x /\ j # i
        BY <1>5, <1>6, <1>13, <2>1, <2>2, <3>2
      <4>2. Len(Without(s, i)) = n - 1
        BY <1>6, <1>13, <1>14, SeqsOfNodes
      <4>3. CASE j < i
        <5>1. j \in 1..(n - 1) /\ Without(s, i)[j] = x
          BY <1>6, <1>13, <4>1, <4>3 DEF Without
        <5> QED BY <3>2, <4>2, <5>1
      <4>4. CASE j > i
        <5>1. j - 1 \in 1..(n - 1) /\ ~(j - 1 < i) /\ j - 1 + 1 = j
          BY <1>6, <1>13, <4>4
        <5>2. Without(s, i)[j - 1] = x
          BY <1>13, <4>1, <5>1 DEF Without
        <5> QED BY <3>2, <4>2, <5>1, <5>2
      <4> QED BY <1>6, <1>13, <4>1, <4>3, <4>4
    <3> QED BY <3>1, <3>2
  <2>4. word'[x][blockedThreadList] = word[x][blockedThreadList] /\ word'[x][thread] = word[x][thread]
    BY <1>18, <1>19, <2>1 DEF blockedThreadList, thread, next
  <2>5. waiting'[of[x]][word[x][thread]] = waiting[of[x]][word[x][thread]]
    <3>1. word[x][thread] \in DOMAIN waiting[of[x]]
      BY <1>1, <2>1, ObjectIds
    <3>2. of[x] # k \/ word[x][thread] # id
      BY <1>1, <1>2, <1>6, <2>1, OneIdentifierEach
    <3> QED BY <1>22, <2>2, <3>1, <3>2
  <2>6. \A y \in Block : role[y] = "waiter" /\ of[y] = x =>
          role2[y] = "waiter" /\ of[y] = x /\ word'[y][next] = word[y][next]
    <3>1. \A y \in Block : role[y] = "waiter" /\ of[y] = x => y \notin lost /\ y # o
      BY <1>6, <1>17, <2>1
    <3> QED BY <1>18, <1>19, <3>1
  <2>7. HasQueue(word', waiting', role2, of, queue, x)
    <3> HIDE DEF role2
    <3> QED BY <2>2, <2>4, <2>5, <2>6, QueueFrame
  <2> HIDE DEF role2, objs2
  <2> QED BY <2>2, <2>3, <2>7
<1>27. ASSUME NEW x \in Block, role2[x] = "waiter"
       PROVE  /\ of[x] \in Block /\ role2[of[x]] = "object"
              /\ \E j \in 1..Len(queue[of[x]]) : queue[of[x]][j] = x
  <2>1. role[x] = "waiter" /\ x \notin lost
    BY <1>27
  <2>2. /\ of[x] \in Block /\ role[of[x]] = "object"
        /\ \E j \in 1..Len(queue[of[x]]) : queue[of[x]][j] = x
    BY <1>1, <2>1 DEF Layout, ObjectLayout, BelongsToObject
  <2>3. of[x] # o
    BY <1>7, <1>16, <2>1, <2>2
  <2>4. role2[of[x]] = "object"
    BY <1>17, <2>2, <2>3
  <2> QED BY <2>2, <2>4
<1>28. ObjectLayout(word', list', counter', waiting', role2, of, objs2, queue)
  <2> HIDE DEF role2, objs2
  <2> QED BY <1>24, <1>25, <1>26, <1>27 DEF ObjectLayout, BelongsToObject
<1>29. bequeathed' = {} => Clean(word', role2)
  <2> SUFFICES ASSUME bequeathed' = {}, NEW x \in Block
               PROVE  /\ role2[x] \in {"free", "waiter", "object"} => word'[x][currentThread] = NULL
                      /\ role2[x] \in {"free", "waiter"} => word'[x][blockedThreadList] = NULL
                      /\ role2[x] = "free" => word'[x][next] = NULL
    BY DEF Clean
  <2>1. bequeathed = {} /\ ~(i < n) /\ ~(Len(q) > 0)
    BY <1>11, <1>13, <1>15
  <2>2. Clean(word, role)
    BY <1>1, <2>1 DEF Layout
  <2>3. CASE x = o
    <3>1. i = n /\ n + 1 \notin 1..n
      BY <1>6, <1>13, <2>1
    <3>2. word[o][next] = NULL
      BY <1>6, <1>13, <1>14, <3>1 DEF Linked, NodeAt
    <3>3. word[o][blockedThreadList] = NULL
      <4>1. Len(q) \in Nat
        BY <1>15
      <4>2. 1 \notin 1..Len(q)
        BY <2>1, <4>1
      <4> QED BY <1>15, <4>2 DEF Linked, NodeAt
    <3>4. word[o][currentThread] = NULL
      BY <1>6, <2>2 DEF Clean
    <3> QED BY <1>19, <2>3, <3>2, <3>3, <3>4, Fields
  <2>4. CASE x # o
    BY <1>18, <1>19, <2>2, <2>4 DEF Clean, currentThread, blockedThreadList, next
  <2> QED BY <2>3, <2>4
<1>30. ~reused' => InOrder(word', handedOut', role2)
  <2> SUFFICES ASSUME ~reused' PROVE InOrder(word', handedOut', role2)
    OBVIOUS
  <2>1. InOrder(word, handedOut, role) /\ ProcessLayout(word, process, role, of, rings)
    BY <1>1, <1>11 DEF Layout
  <2>2. IsSegment(handedOut')
    BY <1>11, <2>1 DEF InOrder, IsSegment
  <2> HIDE DEF role2
  <2> QED BY <1>20, <2>1, <2>2, InOrderFrame
<1>31. role2 \in [Block -> Role]
  BY <1>1 DEF Layout, Role
<1>32. usedMap' = {x \in Block : role2[x] # "free"} /\ leaked' = {x \in Block : role2[x] = "leaked"}
  BY <1>1, <1>6, <1>11, <1>17 DEF Layout, GiveBack
<1>33. kernel' # "stale"
  BY <1>11
<1> HIDE DEF role2, objs2
<1> QED BY <1>21, <1>23, <1>28, <1>29, <1>30, <1>31, <1>32, <1>33, NextPages

(***************************************************************************)
(* Processes and threads.                                                  *)
(***************************************************************************)
LEMMA ThreadFrame ==
  ASSUME NEW words, NEW words2, NEW role, NEW role2, NEW of, NEW of2, NEW b,
         HasThread(words, role, of, b),
         words2[b][thread] = words[b][thread],
         \A x \in Block : role[x] \in {"thread", "stack"} /\ of[x] = b =>
           /\ role2[x] = role[x] /\ of2[x] = b
           /\ words2[x][baseStack] = words[x][baseStack]
  PROVE  HasThread(words2, role2, of2, b) /\ StackAt(words2, b) = StackAt(words, b)
<1>1. PICK t : t = words[b][thread] /\ t = words2[b][thread]
  OBVIOUS
<1>2. t \in Block /\ role[t] = "thread" /\ of[t] = b
  BY <1>1 DEF HasThread
<1>3. role2[t] = "thread" /\ of2[t] = b /\ words2[t][baseStack] = words[t][baseStack]
  BY <1>2
<1>4. StackAt(words2, b) = StackAt(words, b)
  BY <1>1, <1>3 DEF StackAt
<1>5. \A x \in StackAt(words, b) : x \in Block /\ role2[x] = "stack" /\ of2[x] = b
  BY DEF HasThread
<1> QED BY <1>1, <1>2, <1>3, <1>4, <1>5 DEF HasThread

\* A process that a step leaves alone.
LEMMA RingFrame ==
  ASSUME NEW words, NEW words2, NEW procs, NEW procs2, NEW role, NEW role2, NEW of, NEW of2,
         NEW rings, NEW rings2, NEW pid,
         HasOwn(procs, role, of, pid), HasRing(words, procs, role, of, rings, pid),
         procs2[pid] = procs[pid], rings2[pid] = rings[pid],
         \A x \in Block : role[x] \in {"page", "slot", "name", "library"} /\ of[x] = pid =>
           /\ role2[x] = role[x] /\ of2[x] = pid
           /\ words2[x][next] = words[x][next]
           /\ words2[x][threadLibrary] = words[x][threadLibrary]
           /\ words2[x][currentThread] = words[x][currentThread]
  PROVE  HasOwn(procs2, role2, of2, pid) /\ HasRing(words2, procs2, role2, of2, rings2, pid)
<1>1. PICK own : own = procs[pid] /\ own = procs2[pid]
  OBVIOUS
<1>2. PICK ring : ring = rings[pid] /\ ring = rings2[pid]
  OBVIOUS
<1>3. PICK n : n = own.currentPThread /\ n \in Nat \ {0}
  BY <1>1, OwnFields DEF HasOwn
<1>4. HasOwn(procs2, role2, of2, pid)
  <2>1. own.page \in Block /\ own.slot \in Block /\ own.name \in Block
    BY <1>1, OwnFields DEF HasOwn
  <2> QED BY <1>1, <2>1 DEF HasOwn
<1>5. own.page \in Block /\ role[own.page] = "page" /\ of[own.page] = pid
  BY <1>1, OwnFields DEF HasOwn
<1>6. /\ ring \in [1..n -> Block]
      /\ \A i \in 1..n : role[ring[i]] = "library" /\ of[ring[i]] = pid
      /\ \A i, j \in 1..n : ring[i] = ring[j] => i = j
      /\ \A i \in 2..n : words[ring[i - 1]][next] = ring[i]
      /\ words[ring[n]][next] = ring[1]
      /\ words[own.page][threadLibrary] = ring[1] /\ words[own.page][currentThread] # NULL
  BY <1>1, <1>2, <1>3 DEF HasRing
<1>7. \A i \in 1..n : /\ role2[ring[i]] = "library" /\ of2[ring[i]] = pid
                      /\ words2[ring[i]][next] = words[ring[i]][next]
  BY <1>6
<1>8. \A i \in 2..n : i - 1 \in 1..n
  BY <1>3
<1>9. n \in 1..n
  BY <1>3
<1>10. \A i \in 2..n : words2[ring[i - 1]][next] = ring[i]
  BY <1>6, <1>7, <1>8
<1>11. words2[ring[n]][next] = ring[1]
  BY <1>6, <1>7, <1>9
<1>12. words2[own.page][threadLibrary] = ring[1] /\ words2[own.page][currentThread] # NULL
  BY <1>5, <1>6
<1>13. /\ ring \in [1..n -> Block]
       /\ \A i \in 1..n : role2[ring[i]] = "library" /\ of2[ring[i]] = pid
       /\ \A i, j \in 1..n : ring[i] = ring[j] => i = j
  BY <1>6, <1>7
<1>14. HasRing(words2, procs2, role2, of2, rings2, pid)
  BY <1>1, <1>2, <1>3, <1>10, <1>11, <1>12, <1>13 DEF HasRing
<1> QED BY <1>4, <1>14

\* What was there before a thread is created stays.
Grows(words, words2, procs, procs2, role, role2, of, of2, rings, rings2) ==
  /\ \A x \in Block : role[x] # "free" =>
       /\ role2[x] = role[x] /\ of2[x] = of[x]
       /\ \A f \in 0..4 : f # next => words2[x][f] = words[x][f]
  /\ \A pid \in DOMAIN procs :
       /\ pid \in DOMAIN procs2
       /\ procs2[pid].page = procs[pid].page /\ procs2[pid].slot = procs[pid].slot
       /\ procs2[pid].name = procs[pid].name
       /\ \A i \in 1..procs[pid].currentPThread :
            \E j \in 1..procs2[pid].currentPThread : rings2[pid][j] = rings[pid][i]

LEMMA GrowsOwners ==
  ASSUME NEW words, NEW words2, NEW procs, NEW procs2, NEW role, NEW role2, NEW of, NEW of2,
         NEW rings, NEW rings2,
         Grows(words, words2, procs, procs2, role, role2, of, of2, rings, rings2),
         \A x \in Block : BelongsToProcess(words, procs, role, of, rings, x),
         NEW b \in Block, role[b] # "free"
  PROVE  BelongsToProcess(words2, procs2, role2, of2, rings2, b)
<1> USE Fields
<1>1. BelongsToProcess(words, procs, role, of, rings, b) /\ role2[b] = role[b] /\ of2[b] = of[b]
  BY DEF Grows
<1>2. \A x \in Block : role[x] # "free" =>
        /\ role2[x] = role[x] /\ of2[x] = of[x]
        /\ words2[x][thread] = words[x][thread] /\ words2[x][baseStack] = words[x][baseStack]
  BY DEF Grows, thread, next, baseStack
<1>3. ASSUME NEW l \in Block, role[l] = "library"
      PROVE  HasThread(words2, role2, of2, l) /\ StackAt(words2, l) = StackAt(words, l)
  <2>1. HasThread(words, role, of, l)
    BY <1>3 DEF BelongsToProcess
  <2> QED BY <1>2, <1>3, <2>1, ThreadFrame
<1>4. role[b] \in {"page", "slot", "name"} => BelongsToProcess(words2, procs2, role2, of2, rings2, b)
  BY <1>1 DEF BelongsToProcess, Grows
<1>5. CASE role[b] = "library"
  <2>1. of[b] \in DOMAIN procs /\ \E i \in 1..procs[of[b]].currentPThread : rings[of[b]][i] = b
    BY <1>1, <1>5 DEF BelongsToProcess
  <2>2. of[b] \in DOMAIN procs2 /\ \E i \in 1..procs2[of[b]].currentPThread : rings2[of[b]][i] = b
    BY <2>1 DEF Grows
  <2> QED BY <1>1, <1>3, <1>5, <2>2 DEF BelongsToProcess
<1>6. CASE role[b] = "thread"
  <2>1. of[b] \in Block /\ role[of[b]] = "library" /\ words[of[b]][thread] = b
    BY <1>1, <1>6 DEF BelongsToProcess
  <2>2. role2[of[b]] = "library" /\ words2[of[b]][thread] = b
    BY <1>2, <2>1
  <2> QED BY <1>1, <1>6, <2>1, <2>2 DEF BelongsToProcess
<1>7. CASE role[b] = "stack"
  <2>1. of[b] \in Block /\ role[of[b]] = "library" /\ b \in StackAt(words, of[b])
    BY <1>1, <1>7 DEF BelongsToProcess
  <2>2. role2[of[b]] = "library" /\ b \in StackAt(words2, of[b])
    BY <1>2, <1>3, <2>1
  <2> QED BY <1>1, <1>7, <2>1, <2>2 DEF BelongsToProcess
<1>8. CASE role[b] \notin ProcessRole
  BY <1>1, <1>8 DEF BelongsToProcess, ProcessRole
<1> QED BY <1>4, <1>5, <1>6, <1>7, <1>8 DEF ProcessRole

\* A thread that was created.
NewThread(words, procs, role, of, rings, pid, t, stack, library) ==
  /\ t \in Block /\ library \in Block /\ Run(stack, NUMBER_OF_PAGES) \subseteq Block
  /\ words[library][thread] = t /\ words[t][baseStack] = stack
  /\ role[library] = "library" /\ of[library] = pid
  /\ role[t] = "thread" /\ of[t] = library
  /\ \A x \in Run(stack, NUMBER_OF_PAGES) : role[x] = "stack" /\ of[x] = library
  /\ pid \in DOMAIN procs /\ \E i \in 1..procs[pid].currentPThread : rings[pid][i] = library

LEMMA NewThreadOwners ==
  ASSUME NEW words, NEW procs, NEW role, NEW of, NEW rings, NEW pid, NEW t, NEW stack, NEW library,
         NewThread(words, procs, role, of, rings, pid, t, stack, library)
  PROVE  /\ BelongsToProcess(words, procs, role, of, rings, library)
         /\ BelongsToProcess(words, procs, role, of, rings, t)
         /\ \A x \in Run(stack, NUMBER_OF_PAGES) :
              BelongsToProcess(words, procs, role, of, rings, x)
<1>1. StackAt(words, library) = Run(stack, NUMBER_OF_PAGES)
  BY DEF NewThread, StackAt
<1>2. HasThread(words, role, of, library)
  BY <1>1 DEF HasThread, NewThread
<1>3. BelongsToProcess(words, procs, role, of, rings, library)
  BY <1>2 DEF BelongsToProcess, NewThread
<1>4. BelongsToProcess(words, procs, role, of, rings, t)
  BY DEF BelongsToProcess, NewThread
<1>5. \A x \in Run(stack, NUMBER_OF_PAGES) : BelongsToProcess(words, procs, role, of, rings, x)
  BY <1>1 DEF BelongsToProcess, NewThread
<1> QED BY <1>3, <1>4, <1>5

\* What goes when a process is reaped.
Reaped(role, of, pid) ==
  {x \in Block :
     \/ role[x] \in {"page", "slot", "library"} /\ of[x] = pid
     \/ role[x] \in {"thread", "stack"} /\ of[of[x]] = pid}

LEMMA ReapedIs ==
  ASSUME NEW role, NEW of, NEW rings, NEW objs, NEW queue, Layout(role, of, rings, objs, queue),
         NEW pid \in DOMAIN process,
         NEW freed, freed = freeThreadLibrary(pid) \cup {process[pid].page, process[pid].slot}
  PROVE  /\ freed \subseteq Reaped(role, of, pid)
         /\ TkilledPages(pid) = Reaped(role, of, pid) \ freed
<1>1. PICK ring, n, s, t : /\ ring = rings[pid] /\ n = process[pid].currentPThread
                           /\ s = process[pid].threadSize /\ t = process[pid].tkilled
  OBVIOUS
<1>2. /\ HasOwn(process, role, of, pid) /\ HasRing(word, process, role, of, rings, pid)
      /\ \A x \in Block : BelongsToProcess(word, process, role, of, rings, x)
  BY DEF Layout, ProcessLayout
<1>3. Library(pid) = ring
  BY <1>1, Walks
<1>4. /\ DOMAIN ring = 1..n
      /\ \A i \in 1..n : ring[i] \in Block /\ role[ring[i]] = "library" /\ of[ring[i]] = pid
      /\ \A i, j \in 1..n : ring[i] = ring[j] => i = j
  BY <1>1, <1>2 DEF HasRing
<1>5. n \in Nat /\ t \in Nat /\ s = n - t
  BY <1>1, <1>2, OwnFields DEF HasOwn
<1>6. PICK pages : pages = [i \in 1..n |-> {ring[i], word[ring[i]][thread]} \cup StackAt(word, ring[i])]
  OBVIOUS
<1>7. \A i \in 1..n : ThreadPages(ring[i]) = pages[i]
  BY <1>6 DEF ThreadPages, StackOf, StackAt
<1>8. 1..s \subseteq 1..n
  BY <1>5
<1>9. freeThreadLibrary(pid) = UNION {pages[i] : i \in 1..s}
  <2>1. {ThreadPages(ring[i]) : i \in 1..s} = {pages[i] : i \in 1..s}
    BY <1>7, <1>8
  <2> QED BY <1>1, <1>3, <2>1 DEF freeThreadLibrary
<1>10. TkilledPages(pid) = UNION {pages[i] : i \in {k \in 1..n : k > s}}
  <2>1. {ThreadPages(ring[i]) : i \in {k \in 1..n : k > s}} = {pages[i] : i \in {k \in 1..n : k > s}}
    BY <1>7
  <2>2. TkilledPages(pid) = UNION {ThreadPages(ring[i]) : i \in {k \in 1..n : k > n - t}}
    BY <1>1, <1>3, <1>4 DEF TkilledPages
  <2> QED BY <1>5, <2>1, <2>2
<1>11. ASSUME NEW i \in 1..n, NEW x \in pages[i]
       PROVE  /\ x \in Reaped(role, of, pid) /\ role[x] \in {"library", "thread", "stack"}
              /\ (IF role[x] = "library" THEN x ELSE of[x]) = ring[i]
  <2>1. HasThread(word, role, of, ring[i])
    BY <1>2, <1>4 DEF BelongsToProcess
  <2>2. x \in {ring[i], word[ring[i]][thread]} \cup StackAt(word, ring[i])
    BY <1>6, <1>11
  <2>3. CASE x = ring[i]
    BY <1>4, <2>3 DEF Reaped
  <2>4. CASE x = word[ring[i]][thread]
    BY <1>4, <2>1, <2>4 DEF HasThread, Reaped
  <2>5. CASE x \in StackAt(word, ring[i])
    BY <1>4, <2>1, <2>5 DEF HasThread, Reaped
  <2> QED BY <2>2, <2>3, <2>4, <2>5
<1>12. process[pid].page \in Block /\ role[process[pid].page] = "page" /\ of[process[pid].page] = pid
       /\ process[pid].slot \in Block /\ role[process[pid].slot] = "slot" /\ of[process[pid].slot] = pid
  BY <1>2, OwnFields DEF HasOwn
<1>13. freed \subseteq Reaped(role, of, pid)
  BY <1>8, <1>9, <1>11, <1>12 DEF Reaped
<1>14. ASSUME NEW x \in Reaped(role, of, pid), x \notin {process[pid].page, process[pid].slot}
       PROVE  \E i \in 1..n : x \in pages[i]
  <2>1. BelongsToProcess(word, process, role, of, rings, x) /\ x \in Block
    BY <1>2 DEF Reaped
  <2>2. role[x] \notin {"page", "slot"}
    BY <1>14, <2>1 DEF BelongsToProcess, Reaped
  <2>3. ASSUME NEW b \in Block, role[b] = "library", of[b] = pid
        PROVE  \E i \in 1..n : ring[i] = b
    <3>1. BelongsToProcess(word, process, role, of, rings, b)
      BY <1>2
    <3> QED BY <1>1, <2>3, <3>1 DEF BelongsToProcess
  <2>4. CASE role[x] = "library"
    <3>1. of[x] = pid
      BY <2>4 DEF Reaped
    <3>2. PICK i \in 1..n : ring[i] = x
      BY <2>1, <2>3, <2>4, <3>1
    <3> QED BY <1>6, <3>2
  <2>5. CASE role[x] \in {"thread", "stack"}
    <3>1. of[of[x]] = pid
      BY <2>5 DEF Reaped
    <3>2. of[x] \in Block /\ role[of[x]] = "library"
      BY <2>1, <2>5 DEF BelongsToProcess
    <3>3. PICK i \in 1..n : ring[i] = of[x]
      BY <2>3, <3>1, <3>2
    <3>4. x = word[ring[i]][thread] \/ x \in StackAt(word, ring[i])
      BY <2>1, <2>5, <3>3 DEF BelongsToProcess
    <3> QED BY <1>6, <3>4
  <2> QED BY <2>2, <2>4, <2>5 DEF Reaped
<1>15. ASSUME NEW x \in TkilledPages(pid)
       PROVE  x \in Reaped(role, of, pid) /\ x \notin freed
  <2>1. PICK i \in 1..n : i > s /\ x \in pages[i]
    BY <1>10
  <2>2. /\ x \in Reaped(role, of, pid) /\ role[x] \in {"library", "thread", "stack"}
        /\ (IF role[x] = "library" THEN x ELSE of[x]) = ring[i]
    BY <1>11, <2>1
  <2>3. ASSUME NEW j \in 1..s, x \in pages[j] PROVE FALSE
    <3>1. j \in 1..n /\ j # i
      BY <1>5, <1>8, <2>1
    <3>2. (IF role[x] = "library" THEN x ELSE of[x]) = ring[j]
      BY <1>11, <2>3, <3>1
    <3> QED BY <1>4, <2>2, <3>1, <3>2
  <2> QED BY <1>9, <1>12, <2>2, <2>3
<1>16. ASSUME NEW x \in Reaped(role, of, pid), x \notin freed
       PROVE  x \in TkilledPages(pid)
  <2>1. PICK i \in 1..n : x \in pages[i]
    BY <1>14, <1>16
  <2>2. i \notin 1..s
    BY <1>9, <1>16, <2>1
  <2>3. i > s
    BY <1>5, <2>2
  <2> QED BY <1>10, <2>1, <2>3
<1> QED BY <1>13, <1>15, <1>16

\* The pages a new thread gets.
ForThread(t, stack, library, used) ==
  /\ t \in Block \ used /\ library \in Block \ used /\ stack \in Int
  /\ Run(stack, NUMBER_OF_PAGES) \subseteq Block \ used
  /\ t # library /\ {t, library} \cap Run(stack, NUMBER_OF_PAGES) = {}

\* What the other history of the pages is like after a step that hands out some.
HandsOut(new, t, stack) ==
  /\ usedMap' = usedMap \cup new /\ handedOut' = handedOut \cup new
  /\ reused' \in BOOLEAN
  /\ ~reused' => ~reused /\ (IsSegment(handedOut) => IsSegment(handedOut') /\ stack = t + 1)

LEMMA ThreadSizes ==
  ASSUME NUMBER_OF_PAGES \in Nat \ {0}, NEW sizes, sizes = threadSizes
  PROVE  /\ sizes \in Seq(Nat \ {0}) /\ Len(sizes) = 3 /\ 1..Len(sizes) = {1, 2, 3}
         /\ sizes[1] = 1 /\ sizes[2] = NUMBER_OF_PAGES /\ sizes[3] = 1
<1>1. sizes = <<1, NUMBER_OF_PAGES, 1>>
  BY DEF threadSizes
<1>2. Len(sizes) = 3 /\ 1..3 = {1, 2, 3}
  BY <1>1
<1> QED BY <1>1, <1>2

LEMMA ProcessSizes ==
  ASSUME NUMBER_OF_PAGES \in Nat \ {0}, NEW sizes, sizes = <<1, 1, 1>> \o threadSizes
  PROVE  /\ sizes \in Seq(Nat \ {0}) /\ Len(sizes) = 6 /\ 1..Len(sizes) = {1, 2, 3, 4, 5, 6}
         /\ sizes[1] = 1 /\ sizes[2] = 1 /\ sizes[3] = 1
         /\ sizes[4] = 1 /\ sizes[5] = NUMBER_OF_PAGES /\ sizes[6] = 1
<1>1. PICK p, q : p = <<1, 1, 1>> /\ q = <<1, NUMBER_OF_PAGES, 1>>
  OBVIOUS
<1>2. /\ p \in Seq(Nat \ {0}) /\ Len(p) = 3 /\ p[1] = 1 /\ p[2] = 1 /\ p[3] = 1
      /\ q \in Seq(Nat \ {0}) /\ Len(q) = 3 /\ q[1] = 1 /\ q[2] = NUMBER_OF_PAGES /\ q[3] = 1
  BY <1>1
<1>3. sizes = p \o q
  BY <1>1 DEF threadSizes
<1>4. /\ sizes \in Seq(Nat \ {0}) /\ Len(sizes) = 3 + 3
      /\ \A i \in 1..(3 + 3) : sizes[i] = IF i <= 3 THEN p[i] ELSE q[i - 3]
  <2>1. PICK V : V = Nat \ {0}
    OBVIOUS
  <2>2. p \in Seq(V) /\ q \in Seq(V)
    BY <1>2, <2>1
  <2>3. /\ p \o q \in Seq(V) /\ Len(p \o q) = Len(p) + Len(q)
        /\ \A i \in 1..(Len(p) + Len(q)) : (p \o q)[i] = IF i <= Len(p) THEN p[i] ELSE q[i - Len(p)]
    BY <2>2, ConcatProperties
  <2> QED BY <1>2, <1>3, <2>1, <2>3
<1>5. 3 + 3 = 6 /\ 1..6 = {1, 2, 3, 4, 5, 6}
  OBVIOUS
<1>6. /\ sizes[1] = 1 /\ sizes[2] = 1 /\ sizes[3] = 1
      /\ sizes[4] = 1 /\ sizes[5] = NUMBER_OF_PAGES /\ sizes[6] = 1
  BY <1>2, <1>4
<1> QED BY <1>4, <1>5, <1>6

LEMMA PagesOfThread ==
  ASSUME NUMBER_OF_PAGES \in Nat \ {0}, ObjectTypes,
         NEW got, got = allocate(threadSizes), Reserve(got, threadSizes)
  PROVE  /\ ForThread(got[1], got[2], got[3], usedMap)
         /\ HandsOut({got[1], got[3]} \cup Run(got[2], NUMBER_OF_PAGES), got[1], got[2])
<1>1. PICK sizes : sizes = threadSizes
  OBVIOUS
<1>2. /\ sizes \in Seq(Nat \ {0}) /\ Len(sizes) = 3 /\ 1..Len(sizes) = {1, 2, 3}
      /\ sizes[1] = 1 /\ sizes[2] = NUMBER_OF_PAGES /\ sizes[3] = 1
  BY <1>1, ThreadSizes
<1>3. Reserved(sizes, got, usedMap, usedMap', handedOut, handedOut', reused, reused')
  BY <1>1, <1>2, ReserveIs DEF ObjectTypes
<1>4. \A k \in {1, 2, 3} :
        /\ got[k] \in Block /\ got[k] \in Run(got[k], sizes[k])
        /\ Run(got[k], sizes[k]) \subseteq Block \ usedMap
        /\ \A j \in {1, 2, 3} : j # k => Run(got[j], sizes[j]) \cap Run(got[k], sizes[k]) = {}
  BY <1>2, <1>3 DEF Reserved
<1>5. got[1] \in Int /\ got[2] \in Int /\ got[3] \in Int
  BY <1>4, Fields
<1>6. Run(got[1], 1) = {got[1]} /\ Run(got[3], 1) = {got[3]}
  BY <1>5, RunOfOne
<1>7. Taken(sizes, got, 3) = {got[1], got[3]} \cup Run(got[2], NUMBER_OF_PAGES)
  <2>1. Taken(sizes, got, 3) = UNION {Run(got[j], sizes[j]) : j \in {1, 2, 3}}
    BY <1>2 DEF Taken
  <2> QED BY <1>2, <1>6, <2>1
<1>8. ForThread(got[1], got[2], got[3], usedMap)
  BY <1>2, <1>4, <1>5, <1>6 DEF ForThread
<1>9. /\ usedMap' = usedMap \cup Taken(sizes, got, 3)
      /\ handedOut' = handedOut \cup Taken(sizes, got, 3)
      /\ reused' \in BOOLEAN /\ (~reused' => ~reused)
  BY <1>2, <1>3 DEF Reserved
<1>10. ~reused' /\ IsSegment(handedOut) => IsSegment(handedOut') /\ got[2] = got[1] + 1
  <2>1. 2 \in 2..3 /\ 2 - 1 = 1
    OBVIOUS
  <2> QED BY <1>2, <1>3, <2>1 DEF Reserved
<1> QED BY <1>7, <1>8, <1>9, <1>10 DEF HandsOut

LEMMA PagesOfProcess ==
  ASSUME NUMBER_OF_PAGES \in Nat \ {0}, ObjectTypes, NEW sizes, sizes = <<1, 1, 1>> \o threadSizes,
         NEW got, got = allocate(sizes), Reserve(got, sizes)
  PROVE  /\ ForThread(got[4], got[5], got[6], usedMap \cup {got[1], got[2], got[3]})
         /\ {got[1], got[2], got[3]} \subseteq Block \ usedMap
         /\ got[1] # got[2] /\ got[1] # got[3] /\ got[2] # got[3]
         /\ HandsOut({got[1], got[2], got[3], got[4], got[6]} \cup Run(got[5], NUMBER_OF_PAGES),
                     got[4], got[5])
<1>2. /\ sizes \in Seq(Nat \ {0}) /\ Len(sizes) = 6 /\ 1..Len(sizes) = {1, 2, 3, 4, 5, 6}
      /\ sizes[1] = 1 /\ sizes[2] = 1 /\ sizes[3] = 1
      /\ sizes[4] = 1 /\ sizes[5] = NUMBER_OF_PAGES /\ sizes[6] = 1
  BY ProcessSizes
<1>3. Reserved(sizes, got, usedMap, usedMap', handedOut, handedOut', reused, reused')
  BY <1>2, ReserveIs DEF ObjectTypes
<1> DEFINE R(k) == Run(got[k], sizes[k])
<1>4. \A k \in {1, 2, 3, 4, 5, 6} :
        /\ got[k] \in Block /\ got[k] \in R(k) /\ R(k) \subseteq Block \ usedMap
        /\ \A j \in {1, 2, 3, 4, 5, 6} : j # k => R(j) \cap R(k) = {}
  <2>1. \A k \in 1..Len(sizes) :
          /\ got[k] \in Block /\ got[k] \in R(k) /\ R(k) \subseteq Block \ usedMap
          /\ \A j \in 1..Len(sizes) : j # k => R(j) \cap R(k) = {}
    BY <1>3, Zenon DEF Reserved
  <2> HIDE DEF R
  <2> QED BY <1>2, <2>1
<1> HIDE DEF R
<1>5. \A k \in {1, 2, 3, 4, 5, 6} : got[k] \in Int
  <2> SUFFICES ASSUME NEW k \in {1, 2, 3, 4, 5, 6} PROVE got[k] \in Int
    OBVIOUS
  <2>1. got[k] \in Block
    BY <1>4
  <2> QED BY <2>1, Fields
<1>6. \A k \in {1, 2, 3, 4, 6} : Run(got[k], sizes[k]) = {got[k]}
  <2> SUFFICES ASSUME NEW k \in {1, 2, 3, 4, 6} PROVE Run(got[k], sizes[k]) = {got[k]}
    OBVIOUS
  <2>1. sizes[k] = 1 /\ got[k] \in Int
    BY <1>2, <1>5
  <2> QED BY <2>1, RunOfOne
<1>7. Taken(sizes, got, 6) =
        {got[1], got[2], got[3], got[4], got[6]} \cup Run(got[5], NUMBER_OF_PAGES)
  <2>1. Taken(sizes, got, 6) = UNION {Run(got[j], sizes[j]) : j \in {1, 2, 3, 4, 5, 6}}
    BY <1>2 DEF Taken
  <2>2. /\ Run(got[1], sizes[1]) = {got[1]} /\ Run(got[2], sizes[2]) = {got[2]}
        /\ Run(got[3], sizes[3]) = {got[3]} /\ Run(got[4], sizes[4]) = {got[4]}
        /\ Run(got[5], sizes[5]) = Run(got[5], NUMBER_OF_PAGES) /\ Run(got[6], sizes[6]) = {got[6]}
    BY <1>2, <1>6
  <2>3. UNION {Run(got[j], sizes[j]) : j \in {1, 2, 3, 4, 5, 6}} =
          Run(got[1], sizes[1]) \cup Run(got[2], sizes[2]) \cup Run(got[3], sizes[3])
            \cup Run(got[4], sizes[4]) \cup Run(got[5], sizes[5]) \cup Run(got[6], sizes[6])
    <3>1. UNION {R(j) : j \in {1, 2, 3, 4, 5, 6}} =
            R(1) \cup R(2) \cup R(3) \cup R(4) \cup R(5) \cup R(6)
      BY Zenon
    <3> QED BY <3>1 DEF R
  <2> QED BY <2>1, <2>2, <2>3
<1>8. ASSUME NEW k \in {1, 2, 3, 4, 6}
      PROVE  got[k] \notin usedMap /\ got[k] \notin Run(got[5], NUMBER_OF_PAGES)
  <2>1. k \in {1, 2, 3, 4, 5, 6} /\ k # 5
    OBVIOUS
  <2>2. got[k] \in R(k) /\ R(k) \subseteq Block \ usedMap /\ R(5) \cap R(k) = {}
    BY <1>4, <2>1
  <2>3. R(5) = Run(got[5], NUMBER_OF_PAGES)
    BY <1>2 DEF R
  <2> QED BY <2>2, <2>3
<1>9. ASSUME NEW k \in {1, 2, 3, 4, 6}, NEW j \in {1, 2, 3, 4, 6}, j # k
      PROVE  got[k] # got[j]
  <2>1. k \in {1, 2, 3, 4, 5, 6} /\ j \in {1, 2, 3, 4, 5, 6}
    OBVIOUS
  <2>2. got[k] \in R(k) /\ got[j] \in R(j)
    BY <1>4, <2>1
  <2>3. R(j) \cap R(k) = {}
    BY <1>4, <1>9, <2>1
  <2> QED BY <2>2, <2>3
<1>10. Run(got[5], NUMBER_OF_PAGES) \subseteq Block \ usedMap
  BY <1>2, <1>4 DEF R
<1>11. ForThread(got[4], got[5], got[6], usedMap \cup {got[1], got[2], got[3]})
  <2>1. /\ got[4] \in Block /\ got[4] \notin usedMap
        /\ got[6] \in Block /\ got[6] \notin usedMap /\ got[5] \in Int
    BY <1>4, <1>5, <1>8
  <2>2. /\ got[4] \notin {got[1], got[2], got[3]} /\ got[6] \notin {got[1], got[2], got[3]}
        /\ got[4] # got[6]
    BY <1>9
  <2>3. {got[4], got[6]} \cap Run(got[5], NUMBER_OF_PAGES) = {}
    BY <1>8
  <2>4. {got[1], got[2], got[3]} \cap Run(got[5], NUMBER_OF_PAGES) = {}
    BY <1>8
  <2> QED BY <1>10, <2>1, <2>2, <2>3, <2>4 DEF ForThread
<1>12. /\ usedMap' = usedMap \cup Taken(sizes, got, 6)
       /\ handedOut' = handedOut \cup Taken(sizes, got, 6)
       /\ reused' \in BOOLEAN /\ (~reused' => ~reused)
  BY <1>2, <1>3 DEF Reserved
<1>13. ~reused' /\ IsSegment(handedOut) => IsSegment(handedOut') /\ got[5] = got[4] + 1
  <2>1. 5 \in 2..6 /\ 5 - 1 = 4
    OBVIOUS
  <2> QED BY <1>2, <1>3, <2>1 DEF Reserved
<1> QED BY <1>4, <1>7, <1>8, <1>9, <1>11, <1>12, <1>13 DEF HandsOut

\* The words of a new process and its slot.
MadeFor(words, page, slot, name) ==
  [words EXCEPT ![page][thread] = JUNK, ![page][next] = NULL, ![page][2] = name,
                ![slot][thread] = page, ![slot][next] = JUNK]

KeepsThreads(words, made, page, slot) ==
  /\ made \in Words
  /\ made[page][threadLibrary] = words[page][threadLibrary]
  /\ made[page][currentThread] = words[page][currentThread]
  /\ \A x \in Block \ {page, slot} : made[x] = words[x]

LEMMA MadeProcess ==
  ASSUME NEW words \in Words, NEW page \in Block, NEW slot \in Block, NEW name \in Block,
         page # slot, NEW made, made = MadeFor(words, page, slot, name)
  PROVE  KeepsThreads(words, made, page, slot)
<1> USE Fields
<1>1. PICK m1 : m1 = Put(words, page, thread, JUNK)
  OBVIOUS
<1>2. PICK m2 : m2 = Put(m1, page, next, NULL)
  OBVIOUS
<1>3. PICK m3 : m3 = Put(m2, page, baseStack, name)
  OBVIOUS
<1>4. PICK m4 : m4 = Put(m3, slot, thread, page)
  OBVIOUS
<1>5. made = Put(m4, slot, next, JUNK)
  BY <1>1, <1>2, <1>3, <1>4 DEF Put, MadeFor, baseStack
<1>6. Written(words, m1, page, thread, JUNK)
  BY <1>1, Cell
<1>7. Written(m1, m2, page, next, NULL)
  <2>1. m1 \in Words
    BY <1>6 DEF Written
  <2> QED BY <1>2, <2>1, Cell
<1>8. Written(m2, m3, page, baseStack, name)
  <2>1. m2 \in Words
    BY <1>7 DEF Written
  <2> QED BY <1>3, <2>1, Cell
<1>9. Written(m3, m4, slot, thread, page)
  <2>1. m3 \in Words
    BY <1>8 DEF Written
  <2> QED BY <1>4, <2>1, Cell
<1>10. Written(m4, made, slot, next, JUNK)
  <2>1. m4 \in Words
    BY <1>9 DEF Written
  <2> QED BY <1>5, <2>1, Cell
<1> QED BY <1>6, <1>7, <1>8, <1>9, <1>10
        DEF KeepsThreads, Written, thread, next, baseStack, threadLibrary, currentThread

LEMMA AddProcessPages ==
  ASSUME NUMBER_OF_PAGES \in Nat \ {0}, PagesInv, addProcess
  PROVE  PagesInv'
<1>1. PICK sizes : sizes = <<1, 1, 1>> \o threadSizes
  OBVIOUS
<1>2. PICK got : got = allocate(sizes)
  OBVIOUS
<1>3. PICK page, name, slot, t, stack, library :
        /\ page = got[1] /\ name = got[2] /\ slot = got[3]
        /\ t = got[4] /\ stack = got[5] /\ library = got[6]
  OBVIOUS
<1>4. PICK role, of, rings, objs, queue : Layout(role, of, rings, objs, queue)
  BY DEF PagesInv
<1>5. ObjectTypes
  BY DEF PagesInv
<1> DEFINE Stale == NULL \notin Range(got) /\ word[page][currentThread] # NULL /\ TakesOver
<1>6. CASE RefusedPages(got)
  BY <1>6, SamePages DEF RefusedPages, history
<1>7. CASE Stale
  <2>1. sizes \in Seq(Nat \ {0}) /\ sizes # <<>>
    <3>1. sizes \in Seq(Nat \ {0}) /\ Len(sizes) = 6
      BY <1>1, ProcessSizes
    <3>2. Len(<<>>) = 0
      OBVIOUS
    <3> QED BY <3>1, <3>2
  <2>2. page \in Block /\ page \notin usedMap
    BY <1>2, <1>3, <1>5, <1>7, <2>1, FirstIsFree
  <2>3. role[page] = "free"
    BY <1>4, <2>2 DEF Layout
  <2>4. bequeathed # {}
    BY <1>4, <1>7, <2>2, <2>3 DEF Layout, Clean
  <2> QED BY <1>7, <2>4, SamePages DEF TakesOver, history
<1>8. CASE ~RefusedPages(got) /\ ~Stale
  <2>1. PICK made : made = MadeFor(word, page, slot, name)
    OBVIOUS
  <2> DEFINE run == Run(stack, NUMBER_OF_PAGES)
             new == {page, name, slot, t, library} \cup run
  <2>2. /\ Reserve(got, sizes)
        /\ word[page][currentThread] = NULL
        /\ word' = withThread(made, page, t, stack, library)
        /\ process' = [pid \in DOMAIN process \cup {currentPid} |->
                         IF pid = currentPid
                         THEN [page |-> page, slot |-> slot, name |-> name, threadSize |-> 1,
                               currentPThread |-> 1, tkilled |-> 0]
                         ELSE process[pid]]
        /\ currentPid' = currentPid + 1
        /\ UNCHANGED <<objects, leaked, bequeathed, kernel>> /\ kernel = "running"
    BY <1>1, <1>2, <1>3, <1>8, <2>1 DEF addProcess, MadeFor
  <2>3. /\ ForThread(t, stack, library, usedMap \cup {page, name, slot})
        /\ page \in Block \ usedMap /\ name \in Block \ usedMap /\ slot \in Block \ usedMap
        /\ page # name /\ page # slot /\ name # slot
        /\ HandsOut(new, t, stack)
    <3>1. /\ ForThread(got[4], got[5], got[6], usedMap \cup {got[1], got[2], got[3]})
          /\ {got[1], got[2], got[3]} \subseteq Block \ usedMap
          /\ got[1] # got[2] /\ got[1] # got[3] /\ got[2] # got[3]
          /\ HandsOut({got[1], got[2], got[3], got[4], got[6]} \cup Run(got[5], NUMBER_OF_PAGES),
                     got[4], got[5])
      BY <1>1, <1>2, <1>5, <2>2, PagesOfProcess
    <3> QED BY <1>3, <3>1
  <2>4. /\ t \in Block /\ library \in Block /\ stack \in Int /\ run \subseteq Block
        /\ t # library /\ page # t /\ page # library /\ name # t /\ name # library
        /\ slot # t /\ slot # library
        /\ {page, name, slot, t, library} \cap run = {}
        /\ \A x \in new : x \in Block /\ x \notin usedMap
    BY <2>3 DEF ForThread
  <2>5. \A x \in new : x \in Block /\ role[x] = "free"
    BY <1>4, <2>4 DEF Layout
  <2>6. /\ word' \in Words
        /\ word'[t][baseStack] = stack
        /\ word'[library][thread] = t /\ word'[library][next] = library
        /\ word'[page][threadLibrary] = library /\ word'[page][currentThread] = library
        /\ \A x \in Block \ {page, slot, t, library} : word'[x] = word[x]
    <3>1. word \in Words
      BY <1>5 DEF ObjectTypes
    <3>2. /\ made \in Words /\ made[page][currentThread] = NULL
          /\ \A x \in Block \ {page, slot} : made[x] = word[x]
      <4>1. page \in Block /\ slot \in Block /\ name \in Block /\ page # slot
        BY <2>3
      <4>2. /\ made \in Words /\ made[page][currentThread] = word[page][currentThread]
            /\ \A x \in Block \ {page, slot} : made[x] = word[x]
        <5>1. KeepsThreads(word, made, page, slot)
          BY <2>1, <3>1, <4>1, MadeProcess
        <5> QED BY <5>1 DEF KeepsThreads
      <4> QED BY <2>2, <4>2
    <3>3. /\ word' \in Words
          /\ word'[t][baseStack] = stack
          /\ word'[library][thread] = t /\ word'[library][next] = library
          /\ word'[page][threadLibrary] = library /\ word'[page][currentThread] = library
          /\ \A x \in Block \ {page, t, library} : word'[x] = made[x]
      <4>1. page \in Block /\ t \in Block /\ library \in Block /\ stack \in Int
            /\ page # t /\ page # library /\ t # library
        BY <2>3, <2>4
      <4>2. made \in Words /\ made[page][currentThread] = NULL
        BY <3>2
      <4>3. word' = withThread(made, page, t, stack, library)
        BY <2>2
      <4> QED BY <4>1, <4>2, <4>3, WithFirstThread
    <3> QED BY <3>2, <3>3
  <2> DEFINE role2 == [x \in Block |->
               IF x = page THEN "page" ELSE IF x = name THEN "name" ELSE IF x = slot THEN "slot"
               ELSE IF x = t THEN "thread" ELSE IF x = library THEN "library"
               ELSE IF x \in run THEN "stack" ELSE role[x]]
             of2 == [x \in Block |->
               IF x \in {page, name, slot, library} THEN currentPid
               ELSE IF x = t \/ x \in run THEN library ELSE of[x]]
             rings2 == [pid \in DOMAIN process \cup {currentPid} |->
               IF pid = currentPid THEN [i \in 1..1 |-> library] ELSE rings[pid]]
  <2>7. \A x \in Block : x \notin new => role2[x] = role[x] /\ of2[x] = of[x] /\ word'[x] = word[x]
    BY <2>6
  <2>8. /\ role2[page] = "page" /\ role2[name] = "name" /\ role2[slot] = "slot"
        /\ role2[t] = "thread" /\ role2[library] = "library"
        /\ \A x \in run : role2[x] = "stack"
        /\ of2[page] = currentPid /\ of2[name] = currentPid /\ of2[slot] = currentPid
        /\ of2[library] = currentPid /\ of2[t] = library
        /\ \A x \in run : of2[x] = library
    BY <2>3, <2>4
  <2>9. /\ role2 \in [Block -> Role]
        /\ usedMap' = {x \in Block : role2[x] # "free"}
        /\ leaked' = {x \in Block : role2[x] = "leaked"}
    <3>1. role \in [Block -> Role] /\ usedMap = {x \in Block : role[x] # "free"}
          /\ leaked = {x \in Block : role[x] = "leaked"}
      BY <1>4 DEF Layout
    <3>2. usedMap' = usedMap \cup new /\ leaked' = leaked
      BY <2>2, <2>3 DEF HandsOut
    <3>3. \A x \in new : role2[x] \in ProcessRole
      BY <2>8 DEF ProcessRole
    <3>4. role2 \in [Block -> Role]
      BY <3>1 DEF Role, ProcessRole
    <3> HIDE DEF role2, new
    <3> QED BY <2>5, <2>7, <3>1, <3>2, <3>3, <3>4 DEF ProcessRole
  <2>10. /\ currentPid \in Nat /\ currentPid \notin DOMAIN process
         /\ \A pid \in DOMAIN process : pid \in Nat /\ pid < currentPid
         /\ DOMAIN process' = DOMAIN process \cup {currentPid}
         /\ process'[currentPid] =
              [page |-> page, slot |-> slot, name |-> name, threadSize |-> 1,
               currentPThread |-> 1, tkilled |-> 0]
         /\ \A pid \in DOMAIN process : process'[pid] = process[pid] /\ rings2[pid] = rings[pid]
         /\ rings2[currentPid] = [i \in 1..1 |-> library]
    <3>1. currentPid \in Nat /\ \A pid \in DOMAIN process : pid \in Nat /\ pid < currentPid
      BY <1>5 DEF ObjectTypes
    <3>2. currentPid \notin DOMAIN process
      BY <3>1
    <3> QED BY <2>2, <3>1, <3>2
  <2>11. ObjectTypes'
    <3>1. usedMap' \in SUBSET Block /\ handedOut' \in SUBSET Block /\ usedMap' \subseteq handedOut'
          /\ reused' \in BOOLEAN
      BY <1>5, <2>3, <2>4 DEF ObjectTypes, HandsOut
    <3>2. list' = list /\ counter' = counter /\ waiting' = waiting
      BY <2>2 DEF objects
    <3>3. process' = [pid \in DOMAIN process' |-> process'[pid]]
      BY <2>2
    <3>4. currentPid' \in Nat /\ \A pid \in DOMAIN process' : pid \in Nat /\ pid < currentPid'
      BY <2>2, <2>10
    <3> QED BY <1>5, <2>6, <3>1, <3>2, <3>3, <3>4 DEF ObjectTypes
  <2>12. /\ ProcessLayout(word, process, role, of, rings)
         /\ ObjectLayout(word, list, counter, waiting, role, of, objs, queue)
    BY <1>4 DEF Layout
  <2>13. ASSUME NEW pid \in DOMAIN process
         PROVE  HasOwn(process', role2, of2, pid) /\ HasRing(word', process', role2, of2, rings2, pid)
    <3>1. HasOwn(process, role, of, pid) /\ HasRing(word, process, role, of, rings, pid)
      BY <2>12 DEF ProcessLayout
    <3>2. process'[pid] = process[pid] /\ rings2[pid] = rings[pid]
      BY <2>10
    <3>3. \A x \in Block : role[x] \in {"page", "slot", "name", "library"} =>
            role2[x] = role[x] /\ of2[x] = of[x] /\ word'[x] = word[x]
      BY <2>5, <2>7
    <3> HIDE DEF role2, of2, rings2
    <3> QED BY <3>1, <3>2, <3>3, RingFrame
  <2>14. HasOwn(process', role2, of2, currentPid)
    <3> HIDE DEF role2, of2
    <3>1. PICK own : own = process'[currentPid]
      OBVIOUS
    <3>2. own = [page |-> page, slot |-> slot, name |-> name, threadSize |-> 1,
                 currentPThread |-> 1, tkilled |-> 0]
      BY <2>10, <3>1
    <3>3. page \in Block /\ slot \in Block /\ name \in Block
      BY <2>3
    <3>4. own \in ProcessRecord /\ own.threadSize = own.currentPThread - own.tkilled
          /\ own.page = page /\ own.slot = slot /\ own.name = name
      BY <3>2, <3>3 DEF ProcessRecord
    <3> QED BY <2>3, <2>8, <3>1, <3>4 DEF HasOwn
  <2>15. HasRing(word', process', role2, of2, rings2, currentPid)
    <3>1. PICK ring : ring = [i \in 1..1 |-> library]
      OBVIOUS
    <3>2. ring \in [1..1 -> Block] /\ ring[1] = library /\ 1..1 = {1} /\ 2..1 = {}
      BY <2>4, <3>1
    <3>3. library # NULL
      BY <2>4, NoBlock
    <3> HIDE DEF role2, of2, rings2
    <3> QED BY <2>6, <2>8, <2>10, <3>1, <3>2, <3>3 DEF HasRing
  <2>16. ASSUME NEW x \in Block
         PROVE  BelongsToProcess(word', process', role2, of2, rings2, x)
    <3>1. CASE role[x] # "free"
      <4>1. Grows(word, word', process, process', role, role2, of, of2, rings, rings2)
        <5>1. \A y \in Block : role[y] # "free" =>
                role2[y] = role[y] /\ of2[y] = of[y] /\ word'[y] = word[y]
          BY <2>5, <2>7
        <5> HIDE DEF role2, of2, rings2
        <5> QED BY <2>10, <5>1 DEF Grows
      <4> HIDE DEF role2, of2, rings2
      <4> QED BY <2>12, <3>1, <4>1, GrowsOwners DEF ProcessLayout
    <3>2. CASE role[x] = "free" /\ x \notin new
      BY <2>7, <3>2 DEF BelongsToProcess
    <3>3. CASE x \in {page, name, slot}
      <4> HIDE DEF role2, of2
      <4> QED BY <2>8, <2>10, <3>3 DEF BelongsToProcess
    <3>4. CASE x \in {t, library} \cup run
      <4>1. \E i \in 1..process'[currentPid].currentPThread : rings2[currentPid][i] = library
        <5>1. 1 \in 1..1
          OBVIOUS
        <5> HIDE DEF rings2
        <5> QED BY <2>10, <5>1
      <4>2. NewThread(word', process', role2, of2, rings2, currentPid, t, stack, library)
        <5> HIDE DEF role2, of2, rings2
        <5> QED BY <2>4, <2>6, <2>8, <2>10, <4>1 DEF NewThread
      <4> HIDE DEF role2, of2, rings2
      <4> QED BY <3>4, <4>2, NewThreadOwners
    <3> QED BY <3>1, <3>2, <3>3, <3>4
  <2>17. ProcessLayout(word', process', role2, of2, rings2)
    <3> HIDE DEF role2, of2, rings2
    <3> QED BY <2>10, <2>13, <2>14, <2>15, <2>16 DEF ProcessLayout
  <2>18. ObjectLayout(word', list', counter', waiting', role2, of2, objs, queue)
    <3>1. \A x \in new : role2[x] \notin ObjectRole
      BY <2>8 DEF ObjectRole
    <3>2. Untouched(ObjectRole, word, word', role, role2, of, of2)
      <4> HIDE DEF role2, of2, new
      <4> QED BY <2>5, <2>7, <3>1 DEF Untouched, ObjectRole
    <3>3. list' = list /\ counter' = counter /\ waiting' = waiting
      BY <2>2 DEF objects
    <3> HIDE DEF role2, of2
    <3> QED BY <2>12, <3>2, <3>3, ObjectFrame
  <2>19. bequeathed' = {} => Clean(word', role2)
    <3>1. \A x \in new : role2[x] \notin {"free", "waiter", "object"}
      BY <2>8
    <3> HIDE DEF role2, new
    <3> QED BY <1>4, <2>2, <2>7, <3>1 DEF Clean, Layout
  <2>20. ~reused' => InOrder(word', handedOut', role2)
    <3> SUFFICES ASSUME ~reused' PROVE InOrder(word', handedOut', role2)
      OBVIOUS
    <3>1. InOrder(word, handedOut, role)
      BY <1>4, <2>3 DEF Layout, HandsOut
    <3>2. IsSegment(handedOut') /\ stack = t + 1
      BY <2>3, <3>1 DEF HandsOut, InOrder, IsSegment
    <3>3. ASSUME NEW x \in Block, role2[x] = "library"
          PROVE  word'[word'[x][thread]][baseStack] = word'[x][thread] + 1
      <4>1. CASE x = library
        BY <2>6, <3>2, <4>1
      <4>2. CASE x # library
        <5>1. x \notin new
          BY <2>8, <3>3, <4>2
        <5>2. role[x] = "library" /\ word'[x] = word[x]
          BY <2>7, <3>3, <5>1
        <5>3. word[x][thread] \in Block /\ role[word[x][thread]] = "thread"
          BY <2>12, <5>2 DEF ProcessLayout, BelongsToProcess, HasThread
        <5>4. word'[word[x][thread]] = word[word[x][thread]]
          BY <2>5, <2>7, <5>3
        <5> QED BY <3>1, <5>2, <5>4 DEF InOrder
      <4> QED BY <4>1, <4>2
    <3> HIDE DEF role2
    <3> QED BY <3>2, <3>3 DEF InOrder, IsSegment
  <2>21. kernel' # "stale"
    BY <2>2
  <2> HIDE DEF role2, of2, rings2
  <2> QED BY <2>9, <2>11, <2>17, <2>18, <2>19, <2>20, <2>21, NextPages
<1> QED BY <1>6, <1>7, <1>8

\* A ring of n nodes.
IsRing(words, n, ring) ==
  /\ ring \in [1..n -> Block]
  /\ \A i, j \in 1..n : ring[i] = ring[j] => i = j
  /\ \A i \in 2..n : words[ring[i - 1]][next] = ring[i]
  /\ words[ring[n]][next] = ring[1]

\* The ring with one more behind the first.
Inserted(n, ring, b) ==
  [j \in 1..(n + 1) |-> IF j = 1 THEN ring[1] ELSE IF j = 2 THEN b ELSE ring[j - 1]]

HasInserted(words, n, ring, b, ring2) ==
  /\ IsRing(words, n + 1, ring2)
  /\ ring2[1] = ring[1] /\ ring2[2] = b
  /\ \A i \in 1..n : \E j \in 1..(n + 1) : ring2[j] = ring[i]
  /\ \A j \in 1..(n + 1) : ring2[j] = b \/ \E i \in 1..n : ring2[j] = ring[i]

LEMMA RingInsert ==
  ASSUME NEW words, NEW words2, NEW n \in Nat \ {0}, NEW ring, IsRing(words, n, ring),
         NEW b \in Block, \A i \in 1..n : ring[i] # b,
         words2[b][next] = words[ring[1]][next], words2[ring[1]][next] = b,
         \A i \in 2..n : words2[ring[i]][next] = words[ring[i]][next],
         NEW ring2, ring2 = Inserted(n, ring, b)
  PROVE  HasInserted(words2, n, ring, b, ring2)
<1>1. /\ ring \in [1..n -> Block]
      /\ \A i, j \in 1..n : ring[i] = ring[j] => i = j
      /\ \A i \in 2..n : words[ring[i - 1]][next] = ring[i]
      /\ words[ring[n]][next] = ring[1]
  BY DEF IsRing
<1>2. /\ DOMAIN ring2 = 1..(n + 1) /\ ring2 = [j \in 1..(n + 1) |-> ring2[j]]
      /\ ring2[1] = ring[1] /\ ring2[2] = b
      /\ \A j \in 3..(n + 1) : ring2[j] = ring[j - 1] /\ j - 1 \in 2..n
      /\ \A j \in 3..(n + 1), i \in 2..n : j = i + 1 => ring2[j] = ring[i]
  <2>1. \A j \in 3..(n + 1) : j \in 1..(n + 1) /\ j # 1 /\ j # 2 /\ j - 1 \in 2..n
    OBVIOUS
  <2>2. \A j \in 3..(n + 1) : ring2[j] = ring[j - 1]
    BY <2>1 DEF Inserted
  <2>3. \A j \in 3..(n + 1), i \in 2..n : j = i + 1 => j - 1 = i
    OBVIOUS
  <2>4. \A j \in 3..(n + 1), i \in 2..n : j = i + 1 => ring2[j] = ring[i]
    BY <2>2, <2>3
  <2>5. DOMAIN ring2 = 1..(n + 1) /\ ring2 = [j \in 1..(n + 1) |-> ring2[j]]
    BY DEF Inserted
  <2>6. ring2[1] = ring[1] /\ ring2[2] = b
    BY DEF Inserted
  <2> QED BY <2>1, <2>2, <2>4, <2>5, <2>6
<1>3. \A j \in 1..(n + 1) : j = 1 \/ j = 2 \/ j \in 3..(n + 1)
  OBVIOUS
<1>4. 1 \in 1..n /\ n \in 1..n /\ n + 1 \in 1..(n + 1) /\ \A j \in 2..n : j \in 1..n
  OBVIOUS
<1>5. \A j \in 1..(n + 1) : ring2[j] \in Block
  <2>1. ring2[1] \in Block /\ ring2[2] \in Block
    BY <1>1, <1>2, <1>4
  <2>2. ASSUME NEW j \in 3..(n + 1) PROVE ring2[j] \in Block
    <3>1. PICK i : i = j - 1 /\ i \in 2..n /\ j = i + 1
      OBVIOUS
    <3>2. ring2[j] = ring[i] /\ i \in 1..n
      BY <1>2, <1>4, <3>1
    <3> QED BY <1>1, <3>2
  <2> QED BY <1>3, <2>1, <2>2
<1>6. ring2 \in [1..(n + 1) -> Block]
  BY <1>2, <1>5
<1>7. \A i, j \in 1..(n + 1) : ring2[i] = ring2[j] => i = j
  <2> SUFFICES ASSUME NEW i \in 1..(n + 1), NEW j \in 1..(n + 1), ring2[i] = ring2[j] PROVE i = j
    OBVIOUS
  <2> DEFINE old(m) == IF m = 1 THEN 1 ELSE m - 1
  <2>1. \A m \in 1..(n + 1) : m # 2 => old(m) \in 1..n /\ ring2[m] = ring[old(m)]
    BY <1>2, <1>3, <1>4
  <2>2. CASE i = 2 \/ j = 2
    <3>1. \A m \in 1..(n + 1) : m # 2 => ring2[m] # b
      <4> HIDE DEF old
      <4> QED BY <2>1
    <3> QED BY <1>2, <2>2, <3>1
  <2>3. CASE i # 2 /\ j # 2
    <3>1. old(i) = old(j)
      <4> HIDE DEF old
      <4> QED BY <1>1, <2>1, <2>3
    <3> QED BY <1>3, <2>3, <3>1
  <2> QED BY <2>2, <2>3
<1>8. \A i \in 2..(n + 1) : words2[ring2[i - 1]][next] = ring2[i]
  <2> SUFFICES ASSUME NEW i \in 2..(n + 1) PROVE words2[ring2[i - 1]][next] = ring2[i]
    OBVIOUS
  <2>1. CASE i = 2
    <3>1. i - 1 = 1
      BY <2>1
    <3> QED BY <1>2, <2>1, <3>1
  <2>2. CASE i = 3
    <3>1. i - 1 = 2 /\ 2 \in 2..n /\ 2 - 1 = 1 /\ 3 \in 3..(n + 1) /\ 3 = 2 + 1
      BY <2>2
    <3>2. words[ring[1]][next] = ring[2]
      BY <1>1, <3>1
    <3>3. ring2[3] = ring[2]
      BY <1>2, <3>1
    <3> QED BY <1>2, <2>2, <3>1, <3>2, <3>3
  <2>3. CASE i > 3
    <3>1. i \in 3..(n + 1) /\ i - 1 \in 3..(n + 1) /\ i - 1 \in 2..n /\ i - 1 - 1 \in 2..n
      BY <2>3
    <3>2. ring2[i] = ring[i - 1] /\ ring2[i - 1] = ring[i - 1 - 1]
      BY <1>2, <3>1
    <3>3. words2[ring[i - 1 - 1]][next] = words[ring[i - 1 - 1]][next]
      BY <3>1
    <3>4. words[ring[i - 1 - 1]][next] = ring[i - 1]
      BY <1>1, <3>1
    <3> QED BY <3>2, <3>3, <3>4
  <2> QED BY <2>1, <2>2, <2>3
<1>9. words2[ring2[n + 1]][next] = ring2[1]
  <2>1. CASE n = 1
    BY <1>1, <1>2, <2>1
  <2>2. CASE n # 1
    <3>1. PICK m : m = n + 1 /\ m \in 3..(n + 1)
      BY <2>2
    <3>2. n \in 2..n
      BY <2>2
    <3>3. ring2[m] = ring[n]
      BY <1>2, <3>1, <3>2
    <3> QED BY <1>1, <1>2, <3>1, <3>3
  <2> QED BY <2>1, <2>2
<1>10. ASSUME NEW i \in 1..n PROVE \E j \in 1..(n + 1) : ring2[j] = ring[i]
  <2>1. CASE i = 1
    <3>1. 1 \in 1..(n + 1)
      OBVIOUS
    <3> QED BY <1>2, <2>1, <3>1
  <2>2. CASE i # 1
    <3>1. PICK j : j = i + 1 /\ j \in 3..(n + 1) /\ j \in 1..(n + 1)
      BY <2>2
    <3>2. i \in 2..n
      BY <2>2
    <3>3. ring2[j] = ring[i]
      BY <1>2, <3>1, <3>2
    <3> QED BY <3>1, <3>3
  <2> QED BY <2>1, <2>2
<1>11. \A j \in 1..(n + 1) : ring2[j] = b \/ \E i \in 1..n : ring2[j] = ring[i]
  BY <1>2, <1>3, <1>4
<1>12. IsRing(words2, n + 1, ring2)
  BY <1>6, <1>7, <1>8, <1>9 DEF IsRing
<1> QED BY <1>2, <1>10, <1>11, <1>12 DEF HasInserted

LEMMA AddThreadPages ==
  ASSUME NUMBER_OF_PAGES \in Nat \ {0}, PagesInv,
         NEW pid \in DOMAIN process, addThreadToProcess(pid)
  PROVE  PagesInv'
<1>1. PICK got : got = allocate(threadSizes)
  OBVIOUS
<1>2. PICK t, stack, library : t = got[1] /\ stack = got[2] /\ library = got[3]
  OBVIOUS
<1>3. PICK role, of, rings, objs, queue : Layout(role, of, rings, objs, queue)
  BY DEF PagesInv
<1>4. ObjectTypes
  BY DEF PagesInv
<1>5. CASE RefusedPages(got)
  BY <1>5, SamePages DEF RefusedPages, history
<1>6. CASE ~RefusedPages(got)
  <2>1. PICK page, n, ring : page = process[pid].page /\ n = process[pid].currentPThread /\ ring = rings[pid]
    OBVIOUS
  <2> DEFINE run == Run(stack, NUMBER_OF_PAGES)
             new == {t, library} \cup run
  <2>2. /\ Reserve(got, threadSizes)
        /\ word' = withThread(word, page, t, stack, library)
        /\ process' = [process EXCEPT ![pid].threadSize = @ + 1, ![pid].currentPThread = @ + 1]
        /\ UNCHANGED <<currentPid, objects, leaked, bequeathed, kernel>> /\ kernel = "running"
    BY <1>1, <1>2, <1>6, <2>1 DEF addThreadToProcess
  <2>3. ForThread(t, stack, library, usedMap) /\ HandsOut(new, t, stack)
    BY <1>1, <1>2, <1>4, <2>2, PagesOfThread
  <2>4. /\ t \in Block /\ library \in Block /\ stack \in Int /\ run \subseteq Block
        /\ t # library /\ {t, library} \cap run = {}
        /\ \A x \in new : x \in Block /\ x \notin usedMap
    BY <2>3 DEF ForThread
  <2>5. \A x \in new : x \in Block /\ role[x] = "free"
    BY <1>3, <2>4 DEF Layout
  <2>6. /\ ProcessLayout(word, process, role, of, rings)
        /\ ObjectLayout(word, list, counter, waiting, role, of, objs, queue)
        /\ HasOwn(process, role, of, pid) /\ HasRing(word, process, role, of, rings, pid)
    BY <1>3 DEF Layout, ProcessLayout
  <2>7. /\ page \in Block /\ role[page] = "page" /\ of[page] = pid /\ n \in Nat \ {0}
        /\ word[page][threadLibrary] = ring[1] /\ word[page][currentThread] # NULL
        /\ IsRing(word, n, ring)
        /\ \A i \in 1..n : ring[i] \in Block /\ role[ring[i]] = "library" /\ of[ring[i]] = pid
    BY <2>1, <2>6, OwnFields DEF HasOwn, HasRing, IsRing
  <2>8. PICK head : head = ring[1]
    OBVIOUS
  <2>9. head \in Block /\ role[head] = "library" /\ of[head] = pid
    <3>1. 1 \in 1..n
      BY <2>7
    <3> QED BY <2>7, <2>8, <3>1
  <2>10. head # t /\ head # library
    BY <2>5, <2>9
  <2>11. /\ word' \in Words
         /\ word'[t][baseStack] = stack
         /\ word'[library][thread] = t /\ word'[library][next] = word[head][next]
         /\ word'[head][next] = library
         /\ \A f \in 0..4 : f # next => word'[head][f] = word[head][f]
         /\ \A x \in Block \ {head, t, library} : word'[x] = word[x]
    <3>1. word \in Words
      BY <1>4 DEF ObjectTypes
    <3>2. head = word[page][threadLibrary] /\ word[page][currentThread] # NULL
      BY <2>7, <2>8
    <3>3. page \in Block
      BY <2>7
    <3>4. word' = withThread(word, page, t, stack, library)
      BY <2>2
    <3>5. MoreThread(word, word', t, stack, library, head)
      BY <2>4, <2>9, <2>10, <3>1, <3>2, <3>3, <3>4, WithMoreThread
    <3> QED BY <3>5 DEF MoreThread
  <2> DEFINE role2 == [x \in Block |->
               IF x = t THEN "thread" ELSE IF x = library THEN "library"
               ELSE IF x \in run THEN "stack" ELSE role[x]]
             of2 == [x \in Block |->
               IF x = library THEN pid ELSE IF x = t \/ x \in run THEN library ELSE of[x]]
             ring2 == Inserted(n, ring, library)
             rings2 == [p \in DOMAIN process |-> IF p = pid THEN ring2 ELSE rings[p]]
  <2>12. \A x \in Block : x \notin new => role2[x] = role[x] /\ of2[x] = of[x]
    OBVIOUS
  <2>13. \A x \in Block : x \notin new => \A f \in 0..4 : x # head \/ f # next => word'[x][f] = word[x][f]
    BY <2>11
  <2>14. \A x \in Block : x \notin new /\ x # head => word'[x] = word[x]
    BY <2>11
  <2>15. /\ role2[t] = "thread" /\ role2[library] = "library"
         /\ \A x \in run : role2[x] = "stack"
         /\ of2[library] = pid /\ of2[t] = library /\ \A x \in run : of2[x] = library
    BY <2>4
  <2>16. /\ role2 \in [Block -> Role]
         /\ usedMap' = {x \in Block : role2[x] # "free"}
         /\ leaked' = {x \in Block : role2[x] = "leaked"}
    <3>1. role \in [Block -> Role] /\ usedMap = {x \in Block : role[x] # "free"}
          /\ leaked = {x \in Block : role[x] = "leaked"}
      BY <1>3 DEF Layout
    <3>2. usedMap' = usedMap \cup new /\ leaked' = leaked
      BY <2>2, <2>3 DEF HandsOut
    <3>3. \A x \in new : role2[x] \in ProcessRole
      BY <2>15 DEF ProcessRole
    <3>4. role2 \in [Block -> Role]
      BY <3>1 DEF Role, ProcessRole
    <3> HIDE DEF role2, new
    <3> QED BY <2>5, <2>12, <3>1, <3>2, <3>3, <3>4 DEF ProcessRole
  <2>17. /\ process' = [p \in DOMAIN process |-> process'[p]] /\ DOMAIN process' = DOMAIN process
         /\ \A p \in DOMAIN process : p # pid => process'[p] = process[p] /\ rings2[p] = rings[p]
         /\ process'[pid] \in ProcessRecord
         /\ process'[pid].page = page /\ process'[pid].slot = process[pid].slot
         /\ process'[pid].name = process[pid].name /\ process'[pid].currentPThread = n + 1
         /\ process'[pid].threadSize = process'[pid].currentPThread - process'[pid].tkilled
         /\ rings2[pid] = ring2
    <3>1. /\ process[pid] \in ProcessRecord
          /\ process[pid].threadSize = process[pid].currentPThread - process[pid].tkilled
      BY <2>6 DEF HasOwn
    <3>2. process'[pid] = [process[pid] EXCEPT !.threadSize = @ + 1, !.currentPThread = @ + 1]
      BY <2>2
    <3>3. /\ process'[pid] \in ProcessRecord
          /\ process'[pid].page = page /\ process'[pid].slot = process[pid].slot
          /\ process'[pid].name = process[pid].name /\ process'[pid].currentPThread = n + 1
          /\ process'[pid].threadSize = process'[pid].currentPThread - process'[pid].tkilled
      <4>1. PICK own, s, c, k : /\ own = process[pid] /\ s = own.threadSize + 1
                                /\ c = own.currentPThread + 1 /\ k = own.tkilled
        OBVIOUS
      <4>2. own \in ProcessRecord /\ own.threadSize = own.currentPThread - own.tkilled
        BY <3>1, <4>1
      <4>3. s \in Int /\ c \in Nat \ {0} /\ k \in Nat /\ s = c - k /\ c = n + 1
        BY <2>1, <4>1, <4>2, OwnFields
      <4>4. PICK own2 : own2 = [own EXCEPT !.threadSize = s, !.currentPThread = c, !.tkilled = k]
        OBVIOUS
      <4>5. own2 = [own EXCEPT !.threadSize = @ + 1, !.currentPThread = @ + 1]
        BY <4>1, <4>2, <4>4 DEF ProcessRecord
      <4>6. /\ own2 \in ProcessRecord
            /\ own2.page = own.page /\ own2.slot = own.slot /\ own2.name = own.name
            /\ own2.threadSize = s /\ own2.currentPThread = c /\ own2.tkilled = k
        BY <4>2, <4>3, <4>4 DEF ProcessRecord
      <4>7. process'[pid] = own2
        BY <3>2, <4>1, <4>5
      <4> QED BY <2>1, <4>1, <4>3, <4>6, <4>7
    <3>4. process = [p \in DOMAIN process |-> process[p]]
      BY <1>4 DEF ObjectTypes
    <3>5. process' = [p \in DOMAIN process |-> process'[p]] /\ DOMAIN process' = DOMAIN process
          /\ \A p \in DOMAIN process : p # pid => process'[p] = process[p]
      BY <2>2, <3>4
    <3>6. rings2[pid] = ring2 /\ \A p \in DOMAIN process : p # pid => rings2[p] = rings[p]
      OBVIOUS
    <3> HIDE DEF rings2
    <3> QED BY <3>3, <3>5, <3>6
  <2>18. ObjectTypes'
    <3>1. usedMap' \in SUBSET Block /\ handedOut' \in SUBSET Block /\ usedMap' \subseteq handedOut'
          /\ reused' \in BOOLEAN
      BY <1>4, <2>3, <2>4 DEF ObjectTypes, HandsOut
    <3>2. list' = list /\ counter' = counter /\ waiting' = waiting /\ currentPid' = currentPid
      BY <2>2 DEF objects
    <3> QED BY <1>4, <2>11, <2>17, <3>1, <3>2 DEF ObjectTypes
  <2>19. ASSUME NEW p \in DOMAIN process, p # pid
         PROVE  HasOwn(process', role2, of2, p) /\ HasRing(word', process', role2, of2, rings2, p)
    <3>1. HasOwn(process, role, of, p) /\ HasRing(word, process, role, of, rings, p)
      BY <2>6 DEF ProcessLayout
    <3>2. process'[p] = process[p] /\ rings2[p] = rings[p]
      BY <2>17, <2>19
    <3>3. \A x \in Block : role[x] \in {"page", "slot", "name", "library"} /\ of[x] = p =>
            role2[x] = role[x] /\ of2[x] = p /\ word'[x] = word[x]
      <4> SUFFICES ASSUME NEW x \in Block, role[x] \in {"page", "slot", "name", "library"}, of[x] = p
                   PROVE  role2[x] = role[x] /\ of2[x] = p /\ word'[x] = word[x]
        OBVIOUS
      <4>1. x \notin new /\ x # head
        BY <2>5, <2>9, <2>19
      <4> HIDE DEF role2, of2, new
      <4> QED BY <2>12, <2>14, <4>1
    <3> HIDE DEF role2, of2, rings2
    <3> QED BY <3>1, <3>2, <3>3, RingFrame
  <2>20. \A x \in Block : role[x] # "free" => role2[x] = role[x] /\ of2[x] = of[x]
    BY <2>5, <2>12
  <2>21. HasOwn(process', role2, of2, pid)
    <3> HIDE DEF role2, of2
    <3>1. process[pid].page \in Block /\ process[pid].slot \in Block /\ process[pid].name \in Block
      BY <2>6, OwnFields DEF HasOwn
    <3> QED BY <2>1, <2>6, <2>17, <2>20, <3>1 DEF HasOwn
  <2>22. /\ IsRing(word', n + 1, ring2) /\ ring2[1] = ring[1] /\ ring2[2] = library
         /\ \A i \in 1..n : \E j \in 1..(n + 1) : ring2[j] = ring[i]
         /\ \A j \in 1..(n + 1) : ring2[j] = library \/ \E i \in 1..n : ring2[j] = ring[i]
    <3>1. \A i \in 1..n : ring[i] # library
      BY <2>5, <2>7
    <3>2. \A i \in 2..n : word'[ring[i]][next] = word[ring[i]][next]
      <4> SUFFICES ASSUME NEW i \in 2..n PROVE word'[ring[i]] = word[ring[i]]
        OBVIOUS
      <4>1. i \in 1..n /\ 1 \in 1..n /\ i # 1
        BY <2>7
      <4>2. ring[i] # head /\ ring[i] \in Block /\ role[ring[i]] = "library"
        BY <2>7, <2>8, <4>1 DEF IsRing
      <4>3. ring[i] \notin new
        BY <2>5, <4>2
      <4> QED BY <2>14, <4>2, <4>3
    <3>3. word'[library][next] = word[ring[1]][next] /\ word'[ring[1]][next] = library
      BY <2>8, <2>11
    <3>4. n \in Nat \ {0} /\ IsRing(word, n, ring) /\ library \in Block
      BY <2>4, <2>7
    <3>5. HasInserted(word', n, ring, library, ring2)
      BY <3>1, <3>2, <3>3, <3>4, RingInsert
    <3> QED BY <3>5 DEF HasInserted
  <2>23. HasRing(word', process', role2, of2, rings2, pid)
    <3>1. \A j \in 1..(n + 1) : role2[ring2[j]] = "library" /\ of2[ring2[j]] = pid
      <4> HIDE DEF role2, of2, ring2
      <4> QED BY <2>7, <2>15, <2>20, <2>22
    <3>2. word'[page][threadLibrary] = ring2[1] /\ word'[page][currentThread] # NULL
      <4>1. page # head /\ page \notin new
        BY <2>5, <2>7, <2>9
      <4>2. word'[page] = word[page]
        BY <2>7, <2>14, <4>1
      <4> HIDE DEF ring2
      <4> QED BY <2>7, <2>22, <4>2
    <3> HIDE DEF role2, of2, rings2, ring2
    <3> QED BY <2>17, <2>22, <3>1, <3>2 DEF HasRing, IsRing
  <2>24. ASSUME NEW x \in Block
         PROVE  BelongsToProcess(word', process', role2, of2, rings2, x)
    <3>1. CASE role[x] # "free"
      <4>1. \A y \in Block : role[y] # "free" => \A f \in 0..4 : f # next => word'[y][f] = word[y][f]
        BY <2>5, <2>13
      <4>2. \A p \in DOMAIN process :
              \A i \in 1..process[p].currentPThread :
                \E j \in 1..process'[p].currentPThread : rings2[p][j] = rings[p][i]
        <5> SUFFICES ASSUME NEW p \in DOMAIN process, NEW i \in 1..process[p].currentPThread
                     PROVE  \E j \in 1..process'[p].currentPThread : rings2[p][j] = rings[p][i]
          OBVIOUS
        <5>1. CASE p # pid
          <6> HIDE DEF rings2
          <6> QED BY <2>17, <5>1
        <5>2. CASE p = pid
          <6>1. PICK j \in 1..(n + 1) : ring2[j] = ring[i]
            BY <2>1, <2>22, <5>2
          <6> HIDE DEF rings2, ring2
          <6> QED BY <2>1, <2>17, <5>2, <6>1
        <5> QED BY <5>1, <5>2
      <4>3. Grows(word, word', process, process', role, role2, of, of2, rings, rings2)
        <5> HIDE DEF role2, of2, rings2, ring2
        <5> QED BY <2>1, <2>17, <2>20, <4>1, <4>2 DEF Grows
      <4> HIDE DEF role2, of2, rings2
      <4> QED BY <2>6, <3>1, <4>3, GrowsOwners DEF ProcessLayout
    <3>2. CASE role[x] = "free" /\ x \notin new
      BY <2>12, <3>2 DEF BelongsToProcess
    <3>3. CASE x \in new
      <4>1. \E i \in 1..process'[pid].currentPThread : rings2[pid][i] = library
        <5>1. 2 \in 1..(n + 1)
          BY <2>7
        <5> HIDE DEF rings2, ring2
        <5> QED BY <2>17, <2>22, <5>1
      <4>2. NewThread(word', process', role2, of2, rings2, pid, t, stack, library)
        <5> HIDE DEF role2, of2, rings2, ring2
        <5> QED BY <2>4, <2>11, <2>15, <2>17, <4>1 DEF NewThread
      <4> HIDE DEF role2, of2, rings2
      <4> QED BY <3>3, <4>2, NewThreadOwners
    <3> QED BY <3>1, <3>2, <3>3
  <2>25. ProcessLayout(word', process', role2, of2, rings2)
    <3> HIDE DEF role2, of2, rings2
    <3> QED BY <2>17, <2>19, <2>21, <2>23, <2>24 DEF ProcessLayout
  <2>26. ObjectLayout(word', list', counter', waiting', role2, of2, objs, queue)
    <3>1. \A x \in new : role2[x] \notin ObjectRole
      BY <2>15 DEF ObjectRole
    <3>2. Untouched(ObjectRole, word, word', role, role2, of, of2)
      <4> HIDE DEF role2, of2, new
      <4> QED BY <2>5, <2>9, <2>12, <2>14, <3>1 DEF Untouched, ObjectRole
    <3>3. list' = list /\ counter' = counter /\ waiting' = waiting
      BY <2>2 DEF objects
    <3> HIDE DEF role2, of2
    <3> QED BY <2>6, <3>2, <3>3, ObjectFrame
  <2>27. bequeathed' = {} => Clean(word', role2)
    <3>1. \A x \in new : role2[x] \notin {"free", "waiter", "object"}
      BY <2>15
    <3> HIDE DEF role2, new
    <3> QED BY <1>3, <2>2, <2>9, <2>12, <2>14, <3>1 DEF Clean, Layout
  <2>28. ~reused' => InOrder(word', handedOut', role2)
    <3> SUFFICES ASSUME ~reused' PROVE InOrder(word', handedOut', role2)
      OBVIOUS
    <3>1. InOrder(word, handedOut, role)
      BY <1>3, <2>3 DEF Layout, HandsOut
    <3>2. IsSegment(handedOut') /\ stack = t + 1
      BY <2>3, <3>1 DEF HandsOut, InOrder, IsSegment
    <3>3. ASSUME NEW x \in Block, role2[x] = "library"
          PROVE  word'[word'[x][thread]][baseStack] = word'[x][thread] + 1
      <4>1. CASE x = library
        BY <2>11, <3>2, <4>1
      <4>2. CASE x # library
        <5>1. x \notin new
          BY <2>15, <3>3, <4>2
        <5>2. role[x] = "library" /\ word'[x][thread] = word[x][thread]
          BY <2>12, <2>13, <3>3, <5>1, Fields DEF thread, next
        <5>3. word[x][thread] \in Block /\ role[word[x][thread]] = "thread"
          BY <2>6, <5>2 DEF ProcessLayout, BelongsToProcess, HasThread
        <5>4. word'[word[x][thread]] = word[word[x][thread]]
          BY <2>5, <2>9, <2>14, <5>3
        <5> QED BY <3>1, <5>2, <5>4 DEF InOrder
      <4> QED BY <4>1, <4>2
    <3> HIDE DEF role2
    <3> QED BY <3>2, <3>3 DEF InOrder, IsSegment
  <2>29. kernel' # "stale"
    BY <2>2
  <2> HIDE DEF role2, of2, rings2
  <2> QED BY <2>16, <2>18, <2>25, <2>26, <2>27, <2>28, <2>29, NextPages
<1> QED BY <1>5, <1>6

LEMMA FreeProcessPages ==
  ASSUME PagesInv, NEW pid \in DOMAIN process, freeProcess(pid)
  PROVE  PagesInv'
<1>1. PICK role, of, rings, objs, queue : Layout(role, of, rings, objs, queue)
  BY DEF PagesInv
<1>2. ObjectTypes
  BY DEF PagesInv
<1>3. CASE kernel' = "corrupt" /\ UNCHANGED <<usedMap, word, processes, objects, created, history>>
  BY <1>3, SamePages
<1>4. CASE ~(kernel' = "corrupt" /\ UNCHANGED <<usedMap, word, processes, objects, created, history>>)
  <2>1. PICK page, name, words :
          /\ page = process[pid].page /\ name = process[pid].name
          /\ words = Put(word, page, next, JUNK)
    OBVIOUS
  <2>2. PICK gone, freed : /\ gone = Reaped(role, of, pid)
                           /\ freed = freeThreadLibrary(pid) \cup {process[pid].page, process[pid].slot}
    OBVIOUS
  <2>3. freed \subseteq gone /\ TkilledPages(pid) = gone \ freed
    BY <1>1, <2>2, ReapedIs
  <2>4. /\ GiveBack(words, freed)
        /\ process' = [q \in DOMAIN process \ {pid} |-> process[q]]
        /\ leaked' = leaked \cup {name} \cup (gone \ freed)
        /\ bequeathed' = bequeathed \cup {"process"}
        /\ UNCHANGED <<currentPid, objects, created, handedOut, reused, kernel>>
        /\ kernel = "running"
    BY <1>4, <2>1, <2>2, <2>3 DEF freeProcess, Put
  <2>5. /\ ProcessLayout(word, process, role, of, rings)
        /\ ObjectLayout(word, list, counter, waiting, role, of, objs, queue)
        /\ HasOwn(process, role, of, pid)
        /\ \A x \in Block : BelongsToProcess(word, process, role, of, rings, x)
    BY <1>1 DEF Layout, ProcessLayout
  <2>6. /\ page \in Block /\ role[page] = "page" /\ of[page] = pid
        /\ name \in Block /\ role[name] = "name" /\ of[name] = pid
    BY <2>1, <2>5, OwnFields DEF HasOwn
  <2>7. /\ page \in freed /\ name \notin gone
        /\ \A x \in gone : x \in Block /\ role[x] \in {"page", "slot", "library", "thread", "stack"}
    BY <2>1, <2>2, <2>6 DEF Reaped
  <2>8. word' \in Words /\ \A x \in Block : x \notin freed => word'[x] = word[x]
    <3>1. word \in Words
      BY <1>2 DEF ObjectTypes
    <3>2. Written(word, words, page, next, JUNK)
      BY <2>1, <2>6, <3>1, Cell, Fields
    <3>3. words \in Words /\ \A x \in Block : x # page => words[x] = word[x]
      BY <3>2 DEF Written
    <3>4. word' \in Words /\ \A x \in Block : x \notin freed => word'[x] = words[x]
      BY <2>4, <3>3, GivenBack
    <3> QED BY <2>7, <3>3, <3>4
  <2> DEFINE role2 == [x \in Block |->
               IF x \in freed THEN "free" ELSE IF x \in gone \/ x = name THEN "leaked" ELSE role[x]]
  <2>9. \A x \in Block : x \notin gone /\ x # name => role2[x] = role[x]
    BY <2>3
  <2>10. /\ \A x \in freed : role2[x] = "free"
         /\ \A x \in (gone \ freed) \cup {name} : role2[x] = "leaked"
    BY <2>3, <2>6, <2>7
  <2>11. /\ role2 \in [Block -> Role]
         /\ usedMap' = {x \in Block : role2[x] # "free"}
         /\ leaked' = {x \in Block : role2[x] = "leaked"}
    <3>1. role \in [Block -> Role] /\ usedMap = {x \in Block : role[x] # "free"}
          /\ leaked = {x \in Block : role[x] = "leaked"}
      BY <1>1 DEF Layout
    <3>2. usedMap' = usedMap \ freed /\ leaked' = leaked \cup {name} \cup (gone \ freed)
      BY <2>4 DEF GiveBack
    <3>4. \A x \in freed : role[x] # "leaked"
      BY <2>3, <2>7
    <3>5. \A x \in (gone \ freed) \cup {name} : x \in Block /\ role[x] # "free"
      BY <2>6, <2>7
    <3>3. role2 \in [Block -> Role]
      BY <3>1 DEF Role
    <3> HIDE DEF role2
    <3>6. usedMap' = {x \in Block : role2[x] # "free"}
      BY <2>3, <2>7, <2>9, <2>10, <3>1, <3>2, <3>5
    <3>7. leaked' = {x \in Block : role2[x] = "leaked"}
      BY <2>3, <2>7, <2>9, <2>10, <3>1, <3>2, <3>4, <3>5
    <3> QED BY <3>3, <3>6, <3>7
  <2>12. DOMAIN process' = DOMAIN process \ {pid}
         /\ \A q \in DOMAIN process' : process'[q] = process[q] /\ q # pid
    BY <2>4
  <2>13. ObjectTypes'
    <3>1. usedMap' \in SUBSET Block /\ handedOut' \in SUBSET Block /\ usedMap' \subseteq handedOut'
          /\ reused' \in BOOLEAN
      BY <1>2, <2>4 DEF ObjectTypes, GiveBack
    <3>2. list' = list /\ counter' = counter /\ waiting' = waiting /\ currentPid' = currentPid
      BY <2>4 DEF objects
    <3>3. process' = [q \in DOMAIN process' |-> process'[q]]
      BY <2>4
    <3> QED BY <1>2, <2>8, <2>12, <3>1, <3>2, <3>3 DEF ObjectTypes
  <2>14. ASSUME NEW q \in DOMAIN process'
         PROVE  HasOwn(process', role2, of, q) /\ HasRing(word', process', role2, of, rings, q)
    <3>1. HasOwn(process, role, of, q) /\ HasRing(word, process, role, of, rings, q)
      BY <2>5, <2>12 DEF ProcessLayout
    <3>2. process'[q] = process[q] /\ q # pid
      BY <2>12
    <3>3. \A x \in Block : role[x] \in {"page", "slot", "name", "library"} /\ of[x] = q =>
            role2[x] = role[x] /\ of[x] = q /\ word'[x] = word[x]
      <4> SUFFICES ASSUME NEW x \in Block, role[x] \in {"page", "slot", "name", "library"}, of[x] = q
                   PROVE  role2[x] = role[x] /\ word'[x] = word[x]
        OBVIOUS
      <4>1. x \notin gone /\ x # name
        BY <2>2, <2>6, <3>2 DEF Reaped
      <4> HIDE DEF role2
      <4> QED BY <2>3, <2>8, <2>9, <4>1
    <3> HIDE DEF role2
    <3> QED BY <3>1, <3>2, <3>3, RingFrame
  \* A thread goes with its node.
  <2>15. ASSUME NEW l \in Block, role[l] = "library", l \notin gone
         PROVE  /\ HasThread(word', role2, of, l) /\ StackAt(word', l) = StackAt(word, l)
                /\ word'[l] = word[l] /\ role2[l] = "library"
    <3>1. HasThread(word, role, of, l)
      BY <2>5, <2>15 DEF BelongsToProcess
    <3>2. of[l] # pid
      BY <2>2, <2>15 DEF Reaped
    <3>3. word'[l] = word[l] /\ role2[l] = "library"
      BY <2>3, <2>6, <2>8, <2>9, <2>15
    <3>4. \A x \in Block : role[x] \in {"thread", "stack"} /\ of[x] = l =>
            role2[x] = role[x] /\ of[x] = l /\ word'[x] = word[x]
      <4> SUFFICES ASSUME NEW x \in Block, role[x] \in {"thread", "stack"}, of[x] = l
                   PROVE  role2[x] = role[x] /\ word'[x] = word[x]
        OBVIOUS
      <4>1. x \notin gone /\ x # name
        BY <2>2, <2>6, <3>2 DEF Reaped
      <4> HIDE DEF role2
      <4> QED BY <2>3, <2>8, <2>9, <4>1
    <3> HIDE DEF role2
    <3> QED BY <3>1, <3>3, <3>4, ThreadFrame
  <2>16. ASSUME NEW x \in Block
         PROVE  BelongsToProcess(word', process', role2, of, rings, x)
    <3>1. CASE x \in gone \/ x = name
      BY <2>10, <3>1 DEF BelongsToProcess
    <3>2. CASE x \notin gone /\ x # name
      <4>1. role2[x] = role[x] /\ BelongsToProcess(word, process, role, of, rings, x)
        BY <2>5, <2>9, <3>2
      <4>2. role[x] \in {"page", "slot", "library"} => of[x] # pid
        BY <2>2, <3>2 DEF Reaped
      <4>3. role[x] = "name" => of[x] # pid
        BY <2>1, <3>2, <4>1 DEF BelongsToProcess
      <4>4. role[x] \in {"page", "slot", "name"} => BelongsToProcess(word', process', role2, of, rings, x)
        <5> HIDE DEF role2
        <5> QED BY <2>12, <4>1, <4>2, <4>3 DEF BelongsToProcess
      <4>5. CASE role[x] = "library"
        <5>1. HasThread(word', role2, of, x)
          BY <2>15, <3>2, <4>5
        <5> HIDE DEF role2
        <5> QED BY <2>12, <4>1, <4>2, <4>5, <5>1 DEF BelongsToProcess
      <4>6. CASE role[x] \in {"thread", "stack"}
        <5>1. of[x] \in Block /\ role[of[x]] = "library"
              /\ (role[x] = "thread" => word[of[x]][thread] = x)
              /\ (role[x] = "stack" => x \in StackAt(word, of[x]))
          BY <4>1, <4>6 DEF BelongsToProcess
        <5>2. of[x] \notin gone
          BY <2>2, <3>2, <4>6, <5>1 DEF Reaped
        <5>3. role2[of[x]] = "library" /\ word'[of[x]] = word[of[x]]
              /\ StackAt(word', of[x]) = StackAt(word, of[x])
          BY <2>15, <5>1, <5>2
        <5> HIDE DEF role2
        <5> QED BY <4>1, <4>6, <5>1, <5>3 DEF BelongsToProcess
      <4>7. CASE role[x] \notin ProcessRole
        <5> HIDE DEF role2
        <5> QED BY <4>1, <4>7 DEF BelongsToProcess, ProcessRole
      <4> HIDE DEF role2
      <4> QED BY <4>4, <4>5, <4>6, <4>7 DEF ProcessRole
    <3> QED BY <3>1, <3>2
  <2>17. ProcessLayout(word', process', role2, of, rings)
    <3> HIDE DEF role2
    <3> QED BY <2>14, <2>16 DEF ProcessLayout
  <2>18. ObjectLayout(word', list', counter', waiting', role2, of, objs, queue)
    <3>1. Untouched(ObjectRole, word, word', role, role2, of, of)
      <4> HIDE DEF role2
      <4> QED BY <2>6, <2>7, <2>8, <2>9, <2>10 DEF Untouched, ObjectRole
    <3>2. list' = list /\ counter' = counter /\ waiting' = waiting
      BY <2>4 DEF objects
    <3> HIDE DEF role2
    <3> QED BY <2>5, <3>1, <3>2, ObjectFrame
  <2>19. bequeathed' # {}
    BY <2>4
  <2>20. ~reused' => InOrder(word', handedOut', role2)
    <3> SUFFICES ASSUME ~reused' PROVE InOrder(word', handedOut', role2)
      OBVIOUS
    <3>1. InOrder(word, handedOut, role) /\ handedOut' = handedOut
      BY <1>1, <2>4 DEF Layout
    <3>2. ASSUME NEW x \in Block, role2[x] = "library"
          PROVE  word'[word'[x][thread]][baseStack] = word'[x][thread] + 1
      <4>1. x \notin gone /\ x # name
        BY <2>10, <3>2
      <4>2. role[x] = "library"
        BY <2>9, <3>2, <4>1
      <4>3. word'[x] = word[x] /\ HasThread(word', role2, of, x)
        BY <2>15, <4>1, <4>2
      <4>4. word[x][thread] \in Block /\ role2[word[x][thread]] = "thread"
        <5> HIDE DEF role2
        <5> QED BY <4>3 DEF HasThread
      <4>5. word'[word[x][thread]] = word[word[x][thread]]
        <5> HIDE DEF role2
        <5> QED BY <2>8, <2>10, <4>4
      <4> QED BY <3>1, <4>2, <4>3, <4>5 DEF InOrder
    <3> HIDE DEF role2
    <3> QED BY <3>1, <3>2 DEF InOrder
  <2>21. kernel' # "stale"
    BY <2>4
  <2> HIDE DEF role2
  <2> QED BY <2>11, <2>13, <2>17, <2>18, <2>19, <2>20, <2>21, NextPages
<1> QED BY <1>3, <1>4

LEMMA RemoveThreadPages ==
  ASSUME PagesInv, NEW pid \in DOMAIN process, NEW pthread, removeThread(pid, pthread)
  PROVE  PagesInv'
<1>1. PICK role, of, rings, objs, queue : Layout(role, of, rings, objs, queue)
  BY DEF PagesInv
<1>2. ObjectTypes
  BY DEF PagesInv
<1>3. CASE kernel' = "corrupt" /\ UNCHANGED <<usedMap, word, processes, objects, created, history>>
  BY <1>3, SamePages
<1>4. CASE ~(kernel' = "corrupt" /\ UNCHANGED <<usedMap, word, processes, objects, created, history>>)
  <2>1. /\ process' = [process EXCEPT ![pid].threadSize = @ - 1, ![pid].tkilled = @ + 1]
        /\ UNCHANGED <<usedMap, word, currentPid, objects, history, kernel>> /\ kernel = "running"
    BY <1>4 DEF removeThread
  <2>2. /\ usedMap' = usedMap /\ word' = word /\ currentPid' = currentPid
        /\ list' = list /\ counter' = counter /\ waiting' = waiting /\ leaked' = leaked
        /\ handedOut' = handedOut /\ reused' = reused /\ bequeathed' = bequeathed
        /\ kernel' = "running"
    BY <2>1 DEF objects, history
  <2>3. /\ ProcessLayout(word, process, role, of, rings)
        /\ ObjectLayout(word, list, counter, waiting, role, of, objs, queue)
    BY <1>1 DEF Layout
  <2>4. /\ process = [q \in DOMAIN process |-> process[q]]
        /\ DOMAIN process' = DOMAIN process /\ process' = [q \in DOMAIN process |-> process'[q]]
        /\ \A q \in DOMAIN process : q # pid => process'[q] = process[q]
        /\ process'[pid] = [process[pid] EXCEPT !.threadSize = @ - 1, !.tkilled = @ + 1]
    BY <1>2, <2>1 DEF ObjectTypes
  <2>5. HasOwn(process, role, of, pid)
    BY <2>3 DEF ProcessLayout
  <2>6. /\ process'[pid] \in ProcessRecord
        /\ process'[pid].threadSize = process'[pid].currentPThread - process'[pid].tkilled
        /\ process'[pid].page = process[pid].page /\ process'[pid].slot = process[pid].slot
        /\ process'[pid].name = process[pid].name
        /\ process'[pid].currentPThread = process[pid].currentPThread
    <3>1. PICK own : own = process[pid]
      OBVIOUS
    <3>2. PICK own2 : own2 = [own EXCEPT !.threadSize = @ - 1, !.tkilled = @ + 1]
      OBVIOUS
    <3>3. own \in ProcessRecord /\ own.threadSize = own.currentPThread - own.tkilled
      BY <2>5, <3>1 DEF HasOwn
    <3>4. /\ own2 \in ProcessRecord /\ own2.threadSize = own2.currentPThread - own2.tkilled
          /\ own2.page = own.page /\ own2.slot = own.slot /\ own2.name = own.name
          /\ own2.currentPThread = own.currentPThread
      <4>1. PICK s, c, k : s = own.threadSize - 1 /\ c = own.currentPThread /\ k = own.tkilled + 1
        OBVIOUS
      <4>2. s \in Int /\ c \in Nat \ {0} /\ k \in Nat /\ s = c - k
        BY <3>3, <4>1, OwnFields
      <4>3. own2 = [own EXCEPT !.threadSize = s, !.currentPThread = c, !.tkilled = k]
        BY <3>2, <3>3, <4>1 DEF ProcessRecord
      <4>4. /\ own2 \in ProcessRecord
            /\ own2.page = own.page /\ own2.slot = own.slot /\ own2.name = own.name
            /\ own2.threadSize = s /\ own2.currentPThread = c /\ own2.tkilled = k
        BY <3>3, <4>2, <4>3 DEF ProcessRecord
      <4> QED BY <4>1, <4>2, <4>4
    <3> QED BY <2>4, <3>1, <3>2, <3>4
  <2>7. \A q \in DOMAIN process :
          /\ process'[q].page = process[q].page /\ process'[q].slot = process[q].slot
          /\ process'[q].name = process[q].name
          /\ process'[q].currentPThread = process[q].currentPThread
    BY <2>4, <2>6
  <2>8. ASSUME NEW q \in DOMAIN process
        PROVE  HasOwn(process', role, of, q) /\ HasRing(word, process', role, of, rings, q)
    <3>1. HasOwn(process, role, of, q) /\ HasRing(word, process, role, of, rings, q)
      BY <2>3 DEF ProcessLayout
    <3>2. HasOwn(process', role, of, q)
      BY <2>4, <2>6, <2>7, <3>1 DEF HasOwn
    <3>3. HasRing(word, process', role, of, rings, q)
      BY <2>7, <3>1 DEF HasRing
    <3> QED BY <3>2, <3>3
  <2>9. ASSUME NEW b \in Block
        PROVE  BelongsToProcess(word, process', role, of, rings, b)
    <3>1. BelongsToProcess(word, process, role, of, rings, b)
      BY <2>3 DEF ProcessLayout
    <3> QED BY <2>4, <2>7, <3>1 DEF BelongsToProcess
  <2>10. ProcessLayout(word', process', role, of, rings)
    BY <2>2, <2>4, <2>8, <2>9 DEF ProcessLayout
  <2>11. ObjectTypes'
    BY <1>2, <2>2, <2>4 DEF ObjectTypes
  <2>12. /\ role \in [Block -> Role]
         /\ usedMap' = {b \in Block : role[b] # "free"}
         /\ leaked' = {b \in Block : role[b] = "leaked"}
         /\ bequeathed' = {} => Clean(word', role)
         /\ ~reused' => InOrder(word', handedOut', role)
    BY <1>1, <2>2 DEF Layout
  <2>13. ObjectLayout(word', list', counter', waiting', role, of, objs, queue)
    BY <2>2, <2>3
  <2>14. kernel' # "stale"
    BY <2>2
  <2> QED BY <2>10, <2>11, <2>12, <2>13, <2>14, NextPages
<1> QED BY <1>3, <1>4

(***************************************************************************)
(* The theorems.                                                           *)
(***************************************************************************)
LEMMA PagesStep ==
  ASSUME NUMBER_OF_PAGES \in Nat \ {0}, PagesInv, [Next]_objectVars
  PROVE  PagesInv'
<1>1. CASE addProcess
  BY <1>1, AddProcessPages
<1>2. ASSUME NEW pid \in DOMAIN process, addThreadToProcess(pid) \/ freeProcess(pid)
      PROVE  PagesInv'
  BY <1>2, AddThreadPages, FreeProcessPages
<1>6. ASSUME NEW pid \in DOMAIN process, NEW pthread, removeThread(pid, pthread)
      PROVE  PagesInv'
  BY <1>6, RemoveThreadPages
<1>3. ASSUME NEW k \in Kind, Create(k)
      PROVE  PagesInv'
  BY <1>3, CreatePages
<1>4. ASSUME NEW k \in Kind, NEW id \in DOMAIN waiting[k],
             RequestAccess(k, id) \/ Unlock(k, id) \/ Destroy(k, id)
      PROVE  PagesInv'
  BY <1>4, RequestAccessPages, UnlockPages, DestroyPages
<1>5. CASE UNCHANGED objectVars
  BY <1>5, SamePages DEF objectVars, PagesInv, FirstUseIsClean, history
<1> QED BY <1>1, <1>2, <1>3, <1>4, <1>5, <1>6 DEF Next

LEMMA PagesInvariant == Spec => []PagesInv
<1>1. Init => PagesInv
  BY InitPages
<1>2. PagesInv /\ [Next]_objectVars => PagesInv'
  BY StackAssumption, PagesStep
<1> QED BY <1>1, <1>2, PTL DEF Spec

\* A thread that a process has, and its pages.
LEMMA ThreadOf ==
  ASSUME NEW role, NEW of, NEW rings, NEW objs, NEW queue, Layout(role, of, rings, objs, queue),
         NEW pid \in DOMAIN process, NEW k \in DOMAIN Library(pid), NEW b, b = Library(pid)[k]
  PROVE  /\ b \in Block /\ role[b] = "library" /\ of[b] = pid /\ b = rings[pid][k]
         /\ HasThread(word, role, of, b)
         /\ ThreadPages(b) = {b, word[b][thread]} \cup StackAt(word, b)
         /\ \A x \in ThreadPages(b) :
              x \in Block /\ role[x] \in {"library", "thread", "stack"}
              /\ (IF role[x] = "library" THEN x ELSE of[x]) = b
<1>1. HasRing(word, process, role, of, rings, pid) /\ Library(pid) = rings[pid]
  BY Walks DEF Layout, ProcessLayout
<1>2. b \in Block /\ role[b] = "library" /\ of[b] = pid /\ b = rings[pid][k]
  <2>1. PICK n, ring : n = process[pid].currentPThread /\ ring = rings[pid]
    OBVIOUS
  <2>2. ring \in [1..n -> Block] /\ \A i \in 1..n : role[ring[i]] = "library" /\ of[ring[i]] = pid
    BY <1>1, <2>1 DEF HasRing
  <2>3. k \in 1..n /\ b = ring[k]
    BY <1>1, <2>1, <2>2
  <2> QED BY <2>1, <2>2, <2>3
<1>3. HasThread(word, role, of, b)
  BY <1>2 DEF Layout, ProcessLayout, BelongsToProcess
<1>4. ThreadPages(b) = {b, word[b][thread]} \cup StackAt(word, b)
  BY DEF ThreadPages, StackOf, StackAt
<1>5. \A x \in ThreadPages(b) :
        x \in Block /\ role[x] \in {"library", "thread", "stack"}
        /\ (IF role[x] = "library" THEN x ELSE of[x]) = b
  BY <1>2, <1>3, <1>4 DEF HasThread
<1> QED BY <1>2, <1>3, <1>4, <1>5

LEMMA PagesImplyThreads ==
  ASSUME NUMBER_OF_PAGES \in Nat \ {0}, PagesInv
  PROVE  ThreadsAreApart
<1>1. PICK role, of, rings, objs, queue : Layout(role, of, rings, objs, queue)
  BY DEF PagesInv
<1> DEFINE Node == UNION {{<<pid, k>> : k \in DOMAIN Library(pid)} : pid \in DOMAIN process}
           pages(n) == ThreadPages(Library(n[1])[n[2]])
<1>2. ASSUME NEW n \in Node
      PROVE  n[1] \in DOMAIN process /\ n[2] \in DOMAIN Library(n[1]) /\ n = <<n[1], n[2]>>
  OBVIOUS
<1>3. ASSUME NEW n \in Node PROVE pages(n) \subseteq usedMap
  <2>1. PICK pid, k : pid = n[1] /\ k = n[2] /\ pid \in DOMAIN process /\ k \in DOMAIN Library(pid)
    BY <1>2
  <2>2. \A x \in pages(n) : x \in Block /\ role[x] \in {"library", "thread", "stack"}
    BY <1>1, <2>1, ThreadOf
  <2> HIDE DEF pages
  <2> QED BY <1>1, <2>2 DEF Layout
<1>4. ASSUME NEW n \in Node PROVE Cardinality(pages(n)) = 2 + NUMBER_OF_PAGES
  <2>1. PICK pid, k : pid = n[1] /\ k = n[2] /\ pid \in DOMAIN process /\ k \in DOMAIN Library(pid)
    BY <1>2
  <2>2. PICK b : b = Library(pid)[k]
    OBVIOUS
  <2>3. PICK t : t = word[b][thread]
    OBVIOUS
  <2>4. PICK first : first = word[t][baseStack]
    OBVIOUS
  <2>5. /\ b \in Block /\ role[b] = "library" /\ HasThread(word, role, of, b)
        /\ ThreadPages(b) = {b, word[b][thread]} \cup StackAt(word, b)
    BY <1>1, <2>1, <2>2, ThreadOf
  <2>6. /\ t \in Block /\ role[t] = "thread" /\ StackAt(word, b) = Run(first, NUMBER_OF_PAGES)
        /\ \A x \in StackAt(word, b) : role[x] = "stack"
    BY <2>3, <2>4, <2>5 DEF HasThread, StackAt
  <2>7. first \in Int
    <3>1. word \in Words
      BY DEF PagesInv, ObjectTypes
    <3> QED BY <2>4, <2>6, <3>1, Fields DEF Words
  <2>8. PICK last : last = first + NUMBER_OF_PAGES - 1 /\ last \in Int /\ first <= last
    BY <2>7
  <2>9. PICK S : S = first..last
    OBVIOUS
  <2>10. S = StackAt(word, b)
    BY <2>6, <2>8, <2>9 DEF Run
  <2>11. IsFiniteSet(S) /\ Cardinality(S) = last - first + 1
    BY <2>7, <2>8, <2>9, FS_Interval
  <2>12. t \notin S /\ b \notin S \cup {t}
    BY <2>5, <2>6, <2>10
  <2>13. IsFiniteSet(S \cup {t}) /\ Cardinality(S \cup {t}) = Cardinality(S) + 1
    BY <2>11, <2>12, FS_AddElement
  <2>14. Cardinality(S \cup {t} \cup {b}) = Cardinality(S \cup {t}) + 1
    BY <2>12, <2>13, FS_AddElement
  <2>15. pages(n) = S \cup {t} \cup {b}
    BY <2>1, <2>2, <2>3, <2>5, <2>10
  <2>16. Cardinality(pages(n)) = last - first + 1 + 1 + 1
    BY <2>11, <2>13, <2>14, <2>15
  <2>17. last - first + 1 + 1 + 1 = 2 + NUMBER_OF_PAGES
    BY <2>7, <2>8
  <2> QED BY <2>16, <2>17
<1>5. ASSUME NEW n \in Node, NEW m \in Node, n # m
      PROVE  pages(n) \cap pages(m) = {}
  <2>1. PICK p, k : p = n[1] /\ k = n[2] /\ p \in DOMAIN process /\ k \in DOMAIN Library(p)
    BY <1>2
  <2>2. PICK q, j : q = m[1] /\ j = m[2] /\ q \in DOMAIN process /\ j \in DOMAIN Library(q)
    BY <1>2
  <2>3. PICK b, c : b = Library(p)[k] /\ c = Library(q)[j]
    OBVIOUS
  <2>4. b # c
    <3> SUFFICES ASSUME b = c PROVE FALSE
      OBVIOUS
    <3>1. b = rings[p][k] /\ of[b] = p
      BY <1>1, <2>1, <2>3, ThreadOf
    <3>2. c = rings[q][j] /\ of[c] = q
      <4>1. q \in DOMAIN process /\ j \in DOMAIN Library(q) /\ c = Library(q)[j]
        BY <2>2, <2>3
      <4>2. \A x : x = Library(q)[j] => x = rings[q][j] /\ of[x] = q
        BY <1>1, <4>1, ThreadOf
      <4> QED BY <4>1, <4>2
    <3>3. p = q
      BY <3>1, <3>2
    <3>4. HasRing(word, process, role, of, rings, p) /\ Library(p) = rings[p]
      BY <1>1, <2>1, Walks DEF Layout, ProcessLayout
    <3>5. k = j
      <4>1. k \in DOMAIN rings[p] /\ j \in DOMAIN rings[p]
        BY <2>1, <2>2, <3>3, <3>4
      <4>3. k \in 1..process[p].currentPThread /\ j \in 1..process[p].currentPThread
        BY <3>4, <4>1 DEF HasRing
      <4>2. rings[p][k] = rings[p][j]
        BY <3>1, <3>2, <3>3
      <4> QED BY <3>4, <4>2, <4>3 DEF HasRing
    <3> QED BY <1>2, <1>5, <2>1, <2>2, <3>3, <3>5
  <2>5. \A x \in ThreadPages(b) : (IF role[x] = "library" THEN x ELSE of[x]) = b
    BY <1>1, <2>1, <2>2, <2>3, ThreadOf
  <2>6. \A x \in ThreadPages(c) : (IF role[x] = "library" THEN x ELSE of[x]) = c
    BY <1>1, <2>1, <2>2, <2>3, ThreadOf
  <2>7. pages(n) = ThreadPages(b) /\ pages(m) = ThreadPages(c)
    BY <2>1, <2>2, <2>3
  <2> HIDE DEF pages
  <2> QED BY <2>4, <2>5, <2>6, <2>7
<1>6. ASSUME NEW n \in Node, NEW pid \in DOMAIN process PROVE pages(n) \cap Own(pid) = {}
  <2>1. PICK p, k : p = n[1] /\ k = n[2] /\ p \in DOMAIN process /\ k \in DOMAIN Library(p)
    BY <1>2
  <2>2. \A x \in pages(n) : x \in Block /\ role[x] \in {"library", "thread", "stack"}
    BY <1>1, <2>1, ThreadOf
  <2>3. \A x \in Own(pid) : role[x] \in {"page", "slot", "name"}
    BY <1>1 DEF Layout, ProcessLayout, HasOwn, Own
  <2> HIDE DEF pages
  <2> QED BY <2>2, <2>3
<1>7. ASSUME NEW pid \in DOMAIN process
      PROVE  word[Library(pid)[process[pid].currentPThread]][next] = Library(pid)[1]
  BY <1>1, Walks DEF Layout, ProcessLayout, HasRing
<1>8. ThreadsAreOwned
  BY <1>3, <1>4, <1>5, <1>6, <1>7 DEF ThreadsAreOwned
<1>9. FrameInOwnThread
  <2> SUFFICES ASSUME ~reused, NEW pid \in DOMAIN process, NEW k \in DOMAIN Library(pid)
               PROVE  LET t == word[Library(pid)[k]][thread] IN word[t][baseStack] - 1 = t
    BY DEF FrameInOwnThread
  <2>1. PICK b : b = Library(pid)[k]
    OBVIOUS
  <2>2. PICK t : t = word[b][thread]
    OBVIOUS
  <2>3. b \in Block /\ role[b] = "library" /\ HasThread(word, role, of, b)
    BY <1>1, <2>1, ThreadOf
  <2>4. word[t][baseStack] = t + 1
    BY <1>1, <2>2, <2>3 DEF Layout, InOrder
  <2>5. t \in Int
    BY <2>2, <2>3, Fields DEF HasThread
  <2> QED BY <2>1, <2>2, <2>4, <2>5
<1> QED BY <1>8, <1>9 DEF ThreadsAreApart

LEMMA PagesImplyLists == ASSUME PagesInv PROVE ListsAreExact
<1>1. PICK role, of, rings, objs, queue : Layout(role, of, rings, objs, queue)
  BY DEF PagesInv
<1>2. ASSUME NEW k \in Kind, NEW s, s = Nodes(k)
      PROVE  /\ {word[s[i]][thread] : i \in DOMAIN s} = DOMAIN waiting[k]
             /\ \A i, j \in DOMAIN s : i < j => word[s[i]][thread] < word[s[j]][thread]
             /\ \A i \in DOMAIN s :
                  Len(Chain(word, word[s[i]][blockedThreadList])) = waiting[k][word[s[i]][thread]]
  <2>1. s = objs[k]
    BY <1>1, <1>2, Walks
  <2>2. HasList(word, list, counter, waiting, role, of, objs, k)
    BY <1>1 DEF Layout, ObjectLayout
  <2>3. s \in Seq(Block) /\ DOMAIN s = 1..Len(s)
    BY <2>1, <2>2 DEF HasList, Linked
  <2>4. ASSUME NEW i \in DOMAIN s
        PROVE  Len(Chain(word, word[s[i]][blockedThreadList])) = waiting[k][word[s[i]][thread]]
    <3>1. s[i] \in Block /\ role[s[i]] = "object" /\ of[s[i]] = k
      BY <2>1, <2>2, <2>3 DEF HasList
    <3>2. HasQueue(word, waiting, role, of, queue, s[i])
      BY <1>1, <3>1 DEF Layout, ObjectLayout, BelongsToObject
    <3>3. Chain(word, word[s[i]][blockedThreadList]) = queue[s[i]]
      BY <1>1, <3>1, Walks
    <3> QED BY <3>1, <3>2, <3>3 DEF HasQueue
  <2> QED BY <2>1, <2>2, <2>3, <2>4 DEF HasList
<1> QED BY <1>2 DEF ListsAreExact

LEMMA PagesImplyLeaks == ASSUME PagesInv PROVE OnlyKnownLeaks
<1>1. PICK role, of, rings, objs, queue : Layout(role, of, rings, objs, queue)
  BY DEF PagesInv
<1> DEFINE OfProcess(pid) ==
             Own(pid) \cup UNION {ThreadPages(Library(pid)[k]) : k \in DOMAIN Library(pid)}
           OfObject(node) == {node} \cup Range(Chain(word, word[node][blockedThreadList]))
           OfKind(k) == UNION {OfObject(node) : node \in Range(Nodes(k))}
<1>2. /\ role \in [Block -> Role] /\ usedMap = {b \in Block : role[b] # "free"}
      /\ leaked = {b \in Block : role[b] = "leaked"}
      /\ \A b \in Block : BelongsToProcess(word, process, role, of, rings, b)
      /\ \A b \in Block : BelongsToObject(word, waiting, role, of, objs, queue, b)
  BY <1>1 DEF Layout, ProcessLayout, ObjectLayout
<1>3. ASSUME NEW k \in Kind
      PROVE  /\ Range(Nodes(k)) = {objs[k][i] : i \in 1..Len(objs[k])}
             /\ \A b \in Range(Nodes(k)) : b \in Block /\ role[b] = "object"
  <2>1. HasList(word, list, counter, waiting, role, of, objs, k) /\ Nodes(k) = objs[k]
    BY <1>1, Walks DEF Layout, ObjectLayout
  <2>2. objs[k] \in Seq(Block)
    BY <2>1 DEF HasList, Linked
  <2>3. Range(Nodes(k)) = {objs[k][i] : i \in 1..Len(objs[k])}
    BY <2>1, <2>2 DEF Range
  <2> QED BY <2>1, <2>2, <2>3 DEF HasList
<1>4. ASSUME NEW b \in Block, role[b] = "object"
      PROVE  /\ Range(Chain(word, word[b][blockedThreadList])) = {queue[b][i] : i \in 1..Len(queue[b])}
             /\ \A x \in OfObject(b) : x \in Block /\ role[x] \in {"object", "waiter"}
  <2>1. HasQueue(word, waiting, role, of, queue, b)
    BY <1>2, <1>4 DEF BelongsToObject
  <2>2. Chain(word, word[b][blockedThreadList]) = queue[b]
    BY <1>1, <1>4, Walks
  <2>3. queue[b] \in Seq(Block)
    BY <2>1 DEF HasQueue, Linked
  <2>4. Range(Chain(word, word[b][blockedThreadList])) = {queue[b][i] : i \in 1..Len(queue[b])}
    BY <2>2, <2>3 DEF Range
  <2>5. \A i \in 1..Len(queue[b]) : queue[b][i] \in Block /\ role[queue[b][i]] = "waiter"
    BY <2>1, <2>3 DEF HasQueue
  <2> QED BY <1>4, <2>4, <2>5
<1>5. ASSUME NEW pid \in DOMAIN process, NEW b \in Block, role[b] = "library", of[b] = pid
      PROVE  \E k \in DOMAIN Library(pid) : Library(pid)[k] = b
  <2>1. Library(pid) = rings[pid] /\ HasRing(word, process, role, of, rings, pid)
    BY <1>1, Walks DEF Layout, ProcessLayout
  <2>2. DOMAIN Library(pid) = 1..process[pid].currentPThread
    BY <2>1 DEF HasRing
  <2>3. \E i \in 1..process[pid].currentPThread : rings[pid][i] = b
    BY <1>2, <1>5 DEF BelongsToProcess
  <2> QED BY <2>1, <2>2, <2>3
<1>6. \A b \in Block : ThreadPages(b) = {b, word[b][thread]} \cup StackAt(word, b)
  BY DEF ThreadPages, StackOf, StackAt
<1>7. ASSUME NEW x \in usedMap
      PROVE  \/ x \in leaked
             \/ \E pid \in DOMAIN process : x \in OfProcess(pid)
             \/ \E k \in Kind : \E node \in Range(Nodes(k)) : x \in OfObject(node)
  <2>1. x \in Block /\ role[x] # "free" /\ BelongsToProcess(word, process, role, of, rings, x)
        /\ BelongsToObject(word, waiting, role, of, objs, queue, x)
    BY <1>2
  <2>2. CASE role[x] = "leaked"
    BY <1>2, <2>1, <2>2
  <2>3. CASE role[x] \in {"page", "slot", "name"}
    <3>1. of[x] \in DOMAIN process /\ x \in Own(of[x])
      BY <2>1, <2>3 DEF BelongsToProcess, Own
    <3> QED BY <3>1
  <2>4. ASSUME NEW b \in Block, role[b] = "library", x \in ThreadPages(b)
        PROVE  \E pid \in DOMAIN process : x \in OfProcess(pid)
    <3>1. of[b] \in DOMAIN process
      BY <1>2, <2>4 DEF BelongsToProcess
    <3>2. PICK pid \in DOMAIN process : pid = of[b]
      BY <3>1
    <3>3. PICK k \in DOMAIN Library(pid) : Library(pid)[k] = b
      BY <1>5, <2>4, <3>2
    <3>4. x \in OfProcess(pid)
      BY <2>4, <3>3
    <3> QED BY <3>4
  <2>5. CASE role[x] = "library"
    <3>1. x \in ThreadPages(x)
      BY <1>6, <2>1
    <3> QED BY <2>1, <2>4, <2>5, <3>1
  <2>6. CASE role[x] \in {"thread", "stack"}
    <3>1. of[x] \in Block /\ role[of[x]] = "library" /\ x \in ThreadPages(of[x])
      BY <1>6, <2>1, <2>6 DEF BelongsToProcess
    <3> QED BY <2>4, <3>1
  <2>7. ASSUME NEW b \in Block, role[b] = "object"
        PROVE  \E k \in Kind : b \in Range(Nodes(k))
    <3>1. of[b] \in Kind /\ \E i \in 1..Len(objs[of[b]]) : objs[of[b]][i] = b
      BY <1>2, <2>7 DEF BelongsToObject
    <3> QED BY <1>3, <3>1
  <2>8. CASE role[x] = "object"
    BY <2>1, <2>7, <2>8
  <2>9. CASE role[x] = "waiter"
    <3>1. of[x] \in Block /\ role[of[x]] = "object"
          /\ \E i \in 1..Len(queue[of[x]]) : queue[of[x]][i] = x
      BY <2>1, <2>9 DEF BelongsToObject
    <3>2. x \in OfObject(of[x])
      BY <1>4, <3>1
    <3> HIDE DEF OfObject
    <3> QED BY <2>7, <3>1, <3>2
  <2>10. role[x] \in Role
    BY <1>2, <2>1
  <2> HIDE DEF OfObject, OfProcess
  <2> QED BY <2>1, <2>2, <2>3, <2>5, <2>6, <2>8, <2>9, <2>10 DEF Role, ProcessRole, ObjectRole
<1>8. leaked \subseteq usedMap
  BY <1>2
<1>9. ASSUME NEW pid \in DOMAIN process PROVE OfProcess(pid) \subseteq usedMap
  <2>1. \A x \in Own(pid) : x \in Block /\ role[x] \in {"page", "slot", "name"}
    <3>1. HasOwn(process, role, of, pid)
      BY <1>1 DEF Layout, ProcessLayout
    <3> QED BY <3>1, OwnFields DEF HasOwn, Own
  <2>2. \A k \in DOMAIN Library(pid) : \A x \in ThreadPages(Library(pid)[k]) :
          x \in Block /\ role[x] \in {"library", "thread", "stack"}
    BY <1>1, ThreadOf
  <2> QED BY <1>2, <2>1, <2>2
<1>10. ASSUME NEW k \in Kind, NEW node \in Range(Nodes(k)) PROVE OfObject(node) \subseteq usedMap
  <2>1. node \in Block /\ role[node] = "object"
    BY <1>3
  <2>2. \A x \in OfObject(node) : x \in Block /\ role[x] \in {"object", "waiter"}
    BY <1>4, <2>1
  <2> HIDE DEF OfObject
  <2> QED BY <1>2, <2>2
<1>11. usedMap = leaked \cup (UNION {OfProcess(pid) : pid \in DOMAIN process})
                   \cup (UNION {OfKind(k) : k \in Kind})
  <2> DEFINE P == UNION {OfProcess(pid) : pid \in DOMAIN process}
             O == UNION {OfKind(k) : k \in Kind}
  <2> HIDE DEF OfObject, OfProcess
  <2>1. P \subseteq usedMap
    BY <1>9
  <2>2. O \subseteq usedMap
    <3>1. \A k \in Kind : OfKind(k) \subseteq usedMap
      BY <1>10
    <3> HIDE DEF OfKind
    <3> QED BY <3>1
  <2>3. \A pid \in DOMAIN process : OfProcess(pid) \subseteq P
    OBVIOUS
  <2>4. \A k \in Kind : \A node \in Range(Nodes(k)) : OfObject(node) \subseteq O
    <3>1. \A k \in Kind : \A node \in Range(Nodes(k)) : OfObject(node) \subseteq OfKind(k)
      OBVIOUS
    <3>2. \A k \in Kind : OfKind(k) \subseteq O
      <4> HIDE DEF OfKind
      <4> QED OBVIOUS
    <3> HIDE DEF OfKind, O
    <3> QED BY <3>1, <3>2
  <2> HIDE DEF P, O, OfKind
  <2>5. \A x \in usedMap : x \in leaked \cup P \cup O
    BY <1>7, <2>3, <2>4
  <2>6. usedMap = leaked \cup P \cup O
    BY <1>8, <2>1, <2>2, <2>5
  <2> QED BY <2>6 DEF P, O
<1> QED BY <1>11 DEF OnlyKnownLeaks

\* Each thread of a process is in the list of its process once, with pages of its own,
\* for stacks of any size and any number of pages, and until pages are used again the
\* first frame of a thread lies in its own page (process.c:38-45, threads.c:9-107).
THEOREM KeepsThreadsApart == Spec => []ThreadsAreApart
<1>1. PagesInv => ThreadsAreApart
  BY StackAssumption, PagesImplyThreads
<1> QED BY <1>1, PagesInvariant, PTL

\* The lists of mutexes and semaphores hold the objects there are, in the order in which
\* they were created, each with the threads that wait at it, through any creations and
\* ends on pages that were used before (mutex.c:9-113, semaphores.c:11-117).
THEOREM KeepsListsExact == Spec => []ListsAreExact
<1>1. PagesInv => ListsAreExact
  BY PagesImplyLists
<1> QED BY <1>1, PagesInvariant, PTL

\* A page that is reserved and belongs to nothing was the name of a process that ended, one
\* of as many of its threads as tkill was called for, or a thread that waited at an
\* object that was destroyed (process.c:38-45, scheduler.c:283-298, threads.c:87-107,
\* mutex.c:55-70).
THEOREM OtherPagesComeBack == Spec => []OnlyKnownLeaks
<1>1. PagesInv => OnlyKnownLeaks
  BY PagesImplyLeaks
<1> QED BY <1>1, PagesInvariant, PTL

\* A new process or object finds pointers on its page only when something that was given
\* back had some (process.c:9-25, mutex.c:9-26, semaphores.c:11-28).
THEOREM FirstPagesAreClean == Spec => []FirstUseIsClean
<1>1. PagesInv => FirstUseIsClean
  BY DEF PagesInv
<1> QED BY <1>1, PagesInvariant, PTL

(***************************************************************************)
(* The heaps of the processes.                                             *)
(***************************************************************************)
\* The pointers next of the nodes, as the words the lemmas on lists are about.
Links(nodes) == [b \in Block |-> <<nodes[b].next>>]

LEMMA LinksAre == ASSUME NEW nodes, NEW b \in Block PROVE Links(nodes)[b][next] = nodes[b].next
BY DEF Links, next

\* The list of a process as malloc, free and exit walk it.
LEMMA HeapWalk ==
  ASSUME NEW p, NEW s, Linked(Links(heapNode), heap[p], s)
  PROVE  /\ \A n \in 0..blocksAmount : Pointers(p)[n] = NodeAt(s, n + 1)
         /\ Ends(p)
<1> DEFINE Next1(prev) == IF prev \in Block THEN heapNode[prev].next ELSE prev
           Step(f) == [n \in 0..blocksAmount |-> IF n = 0 THEN heap[p] ELSE Next1(f[n - 1])]
           at == CHOOSE f : f = Step(f)
           U == [n \in 0..blocksAmount |-> NodeAt(s, n + 1)]
<1>1. Pointers(p) = at
  BY DEF Pointers
<1>2. blocksAmount \in Nat
  BY BlocksAssumption
<1>3. PICK m : m = Len(s) /\ m \in Nat /\ m <= blocksAmount /\ \A i \in 1..m : s[i] \in Block
  BY ShortList DEF Linked
<1>4. heap[p] = NodeAt(s, 1)
  BY DEF Linked
<1>5. ASSUME NEW n \in 1..blocksAmount
      PROVE  Next1(NodeAt(s, n)) = NodeAt(s, n + 1)
  <2>1. CASE n \in 1..m
    <3>1. NodeAt(s, n) = s[n] /\ s[n] \in Block
      BY <1>3, <2>1 DEF NodeAt
    <3>2. Links(heapNode)[s[n]][next] = NodeAt(s, n + 1)
      BY <1>3, <2>1 DEF Linked
    <3> QED BY <3>1, <3>2, LinksAre
  <2>2. CASE n \notin 1..m
    <3>1. n + 1 \notin 1..m
      BY <1>3, <2>2
    <3>2. NodeAt(s, n) = NULL /\ NodeAt(s, n + 1) = NULL
      BY <1>3, <2>2, <3>1 DEF NodeAt
    <3> QED BY <3>2, NoBlock
  <2> QED BY <2>1, <2>2
<1> HIDE DEF Next1
<1>6. U = Step(U)
  <2>1. \A n \in 1..blocksAmount : U[n - 1] = NodeAt(s, n)
    <3>1. \A n \in 1..blocksAmount : n - 1 \in 0..blocksAmount /\ n - 1 + 1 = n
      BY <1>2
    <3> QED BY <3>1
  <2>2. \A n \in 0..blocksAmount : NodeAt(s, n + 1) = IF n = 0 THEN heap[p] ELSE Next1(U[n - 1])
    <3> SUFFICES ASSUME NEW n \in 0..blocksAmount
                 PROVE  NodeAt(s, n + 1) = IF n = 0 THEN heap[p] ELSE Next1(U[n - 1])
      OBVIOUS
    <3> HIDE DEF U
    <3>1. CASE n = 0
      <4>1. n + 1 = 1
        BY <3>1
      <4> QED BY <1>4, <3>1, <4>1
    <3>2. CASE n # 0
      <4>1. n \in 1..blocksAmount
        BY <1>2, <3>2
      <4> QED BY <1>5, <2>1, <3>2, <4>1
    <3> QED BY <3>1, <3>2
  <2> QED BY <2>2
<1>7. at = Step(at)
  <2> HIDE DEF Step, U
  <2> QED BY <1>6
<1> HIDE DEF at, U
<1>8. at[0] = heap[p] /\ \A n \in 1..blocksAmount : at[n] = Next1(at[n - 1])
  <2>1. \A n \in 0..blocksAmount : at[n] = IF n = 0 THEN heap[p] ELSE Next1(at[n - 1])
    BY <1>7
  <2>2. 0 \in 0..blocksAmount /\ \A n \in 1..blocksAmount : n \in 0..blocksAmount /\ n # 0
    BY <1>2
  <2> QED BY <2>1, <2>2
<1> DEFINE S == {n \in 0..blocksAmount : at[n] = NodeAt(s, n + 1)}
<1>9. 0 \in S
  BY <1>2, <1>4, <1>8
<1>10. ASSUME NEW n \in 1..blocksAmount, n - 1 \in S
       PROVE  n \in S
  <2>1. at[n - 1] = NodeAt(s, n)
    <3>1. n - 1 + 1 = n
      OBVIOUS
    <3> QED BY <1>10, <3>1
  <2>2. n \in 0..blocksAmount
    BY <1>2
  <2> QED BY <1>5, <1>8, <2>1, <2>2
<1>11. 0..blocksAmount \subseteq S
  <2> HIDE DEF S
  <2> QED BY <1>2, <1>9, <1>10, UpTo
<1>12. \A n \in 0..blocksAmount : Pointers(p)[n] = NodeAt(s, n + 1)
  BY <1>1, <1>11
<1>13. Ends(p)
  <2>1. blocksAmount \in 0..blocksAmount /\ blocksAmount + 1 \notin 1..m
    BY <1>2, <1>3
  <2> QED BY <1>3, <1>12, <2>1 DEF Ends, NodeAt
<1> QED BY <1>12, <1>13

\* The nodes of a list.
Members(s) == {s[i] : i \in 1..Len(s)}

LEMMA HeapEntries ==
  ASSUME NEW p, NEW s, Linked(Links(heapNode), heap[p], s)
  PROVE  Entries(p) = Members(s)
<1>1. PICK m : m = Len(s) /\ m \in Nat /\ m <= blocksAmount /\ \A i \in 1..m : s[i] \in Block
  BY ShortList DEF Linked
<1>2. \A n \in 0..blocksAmount : Pointers(p)[n] = NodeAt(s, n + 1)
  BY HeapWalk
<1>3. Entries(p) = {Pointers(p)[n] : n \in 0..blocksAmount} \cap Block
  BY DEF Entries
<1>4. ASSUME NEW b \in Entries(p) PROVE b \in Members(s)
  <2>1. PICK n \in 0..blocksAmount : b = NodeAt(s, n + 1)
    BY <1>2, <1>3
  <2>2. b # NULL
    BY <1>3, NoBlock
  <2>3. n + 1 \in 1..Len(s) /\ b = s[n + 1]
    BY <2>1, <2>2 DEF NodeAt
  <2> QED BY <2>3 DEF Members
<1>5. ASSUME NEW b \in Members(s) PROVE b \in Entries(p)
  <2>1. PICK i \in 1..m : b = s[i]
    BY <1>1 DEF Members
  <2>2. i - 1 \in 0..blocksAmount /\ i - 1 + 1 = i
    BY <1>1, BlocksAssumption
  <2>3. Pointers(p)[i - 1] = b
    BY <1>1, <1>2, <2>1, <2>2 DEF NodeAt
  <2> QED BY <1>1, <1>3, <2>1, <2>2, <2>3
<1> QED BY <1>4, <1>5

LEMMA MembersOf ==
  ASSUME NEW s \in Seq(Block), \A i, j \in 1..Len(s) : s[i] = s[j] => i = j
  PROVE  /\ Members(s) \subseteq Block
         /\ \A b \in Block : Members(Appended(s, b)) = Members(s) \cup {b}
         /\ \A i \in 1..Len(s) : Members(Without(s, i)) = Members(s) \ {s[i]}
<1>1. PICK n : n = Len(s) /\ n \in Nat /\ \A i \in 1..n : s[i] \in Block
  OBVIOUS
<1>2. Members(s) \subseteq Block
  BY <1>1 DEF Members
<1>3. ASSUME NEW b \in Block PROVE Members(Appended(s, b)) = Members(s) \cup {b}
  <2>1. PICK z : z = Appended(s, b) /\ Len(z) = n + 1
    BY <1>1, SeqsOfNodes
  <2>2. \A i \in 1..n : i \in 1..(n + 1) /\ z[i] = s[i]
    BY <1>1, <2>1 DEF Appended
  <2>3. n + 1 \in 1..(n + 1) /\ z[n + 1] = b
    BY <1>1, <2>1 DEF Appended
  <2>4. \A i \in 1..(n + 1) : i \in 1..n \/ i = n + 1
    BY <1>1
  <2> QED BY <1>1, <2>1, <2>2, <2>3, <2>4 DEF Members
<1>4. ASSUME NEW i \in 1..n PROVE Members(Without(s, i)) = Members(s) \ {s[i]}
  <2>1. PICK z : z = Without(s, i) /\ Len(z) = n - 1
    BY <1>1, SeqsOfNodes
  <2>2. ASSUME NEW x \in Members(z) PROVE x \in Members(s) \ {s[i]}
    <3>1. PICK j \in 1..(n - 1) : x = z[j]
      BY <2>1, <2>2 DEF Members
    <3>2. PICK k : k = (IF j < i THEN j ELSE j + 1) /\ k \in 1..n /\ k # i
      BY <1>1
    <3>3. x = s[k]
      BY <1>1, <2>1, <3>1, <3>2 DEF Without
    <3> QED BY <1>1, <3>2, <3>3 DEF Members
  <2>3. ASSUME NEW x \in Members(s) \ {s[i]} PROVE x \in Members(z)
    <3>1. PICK k \in 1..n : x = s[k] /\ k # i
      BY <1>1, <2>3 DEF Members
    <3>2. PICK j : j = (IF k < i THEN k ELSE k - 1) /\ j \in 1..(n - 1)
                   /\ (k < i => j < i) /\ (~(k < i) => ~(j < i) /\ j + 1 = k)
      BY <1>1, <3>1
    <3>3. z[j] = s[k]
      BY <1>1, <2>1, <3>1, <3>2 DEF Without
    <3> QED BY <2>1, <3>1, <3>2, <3>3 DEF Members
  <2> QED BY <2>1, <2>2, <2>3
<1> QED BY <1>1, <1>2, <1>3, <1>4

\* Nodes and memory of all programs lie in the map, apart from each other.
Apart(map, living, got, lists) ==
  /\ \A p \in living : Members(lists[p]) \subseteq map
  /\ \A p, q \in living : p # q => Members(lists[p]) \cap Members(lists[q]) = {}
  /\ \A p \in living : \A h \in got[p] : Run(h[1], h[2]) \subseteq map
  /\ \A p, q \in living : \A h \in got[p] : Run(h[1], h[2]) \cap Members(lists[q]) = {}
  /\ \A p, q \in living : \A h \in got[p], g \in got[q] :
       p # q \/ h # g => Run(h[1], h[2]) \cap Run(g[1], g[2]) = {}

\* A node records memory its program has, or none that it could get, and each memory once.
Recorded(nodes, living, got, lists) ==
  /\ \A p \in living : \A b \in Members(lists[p]) :
       nodes[b].address = NULL \/ <<nodes[b].address, nodes[b].pages>> \in got[p]
  /\ \A p \in living : \A b, c \in Members(lists[p]) :
       nodes[b].address = nodes[c].address => nodes[b].address = NULL \/ b = c

\* While no malloc was refused all memory is recorded, and nothing else is in the map.
Whole(map, nodes, living, got, lists) ==
  /\ \A p \in living : \A b \in Members(lists[p]) : nodes[b].address # NULL
  /\ \A p \in living : \A h \in got[p] : \E b \in Members(lists[p]) : nodes[b].address = h[1]
  /\ \A x \in map : \E p \in living :
       x \in Members(lists[p]) \/ \E h \in got[p] : x \in Run(h[1], h[2])

\* The lists, and the pages that nobody had yet.
HeapLayout(map, nodes, first, living, got, seen, lists) ==
  /\ map \subseteq seen
  /\ \A b \in Block \ seen : nodes[b] = ZeroNode
  /\ \A p \in living : Linked(Links(nodes), first[p], lists[p])
  /\ Apart(map, living, got, lists)
  /\ Recorded(nodes, living, got, lists)

Held == [Process -> SUBSET (Block \X RequestSizes)]

HeapsInv ==
  /\ HeapTypes /\ held \in Held
  /\ ~reissued => \E lists :
       /\ HeapLayout(heapMap, heapNode, heap, alive, held, touched, lists)
       /\ ~refused => Whole(heapMap, heapNode, alive, held, lists)
  /\ ~reissued => heapKernel # "lost"
  /\ ~reissued /\ ~refused => heapKernel = "running"

LEMMA ApartMemory ==
  ASSUME NEW map, NEW living, NEW got, NEW got2, NEW lists, Apart(map, living, got, lists),
         NEW p \in living, NEW h, Run(h[1], h[2]) \cap map = {},
         got2[p] = got[p] \cup {h}, \A q \in living : q # p => got2[q] = got[q]
  PROVE  Apart(map \cup Run(h[1], h[2]), living, got2, lists)
<1>1. \A q \in living : \A g \in got2[q] : g \in got[q] \/ (q = p /\ g = h)
  <2> SUFFICES ASSUME NEW q \in living, NEW g \in got2[q] PROVE g \in got[q] \/ (q = p /\ g = h)
    OBVIOUS
  <2>1. CASE q = p
    BY <2>1
  <2>2. CASE q # p
    <3>1. got2[q] = got[q]
      BY <2>2
    <3> QED BY <3>1
  <2> QED BY <2>1, <2>2
<1>2. \A q \in living : Members(lists[q]) \subseteq map
  BY DEF Apart
<1>3. \A q \in living : \A g \in got[q] : Run(g[1], g[2]) \subseteq map
  BY DEF Apart
<1>4. \A q \in living : \A g \in got2[q] : Run(g[1], g[2]) \subseteq map \cup Run(h[1], h[2])
  BY <1>1, <1>3
<1>5. ASSUME NEW q \in living, NEW r \in living, NEW g \in got2[q]
      PROVE  Run(g[1], g[2]) \cap Members(lists[r]) = {}
  <2>1. CASE g \in got[q]
    BY <2>1 DEF Apart
  <2>2. CASE g = h
    BY <1>2, <2>2
  <2> QED BY <1>1, <2>1, <2>2
<1>6. ASSUME NEW q \in living, NEW r \in living, NEW g \in got2[q], NEW k \in got2[r], q # r \/ g # k
      PROVE  Run(g[1], g[2]) \cap Run(k[1], k[2]) = {}
  <2>1. CASE g \in got[q] /\ k \in got[r]
    BY <1>6, <2>1 DEF Apart
  <2>2. CASE g \in got[q] /\ k = h
    BY <1>3, <2>2
  <2>3. CASE k \in got[r] /\ g = h
    BY <1>3, <2>3
  <2> QED BY <1>1, <1>6, <2>1, <2>2, <2>3
<1>7. \A q \in living : Members(lists[q]) \subseteq map \cup Run(h[1], h[2])
  BY <1>2
<1>8. \A q, r \in living : q # r => Members(lists[q]) \cap Members(lists[r]) = {}
  BY DEF Apart
<1> QED BY <1>4, <1>5, <1>6, <1>7, <1>8 DEF Apart

LEMMA ApartNode ==
  ASSUME NEW map, NEW living, NEW got, NEW lists, NEW lists2, Apart(map, living, got, lists),
         NEW p \in living, NEW b, b \notin map,
         Members(lists2[p]) = Members(lists[p]) \cup {b},
         \A q \in living : q # p => lists2[q] = lists[q]
  PROVE  Apart(map \cup {b}, living, got, lists2)
<1>1. \A q \in living : \A x \in Members(lists2[q]) : x \in Members(lists[q]) \/ (q = p /\ x = b)
  <2> SUFFICES ASSUME NEW q \in living, NEW x \in Members(lists2[q])
               PROVE  x \in Members(lists[q]) \/ (q = p /\ x = b)
    OBVIOUS
  <2>1. CASE q = p
    BY <2>1
  <2>2. CASE q # p
    <3>1. lists2[q] = lists[q]
      BY <2>2
    <3> QED BY <3>1
  <2> QED BY <2>1, <2>2
<1>2. \A q \in living : Members(lists[q]) \subseteq map
  BY DEF Apart
<1>3. \A q \in living : \A g \in got[q] : Run(g[1], g[2]) \subseteq map
  BY DEF Apart
<1>4. \A q \in living : Members(lists2[q]) \subseteq map \cup {b}
  BY <1>1, <1>2
<1>5. ASSUME NEW q \in living, NEW r \in living, q # r, NEW x \in Members(lists2[q]), x \in Members(lists2[r])
      PROVE  FALSE
  <2>1. CASE x \in Members(lists[q]) /\ x \in Members(lists[r])
    BY <1>5, <2>1 DEF Apart
  <2>2. CASE x = b
    BY <1>1, <1>2, <1>5, <2>2
  <2> QED BY <1>1, <1>5, <2>1, <2>2
<1>6. ASSUME NEW q \in living, NEW r \in living, NEW g \in got[q]
      PROVE  Run(g[1], g[2]) \cap Members(lists2[r]) = {}
  <2>1. Run(g[1], g[2]) \cap Members(lists[r]) = {} /\ b \notin Run(g[1], g[2])
    BY <1>3 DEF Apart
  <2> QED BY <1>1, <2>1
<1>7. \A q \in living : \A g \in got[q] : Run(g[1], g[2]) \subseteq map \cup {b}
  BY <1>3
<1>8. \A q, r \in living : \A g \in got[q], k \in got[r] :
        q # r \/ g # k => Run(g[1], g[2]) \cap Run(k[1], k[2]) = {}
  BY DEF Apart
<1>9. \A q, r \in living : q # r => Members(lists2[q]) \cap Members(lists2[r]) = {}
  BY <1>5
<1> QED BY <1>4, <1>6, <1>7, <1>8, <1>9 DEF Apart

Fields4 == [address : Pointer, pages : RequestSizes \cup {0}, next : Pointer]

LEMMA RunsOfBlocks ==
  ASSUME NEW map, NEW n \in RequestSizes, NEW mem \in Block \cup {NULL}, Allocated(map, n, mem)
  PROVE  mem # NULL =>
           mem \in Block /\ mem \in Run(mem, n) /\ Run(mem, n) \subseteq Block /\ Run(mem, n) \cap map = {}
<1> SUFFICES ASSUME mem # NULL
             PROVE  mem \in Block /\ mem \in Run(mem, n) /\ Run(mem, n) \subseteq Block
                    /\ Run(mem, n) \cap map = {}
  OBVIOUS
<1>1. n \in Nat /\ n >= 1 /\ blocksAmount \in Nat
  BY HeapAssumption, BlocksAssumption
<1>2. mem \in 0..(blocksAmount - n) /\ Run(mem, n) \cap map = {}
  BY DEF Allocated, FirstFit, Candidates, Available
<1> QED BY <1>1, <1>2 DEF Run, Block

LEMMA OneBlock ==
  ASSUME NEW map, NEW b \in Block \cup {NULL}, Allocated(map, 1, b)
  PROVE  b # NULL => b \in Block /\ b \notin map
<1> SUFFICES ASSUME b # NULL PROVE b \in Block /\ b \notin map
  OBVIOUS
<1>1. b \in Block
  OBVIOUS
<1>2. b \in Int /\ Run(b, 1) \cap map = {}
  BY <1>1, BlocksAssumption DEF Block, Allocated, FirstFit, Available
<1>3. Run(b, 1) = {b}
  BY <1>2, RunOfOne
<1> QED BY <1>1, <1>2, <1>3

LEMMA PointersAre == NULL \in Pointer /\ WILD \in Pointer /\ Block \subseteq Pointer
BY DEF Pointer

\* A node whose fields are written.
IsWritten(nodes, b, mem, n, written) ==
  written = [nodes EXCEPT ![b].address = mem, ![b].pages = n]

HasFields(nodes, b, mem, n, written) ==
  /\ written \in [Block -> Fields4]
  /\ written[b].address = mem /\ written[b].pages = n /\ written[b].next = nodes[b].next
  /\ \A c \in Block : c # b => written[c] = nodes[c]

LEMMA NodeWritten ==
  ASSUME NEW nodes \in [Block -> Fields4], NEW b \in Block, NEW mem \in Pointer, NEW n \in RequestSizes,
         NEW written, IsWritten(nodes, b, mem, n, written)
  PROVE  HasFields(nodes, b, mem, n, written)
<1>1. PICK w : w = [nodes[b] EXCEPT !.address = mem, !.pages = n]
  OBVIOUS
<1>2. nodes[b] \in Fields4
  OBVIOUS
<1>3. w \in Fields4 /\ w.address = mem /\ w.pages = n /\ w.next = nodes[b].next
  BY <1>1, <1>2 DEF Fields4
<1>4. written = [nodes EXCEPT ![b] = w]
  BY <1>1 DEF IsWritten
<1> QED BY <1>3, <1>4 DEF HasFields

LEMMA NodeHung ==
  ASSUME NEW nodes \in [Block -> Fields4], NEW last, NEW v \in Pointer,
         NEW hung, hung = [nodes EXCEPT ![last].next = v]
  PROVE  /\ hung \in [Block -> Fields4]
         /\ \A c \in Block : hung[c].address = nodes[c].address /\ hung[c].pages = nodes[c].pages
         /\ \A c \in Block : hung[c].next = IF c = last THEN v ELSE nodes[c].next
         /\ \A c \in Block : c # last => hung[c] = nodes[c]
<1>1. ASSUME NEW c \in Block
      PROVE  /\ hung[c] \in Fields4
             /\ hung[c].address = nodes[c].address /\ hung[c].pages = nodes[c].pages
             /\ hung[c].next = IF c = last THEN v ELSE nodes[c].next
             /\ c # last => hung[c] = nodes[c]
  <2>1. nodes[c] \in Fields4
    OBVIOUS
  <2>2. CASE c = last
    <3>1. PICK w : w = [nodes[c] EXCEPT !.next = v]
      OBVIOUS
    <3>2. w \in Fields4 /\ w.address = nodes[c].address /\ w.pages = nodes[c].pages /\ w.next = v
      BY <2>1, <3>1 DEF Fields4
    <3>3. hung[c] = w
      BY <2>2, <3>1
    <3> QED BY <2>2, <3>2, <3>3
  <2>3. CASE c # last
    <3>1. hung[c] = nodes[c]
      BY <2>3
    <3> QED BY <2>1, <2>3, <3>1
  <2> QED BY <2>2, <2>3
<1>2. hung = [c \in Block |-> hung[c]]
  OBVIOUS
<1> QED BY <1>1, <1>2

Typed(map, nodes, first, living, got, seen, again, none, count, state) ==
  /\ map \subseteq Block /\ nodes \in [Block -> Fields4] /\ first \in [Process -> Pointer]
  /\ living \subseteq Process /\ got \in Held /\ seen \subseteq Block
  /\ again \in BOOLEAN /\ none \in BOOLEAN /\ count \in 0..MaxMallocs
  /\ state \in {"running", "lost", "fault"}

AllTyped == Typed(heapMap, heapNode, heap, alive, held, touched, reissued, refused, mallocs, heapKernel)

LEMMA TypesAre == AllTyped <=> HeapTypes /\ held \in Held
BY DEF AllTyped, Typed, HeapTypes, Held, Fields4

LEMMA TypesAfter == ASSUME AllTyped' PROVE HeapTypes' /\ held' \in Held
BY DEF AllTyped, Typed, HeapTypes, Held, Fields4

LEMMA MallocTypes == ASSUME AllTyped, NEW p \in Process, Malloc(p) PROVE AllTyped'
<1>1. mallocs' \in 0..MaxMallocs
  BY HeapAssumption DEF AllTyped, Typed, Malloc
<1>2. CASE Lose
  BY <1>1, <1>2 DEF AllTyped, Typed, Lose, ghosts
<1>3. CASE \E n \in RequestSizes, mem \in Block \cup {NULL}, newNode \in Block \cup {NULL} :
             pmalloc(p, n, mem, newNode)
  <2>1. PICK n \in RequestSizes, mem \in Block \cup {NULL}, newNode \in Block \cup {NULL} :
               pmalloc(p, n, mem, newNode)
    BY <1>3
  <2>2. mem \in Pointer /\ newNode \in Pointer
    BY PointersAre
  <2>3. PICK M, N : M = (IF mem = NULL THEN {} ELSE Run(mem, n))
                    /\ N = (IF newNode = NULL THEN {} ELSE {newNode})
    OBVIOUS
  <2>4. M \subseteq Block /\ N \subseteq Block
    <3>1. Allocated(heapMap, n, mem)
      BY <2>1 DEF pmalloc
    <3> QED BY <2>3, <3>1, RunsOfBlocks
  <2>5. /\ heapMap' = heapMap \cup M \cup N /\ touched' = touched \cup (heapMap \cup M \cup N)
        /\ reissued' = (reissued \/ ((heapMap \cup M \cup N) \ heapMap) \cap touched # {})
        /\ refused' = (refused \/ NULL \in {mem, newNode})
        /\ UNCHANGED <<alive, heapKernel>>
        /\ IF newNode = NULL THEN addHeapRefused ELSE addHeap(p, newNode, mem, n)
        /\ held' = IF mem = NULL THEN held ELSE [held EXCEPT ![p] = @ \cup {<<mem, n>>}]
    BY <2>1, <2>3 DEF pmalloc
  <2>6. heapMap' \subseteq Block /\ touched' \subseteq Block /\ reissued' \in BOOLEAN /\ refused' \in BOOLEAN
    BY <2>4, <2>5 DEF AllTyped, Typed
  <2>7. held' \in Held
    BY <2>5 DEF AllTyped, Typed, Held
  <2>8. heapNode' \in [Block -> Fields4] /\ heap' \in [Process -> Pointer]
    <3>0. heapNode \in [Block -> Fields4] /\ heap \in [Process -> Pointer]
      BY DEF AllTyped, Typed
    <3>1. CASE newNode = NULL
      BY <2>5, <3>0, <3>1 DEF addHeapRefused
    <3>2. CASE newNode # NULL
      <4>1. PICK written : written = [heapNode EXCEPT ![newNode].address = mem, ![newNode].pages = n]
        OBVIOUS
      <4>2. written \in [Block -> Fields4]
        <5>1. IsWritten(heapNode, newNode, mem, n, written)
          BY <4>1 DEF IsWritten
        <5>2. newNode \in Block
          BY <3>2
        <5>3. HasFields(heapNode, newNode, mem, n, written)
          BY <2>2, <3>0, <5>1, <5>2, NodeWritten
        <5> QED BY <5>3 DEF HasFields
      <4>3. CASE heap[p] = NULL
        BY <2>2, <2>5, <3>0, <3>2, <4>1, <4>2, <4>3 DEF addHeap
      <4>4. CASE heap[p] # NULL
        <5>1. PICK last : last = CHOOSE b \in Entries(p) : heapNode[b].next = NULL
          OBVIOUS
        <5>2. heapNode' = [written EXCEPT ![last].next = newNode] /\ UNCHANGED heap
          BY <2>5, <3>2, <4>1, <4>4, <5>1 DEF addHeap
        <5>3. PICK hung : hung = [written EXCEPT ![last].next = newNode]
          OBVIOUS
        <5>4. hung \in [Block -> Fields4]
          <6>1. newNode \in Pointer
            BY <2>2
          <6>2. \A c \in Block : [written[c] EXCEPT !.next = newNode] \in Fields4
            BY <4>2, <6>1 DEF Fields4
          <6> QED BY <4>2, <5>3, <6>2
        <5> QED BY <3>0, <5>2, <5>3, <5>4
      <4> QED BY <4>3, <4>4
    <3> QED BY <3>1, <3>2
  <2> QED BY <1>1, <2>5, <2>6, <2>7, <2>8 DEF AllTyped, Typed
<1> QED BY <1>2, <1>3 DEF Malloc

LEMMA WriteTypes == ASSUME AllTyped, NEW p \in Process, Write(p) PROVE AllTyped'
<1>1. Scribbled \in Fields4
  BY PointersAre DEF Scribbled, Fields4
<1>2. heapNode' \in [Block -> Fields4]
  BY <1>1 DEF AllTyped, Typed, Write
<1> QED BY <1>2 DEF AllTyped, Typed, Write, ghosts

LEMMA FreeTypes == ASSUME AllTyped, NEW p \in Process, Free(p) PROVE AllTyped'
<1>1. PICK h \in held[p] :
       \/ /\ Matches(p, h[1]) # {}
          /\ pfreeR(p, First(Matches(p, h[1])))
          /\ held' = [held EXCEPT ![p] = @ \ {h}]
          /\ UNCHANGED <<alive, ghosts, heapKernel>>
       \/ /\ held' = [held EXCEPT ![p] = @ \ {h}]
          /\ UNCHANGED <<heapMap, heapNode, heap, alive, ghosts, heapKernel>>
       \/ Lose
  BY DEF Free
<1>2. UNCHANGED mallocs
  BY DEF Free
<1>3. CASE Lose
  BY <1>2, <1>3 DEF AllTyped, Typed, Lose, ghosts
<1>4. held' = [held EXCEPT ![p] = @ \ {h}] => held' \in Held
  BY DEF AllTyped, Typed, Held
<1>5. CASE /\ held' = [held EXCEPT ![p] = @ \ {h}]
           /\ UNCHANGED <<heapMap, heapNode, heap, alive, ghosts, heapKernel>>
  BY <1>2, <1>4, <1>5 DEF AllTyped, Typed, ghosts
<1>6. CASE /\ Matches(p, h[1]) # {}
           /\ pfreeR(p, First(Matches(p, h[1])))
           /\ held' = [held EXCEPT ![p] = @ \ {h}]
           /\ UNCHANGED <<alive, ghosts, heapKernel>>
  <2>1. PICK n : n = First(Matches(p, h[1]))
    OBVIOUS
  <2>2. n \in Matches(p, h[1])
    <3>1. Matches(p, h[1]) \in SUBSET Nat
      BY BlocksAssumption DEF Matches
    <3>2. \E k \in Matches(p, h[1]) : \A m \in Matches(p, h[1]) : k <= m
      BY <1>6, <3>1, LeastNumber
    <3> QED BY <2>1, <3>2 DEF First
  <2>3. PICK b : b = Pointers(p)[n] /\ b \in Block
    BY <2>2 DEF Matches
  <2>4. heapNode[b] \in Fields4
    BY <2>3 DEF AllTyped, Typed
  <2>5. heapNode[b].next \in Pointer
    BY <2>4 DEF Fields4
  <2>6. /\ heapMap' = heapMap \ deallocated(b)
        /\ IF n = 0
           THEN heap' = [heap EXCEPT ![p] = heapNode[b].next] /\ UNCHANGED heapNode
           ELSE heapNode' = [heapNode EXCEPT ![Pointers(p)[n - 1]].next = heapNode[b].next] /\ UNCHANGED heap
    BY <1>6, <2>1, <2>3 DEF pfreeR
  <2>7. heapNode' \in [Block -> Fields4] /\ heap' \in [Process -> Pointer]
    <3>1. heapNode \in [Block -> Fields4] /\ heap \in [Process -> Pointer]
      BY DEF AllTyped, Typed
    <3>2. CASE n = 0
      BY <2>5, <2>6, <3>1, <3>2
    <3>3. CASE n # 0
      <4>1. PICK last, v : last = Pointers(p)[n - 1] /\ v = heapNode[b].next
        OBVIOUS
      <4>2. heapNode' = [heapNode EXCEPT ![last].next = v] /\ UNCHANGED heap /\ v \in Pointer
        BY <2>5, <2>6, <3>3, <4>1
      <4> QED BY <3>1, <4>2, NodeHung
    <3> QED BY <3>2, <3>3
  <2> QED BY <1>2, <1>4, <1>6, <2>6, <2>7 DEF AllTyped, Typed, ghosts
<1> QED BY <1>1, <1>3, <1>5, <1>6

LEMMA ExitTypes == ASSUME AllTyped, NEW p \in Process, Exit(p) PROVE AllTyped'
<1>1. CASE Lose
  BY <1>1 DEF AllTyped, Typed, Lose, ghosts, Exit
<1>2. CASE Fault
  BY <1>2 DEF AllTyped, Typed, Fault, ghosts, Exit
<1>3. CASE /\ freeHeap(p)
           /\ alive' = alive \ {p}
           /\ heap' = [heap EXCEPT ![p] = NULL]
           /\ held' = [held EXCEPT ![p] = {}]
  <2>1. heap' \in [Process -> Pointer] /\ held' \in Held
    BY <1>3, PointersAre DEF AllTyped, Typed, Held
  <2>2. UNCHANGED mallocs
    BY DEF Exit
  <2> QED BY <1>3, <2>1, <2>2 DEF AllTyped, Typed, freeHeap, ghosts
<1> QED BY <1>1, <1>2, <1>3 DEF Exit

----------------------------------------------------------------------------
\* The invariant after a step, on fresh pages.
LEMMA HeapsNext ==
  ASSUME HeapTypes', held' \in Held,
         ~reissued' => \E lists :
           /\ HeapLayout(heapMap', heapNode', heap', alive', held', touched', lists)
           /\ ~refused' => Whole(heapMap', heapNode', alive', held', lists),
         ~reissued' => heapKernel' # "lost",
         ~reissued' /\ ~refused' => heapKernel' = "running"
  PROVE  HeapsInv'
BY DEF HeapsInv, HeapLayout, Whole, Apart, Recorded, Held

LEMMA HeapsBegin == HeapInit => HeapsInv
<1> SUFFICES ASSUME HeapInit PROVE HeapsInv
  OBVIOUS
<1>1. ZeroNode \in Fields4
  BY PointersAre DEF ZeroNode, Fields4
<1>2. AllTyped
  <2>1. heapNode \in [Block -> Fields4] /\ heap \in [Process -> Pointer]
    BY <1>1, PointersAre DEF HeapInit
  <2>2. held \in Held
    BY DEF HeapInit, Held
  <2>3. mallocs \in 0..MaxMallocs
    BY HeapAssumption DEF HeapInit
  <2>4. heapMap \subseteq Block /\ alive \subseteq Process /\ touched \subseteq Block
    BY DEF HeapInit
  <2>5. reissued \in BOOLEAN /\ refused \in BOOLEAN /\ heapKernel \in {"running", "lost", "fault"}
    BY DEF HeapInit
  <2> QED BY <2>1, <2>2, <2>3, <2>4, <2>5 DEF AllTyped, Typed
<1>3. PICK lists : lists = [p \in Process |-> <<>>]
  OBVIOUS
<1>4. \A p \in Process : Members(lists[p]) = {} /\ held[p] = {}
  BY <1>3 DEF Members, HeapInit
<1>5. \A p \in Process : Linked(Links(heapNode), heap[p], lists[p])
  BY <1>3 DEF Linked, NodeAt, HeapInit
<1>6. alive = Process /\ heapMap = {} /\ touched = {} /\ \A b \in Block : heapNode[b] = ZeroNode
  BY DEF HeapInit
<1>7. Apart(heapMap, alive, held, lists)
  BY <1>4, <1>6 DEF Apart
<1>8. Recorded(heapNode, alive, held, lists)
  BY <1>4, <1>6 DEF Recorded
<1>9. Whole(heapMap, heapNode, alive, held, lists)
  BY <1>4, <1>6 DEF Whole
<1>10. HeapLayout(heapMap, heapNode, heap, alive, held, touched, lists)
  BY <1>5, <1>6, <1>7, <1>8 DEF HeapLayout
<1> QED BY <1>2, <1>9, <1>10, TypesAre DEF HeapsInv, HeapInit

\* The lists while nodes keep their pointers.
LEMMA HeapLinkedFrame ==
  ASSUME NEW nodes, NEW nodes2, NEW first, NEW s, Linked(Links(nodes), first, s),
         \A b \in Members(s) : nodes2[b].next = nodes[b].next
  PROVE  Linked(Links(nodes2), first, s)
<1>1. \A i \in 1..Len(s) : s[i] \in Block /\ s[i] \in Members(s)
  BY DEF Linked, Members
<1>2. \A i \in 1..Len(s) : Links(nodes2)[s[i]][next] = Links(nodes)[s[i]][next]
  BY <1>1, LinksAre
<1> QED BY <1>2, LinkedFrame

LEMMA WriteHeaps == ASSUME HeapsInv, NEW p \in Process, Write(p) PROVE HeapsInv'
<1>1. AllTyped
  BY TypesAre DEF HeapsInv
<1>2. HeapTypes' /\ held' \in Held
  <2>1. AllTyped'
    BY <1>1, WriteTypes
  <2> QED BY <2>1, TypesAfter
<1>3. PICK h \in held[p] :
        heapNode' = [b \in Block |-> IF b \in Run(h[1], h[2]) THEN Scribbled ELSE heapNode[b]]
  BY DEF Write
<1>4. /\ UNCHANGED <<heapMap, heap, alive, held, touched, reissued, refused, heapKernel>>
      /\ p \in alive
  BY DEF Write, ghosts
<1>5. ASSUME ~reissued
      PROVE  \E lists : /\ HeapLayout(heapMap, heapNode', heap, alive, held, touched, lists)
                        /\ ~refused => Whole(heapMap, heapNode', alive, held, lists)
  <2>1. PICK lists : /\ HeapLayout(heapMap, heapNode, heap, alive, held, touched, lists)
                     /\ ~refused => Whole(heapMap, heapNode, alive, held, lists)
    BY <1>5 DEF HeapsInv
  <2>2. Run(h[1], h[2]) \subseteq heapMap /\ \A q \in alive : Run(h[1], h[2]) \cap Members(lists[q]) = {}
    BY <1>4, <2>1 DEF HeapLayout, Apart
  <2>3. heapMap \subseteq Block /\ \A q \in alive : Members(lists[q]) \subseteq heapMap
    BY <1>1, <2>1 DEF HeapLayout, Apart, AllTyped, Typed
  <2>4. \A q \in alive : \A b \in Members(lists[q]) : heapNode'[b] = heapNode[b]
    BY <1>3, <2>2, <2>3
  <2>5. \A b \in Block \ touched : heapNode'[b] = ZeroNode
    BY <1>3, <2>1, <2>2 DEF HeapLayout
  <2>6. \A q \in alive : Linked(Links(heapNode'), heap[q], lists[q])
    <3>1. \A q \in alive : Linked(Links(heapNode), heap[q], lists[q])
      BY <2>1 DEF HeapLayout
    <3> QED BY <2>4, <3>1, HeapLinkedFrame
  <2>7. Recorded(heapNode', alive, held, lists)
    BY <2>1, <2>4 DEF HeapLayout, Recorded
  <2>8. Whole(heapMap, heapNode, alive, held, lists) => Whole(heapMap, heapNode', alive, held, lists)
    BY <2>4 DEF Whole
  <2> QED BY <2>1, <2>5, <2>6, <2>7, <2>8 DEF HeapLayout
<1> QED BY <1>2, <1>4, <1>5, HeapsNext DEF HeapsInv

\* The last node of a list is the one without a next.
LEMMA LastNode ==
  ASSUME NEW nodes, NEW first, NEW s, Linked(Links(nodes), first, s), first # NULL
  PROVE  /\ Len(s) \in Nat /\ Len(s) >= 1 /\ s[Len(s)] \in Members(s)
         /\ \A b \in Members(s) : nodes[b].next = NULL <=> b = s[Len(s)]
<1>1. PICK m : m = Len(s) /\ m \in Nat /\ \A i \in 1..m : s[i] \in Block
  BY ShortList DEF Linked
<1>2. m >= 1 /\ m \in 1..m
  <2>1. 1 \in 1..m
    BY <1>1 DEF Linked, NodeAt
  <2> QED BY <1>1, <2>1
<1>3. ASSUME NEW i \in 1..m PROVE nodes[s[i]].next = NULL <=> i = m
  <2>1. nodes[s[i]].next = NodeAt(s, i + 1)
    <3>1. Links(nodes)[s[i]][next] = NodeAt(s, i + 1)
      BY <1>1 DEF Linked
    <3> QED BY <1>1, <3>1, LinksAre
  <2>2. CASE i = m
    <3>1. i + 1 \notin 1..m
      BY <1>1, <2>2
    <3> QED BY <1>1, <2>1, <2>2, <3>1 DEF NodeAt
  <2>3. CASE i # m
    <3>1. i + 1 \in 1..m
      BY <1>1, <2>3
    <3>2. NodeAt(s, i + 1) \in Block
      BY <1>1, <3>1 DEF NodeAt
    <3> QED BY <2>1, <2>3, <3>2, NoBlock
  <2> QED BY <2>2, <2>3
<1>4. \A i \in 1..m : s[i] = s[m] <=> i = m
  BY <1>1, <1>2 DEF Linked
<1>5. \A b \in Members(s) : \E i \in 1..m : b = s[i]
  BY <1>1 DEF Members
<1>6. s[m] \in Members(s)
  BY <1>1, <1>2 DEF Members
<1>7. ASSUME NEW b \in Members(s) PROVE nodes[b].next = NULL <=> b = s[m]
  <2>1. PICK i \in 1..m : b = s[i]
    BY <1>5
  <2> QED BY <1>3, <1>4, <2>1
<1> QED BY <1>1, <1>2, <1>6, <1>7

\* addHeap puts the new node behind the others of its process.
WithNode(lists, p, b) == [q \in Process |-> IF q = p THEN Appended(lists[q], b) ELSE lists[q]]

AllLinked(nodes, first, lists) == \A q \in alive : Linked(Links(nodes), first[q], lists[q])

ListsApart(lists) == \A q, r \in alive : q # r => Members(lists[q]) \cap Members(lists[r]) = {}

LEMMA NodeAdded ==
  ASSUME AllTyped, NEW p \in alive, NEW b \in Block, NEW mem \in Pointer, NEW n \in RequestSizes,
         addHeap(p, b, mem, n), NEW lists, AllLinked(heapNode, heap, lists), ListsApart(lists),
         \A q \in alive : b \notin Members(lists[q]), heapNode[b].next = NULL
  PROVE  /\ AllLinked(heapNode', heap', WithNode(lists, p, b))
         /\ heapNode'[b].address = mem /\ heapNode'[b].pages = n
         /\ \A c \in Block : c # b =>
              heapNode'[c].address = heapNode[c].address /\ heapNode'[c].pages = heapNode[c].pages
         /\ \A c \in Block : c # b /\ c \notin Members(lists[p]) => heapNode'[c] = heapNode[c]
<1>0. heapNode \in [Block -> Fields4] /\ heap \in [Process -> Pointer] /\ alive \subseteq Process
  BY DEF AllTyped, Typed
<1>1. PICK written : written = [heapNode EXCEPT ![b].address = mem, ![b].pages = n]
  OBVIOUS
<1>2. /\ written \in [Block -> Fields4]
      /\ written[b].address = mem /\ written[b].pages = n /\ written[b].next = heapNode[b].next
      /\ \A c \in Block : c # b => written[c] = heapNode[c]
  <2>1. IsWritten(heapNode, b, mem, n, written)
    BY <1>1 DEF IsWritten
  <2>2. mem \in Pointer /\ n \in RequestSizes /\ b \in Block
    OBVIOUS
  <2>3. HasFields(heapNode, b, mem, n, written)
    BY <1>0, <2>1, <2>2, NodeWritten
  <2> QED BY <2>3 DEF HasFields
<1>3. PICK s : s = lists[p]
  OBVIOUS
<1>4. Linked(Links(heapNode), heap[p], s)
  BY <1>3 DEF AllLinked
<1>5. \A i \in 1..Len(s) : s[i] \in Block /\ s[i] # b /\ s[i] \in Members(s)
  BY <1>3, <1>4 DEF Linked, Members
<1>6. b \in Pointer
  BY PointersAre
<1>7. CASE heap[p] = NULL
  <2>1. heapNode' = written /\ heap' = [heap EXCEPT ![p] = b]
    BY <1>1, <1>7 DEF addHeap
  <2>2. s = <<>>
    <3>1. 1 \notin 1..Len(s)
      BY <1>4, <1>5, <1>7, NoBlock DEF Linked, NodeAt
    <3>2. s \in Seq(Block)
      BY <1>4 DEF Linked
    <3> QED BY <3>1, <3>2
  <2>3. Linked(Links(heapNode'), heap'[p], Appended(s, b))
    <3>1. PICK words, words2 : words = Links(heapNode) /\ words2 = Links(heapNode')
      OBVIOUS
    <3>2. heap'[p] = b /\ words2[b][next] = NULL
      BY <1>0, <1>2, <2>1, <3>1, LinksAre
    <3>3. \A i \in 1..Len(s) : FALSE
      BY <2>2
    <3> QED BY <1>4, <2>2, <3>1, <3>2, <3>3, LinkedAppend
  <2>4. \A q \in alive : q # p => Linked(Links(heapNode'), heap'[q], lists[q])
    <3> SUFFICES ASSUME NEW q \in alive, q # p PROVE Linked(Links(heapNode'), heap'[q], lists[q])
      OBVIOUS
    <3>1. Linked(Links(heapNode), heap[q], lists[q]) /\ heap'[q] = heap[q]
      BY <1>0, <2>1 DEF AllLinked
    <3>2. Members(lists[q]) \subseteq Block
      BY <3>1, MembersOf DEF Linked
    <3>3. \A c \in Members(lists[q]) : heapNode'[c].next = heapNode[c].next
      BY <1>2, <2>1, <3>2
    <3> QED BY <3>1, <3>3, HeapLinkedFrame
  <2>5. AllLinked(heapNode', heap', WithNode(lists, p, b))
    BY <1>0, <1>3, <2>3, <2>4 DEF AllLinked, WithNode
  <2> QED BY <1>2, <2>1, <2>5
<1>8. CASE heap[p] # NULL
  <2>1. PICK last : last = CHOOSE c \in Entries(p) : heapNode[c].next = NULL
    OBVIOUS
  <2>2. heapNode' = [written EXCEPT ![last].next = b] /\ heap' = heap
    BY <1>1, <1>8, <2>1 DEF addHeap
  <2>3. PICK m : m = Len(s) /\ m \in Nat /\ m >= 1 /\ s[m] \in Members(s)
                 /\ \A c \in Members(s) : heapNode[c].next = NULL <=> c = s[m]
    BY <1>4, <1>8, LastNode
  <2>4. last = s[m]
    <3>1. Entries(p) = Members(s)
      BY <1>4, HeapEntries
    <3> QED BY <2>1, <2>3, <3>1
  <2>5. /\ \A c \in Block : heapNode'[c].address = written[c].address /\ heapNode'[c].pages = written[c].pages
        /\ \A c \in Block : heapNode'[c].next = IF c = last THEN b ELSE written[c].next
        /\ \A c \in Block : c # last => heapNode'[c] = written[c]
    BY <1>2, <1>6, <2>2, NodeHung
  <2>6. last \in Members(s) /\ last \in Block /\ last # b
    BY <1>5, <2>3, <2>4
  <2>7. Linked(Links(heapNode'), heap'[p], Appended(s, b))
    <3>1. PICK words, words2 : words = Links(heapNode) /\ words2 = Links(heapNode')
      OBVIOUS
    <3>2. words2[b][next] = NULL
      BY <1>2, <2>5, <2>6, <3>1, LinksAre
    <3>3. words2[s[m]][next] = b
      BY <2>4, <2>5, <2>6, <3>1, LinksAre
    <3>4. \A i \in 1..m : i < m => words2[s[i]][next] = words[s[i]][next]
      <4> SUFFICES ASSUME NEW i \in 1..m, i < m PROVE words2[s[i]][next] = words[s[i]][next]
        OBVIOUS
      <4>1. s[i] \in Block /\ s[i] # b /\ s[i] # s[m]
        BY <1>4, <1>5, <2>3 DEF Linked
      <4>2. heapNode'[s[i]].next = heapNode[s[i]].next
        BY <1>2, <2>4, <2>5, <4>1
      <4> QED BY <3>1, <4>1, <4>2, LinksAre
    <3>5. s # <<>>
      BY <2>3
    <3> QED BY <1>4, <1>5, <2>2, <2>3, <3>1, <3>2, <3>3, <3>4, <3>5, LinkedAppend
  <2>8. \A q \in alive : q # p => Linked(Links(heapNode'), heap'[q], lists[q])
    <3> SUFFICES ASSUME NEW q \in alive, q # p PROVE Linked(Links(heapNode'), heap'[q], lists[q])
      OBVIOUS
    <3>1. Linked(Links(heapNode), heap[q], lists[q]) /\ heap'[q] = heap[q]
      BY <2>2 DEF AllLinked
    <3>2. Members(lists[q]) \subseteq Block
      BY <3>1, MembersOf DEF Linked
    <3>3. Members(lists[q]) \cap Members(s) = {}
      BY <1>3 DEF ListsApart
    <3>4. \A c \in Members(lists[q]) : c # last /\ c # b
      BY <2>6, <3>3
    <3>5. \A c \in Members(lists[q]) : heapNode'[c].next = heapNode[c].next
      BY <1>2, <2>5, <3>2, <3>4
    <3> QED BY <3>1, <3>5, HeapLinkedFrame
  <2>9. AllLinked(heapNode', heap', WithNode(lists, p, b))
    BY <1>0, <1>3, <2>7, <2>8 DEF AllLinked, WithNode
  <2>10. heapNode'[b].address = mem /\ heapNode'[b].pages = n
    BY <1>2, <2>5, <2>6
  <2>11. ASSUME NEW c \in Block, c # b
         PROVE  heapNode'[c].address = heapNode[c].address /\ heapNode'[c].pages = heapNode[c].pages
    BY <1>2, <2>5, <2>11
  <2>12. ASSUME NEW c \in Block, c # b, c \notin Members(s) PROVE heapNode'[c] = heapNode[c]
    BY <1>2, <2>5, <2>6, <2>12
  <2> QED BY <1>3, <2>9, <2>10, <2>11, <2>12
<1> QED BY <1>7, <1>8

\* The pages a malloc gets are apart from those of all programs, and so they stay.
GotMore(got, got2, p, n, mem, M) ==
  IF mem = NULL THEN M = {} /\ got2 = got
  ELSE /\ M = Run(mem, n) /\ M \cap heapMap = {} /\ mem \in M
       /\ got2[p] = got[p] \cup {<<mem, n>>} /\ \A q \in alive : q # p => got2[q] = got[q]

ListGrew(lists, lists2, p, b, M, N) ==
  IF b = NULL THEN N = {} /\ lists2 = lists
  ELSE /\ N = {b} /\ b \notin heapMap \cup M
       /\ Members(lists2[p]) = Members(lists[p]) \cup {b}
       /\ \A q \in alive : q # p => lists2[q] = lists[q]

LEMMA MallocApart ==
  ASSUME NEW got, NEW got2, NEW lists, NEW lists2, NEW p \in alive,
         Apart(heapMap, alive, got, lists), NEW n, NEW mem, NEW b, NEW M, NEW N,
         GotMore(got, got2, p, n, mem, M), ListGrew(lists, lists2, p, b, M, N)
  PROVE  Apart(heapMap \cup M \cup N, alive, got2, lists2)
<1>1. Apart(heapMap \cup M, alive, got2, lists)
  <2>1. CASE mem = NULL
    <3>1. heapMap \cup M = heapMap /\ got2 = got
      BY <2>1 DEF GotMore
    <3> QED BY <3>1
  <2>2. CASE mem # NULL
    <3>1. PICK h : h = <<mem, n>>
      OBVIOUS
    <3>2. h[1] = mem /\ h[2] = n
      BY <3>1
    <3>3. /\ M = Run(h[1], h[2]) /\ Run(h[1], h[2]) \cap heapMap = {}
          /\ got2[p] = got[p] \cup {h} /\ \A q \in alive : q # p => got2[q] = got[q]
      BY <2>2, <3>1, <3>2 DEF GotMore
    <3>4. Apart(heapMap \cup Run(h[1], h[2]), alive, got2, lists)
      BY <3>3, ApartMemory
    <3> QED BY <3>3, <3>4
  <2> QED BY <2>1, <2>2
<1>2. CASE b = NULL
  <2>1. heapMap \cup M \cup N = heapMap \cup M /\ lists2 = lists
    BY <1>2 DEF ListGrew
  <2> QED BY <1>1, <2>1
<1>3. CASE b # NULL
  <2>1. PICK map1 : map1 = heapMap \cup M
    OBVIOUS
  <2>2. Apart(map1, alive, got2, lists) /\ b \notin map1
    BY <1>1, <1>3, <2>1 DEF ListGrew
  <2>3. Apart(map1 \cup {b}, alive, got2, lists2)
    <3>1. /\ Members(lists2[p]) = Members(lists[p]) \cup {b}
          /\ \A q \in alive : q # p => lists2[q] = lists[q]
      BY <1>3 DEF ListGrew
    <3> QED BY <2>2, <3>1, ApartNode
  <2>4. N = {b}
    BY <1>3 DEF ListGrew
  <2> QED BY <2>1, <2>3, <2>4
<1> QED BY <1>2, <1>3

\* What a malloc does to the pages, with what it got named.
Grew(p, n, mem, b, M, N) ==
  /\ M = (IF mem = NULL THEN {} ELSE Run(mem, n)) /\ N = (IF b = NULL THEN {} ELSE {b})
  /\ M \subseteq Block /\ M \cap heapMap = {} /\ N \cap (heapMap \cup M) = {}
  /\ mem # NULL => mem \in Block /\ mem \in M
  /\ b # NULL => b \in Block
  /\ heapMap' = heapMap \cup M \cup N /\ touched' = touched \cup heapMap'
  /\ ~reissued' => ~reissued /\ (M \cup N) \cap touched = {}
  /\ ~refused' => ~refused /\ mem # NULL /\ b # NULL
  /\ alive' = alive /\ heapKernel' = heapKernel
  /\ IF b = NULL THEN addHeapRefused ELSE addHeap(p, b, mem, n)
  /\ mem = NULL => held' = held
  /\ mem # NULL => held'[p] = held[p] \cup {<<mem, n>>} /\ \A q \in alive : q # p => held'[q] = held[q]

LEMMA MallocGrows ==
  ASSUME AllTyped, NEW p \in alive, NEW n \in RequestSizes,
         NEW mem \in Block \cup {NULL}, NEW b \in Block \cup {NULL}, pmalloc(p, n, mem, b)
  PROVE  \E M, N : Grew(p, n, mem, b, M, N)
<1>1. PICK M, N : M = (IF mem = NULL THEN {} ELSE Run(mem, n)) /\ N = (IF b = NULL THEN {} ELSE {b})
  OBVIOUS
<1>2. Allocated(heapMap, n, mem) /\ Allocated(heapMap \cup M, 1, b)
  BY <1>1 DEF pmalloc
<1>3. mem # NULL => mem \in Block /\ mem \in Run(mem, n) /\ Run(mem, n) \subseteq Block /\ Run(mem, n) \cap heapMap = {}
  BY <1>2, RunsOfBlocks
<1>4. b # NULL => b \in Block /\ b \notin heapMap \cup M
  BY <1>2, OneBlock
<1>5. /\ heapMap' = heapMap \cup M \cup N /\ touched' = touched \cup heapMap'
      /\ reissued' = (reissued \/ ((heapMap \cup M \cup N) \ heapMap) \cap touched # {})
      /\ refused' = (refused \/ NULL \in {mem, b})
      /\ alive' = alive /\ heapKernel' = heapKernel
      /\ IF b = NULL THEN addHeapRefused ELSE addHeap(p, b, mem, n)
      /\ held' = IF mem = NULL THEN held ELSE [held EXCEPT ![p] = @ \cup {<<mem, n>>}]
  BY <1>1 DEF pmalloc
<1>6. M \subseteq Block /\ M \cap heapMap = {} /\ N \cap (heapMap \cup M) = {}
  BY <1>1, <1>3, <1>4
<1>7. ~reissued' => ~reissued /\ (M \cup N) \cap touched = {}
  <2>1. (heapMap \cup M \cup N) \ heapMap = M \cup N
    BY <1>6
  <2> QED BY <1>5, <2>1
<1>8. ~refused' => ~refused /\ mem # NULL /\ b # NULL
  BY <1>5
<1>9. mem = NULL => held' = held
  BY <1>5
<1>10. mem # NULL => held'[p] = held[p] \cup {<<mem, n>>} /\ \A q \in alive : q # p => held'[q] = held[q]
  BY <1>5 DEF AllTyped, Typed, Held
<1>11. Grew(p, n, mem, b, M, N)
  BY <1>1, <1>3, <1>4, <1>5, <1>6, <1>7, <1>8, <1>9, <1>10 DEF Grew
<1> QED BY <1>11

LEMMA HeldRuns ==
  ASSUME AllTyped, NEW q \in alive, NEW h \in held[q]
  PROVE  h[1] \in Block /\ h[2] \in RequestSizes /\ h[1] \in Run(h[1], h[2])
<1>1. h \in Block \X RequestSizes
  BY DEF AllTyped, Typed, Held
<1>2. h[1] \in Block /\ h[2] \in RequestSizes
  BY <1>1
<1>3. PICK x, n : x = h[1] /\ n = h[2]
  OBVIOUS
<1>4. x \in Int
  BY <1>2, <1>3, BlocksAssumption DEF Block
<1>5. n \in Nat /\ n >= 1
  <2>1. n \in RequestSizes
    BY <1>2, <1>3
  <2>2. n \in Nat \ {0}
    BY <2>1, HeapAssumption
  <2> QED BY <2>2
<1>6. x \in Run(x, n)
  BY <1>4, <1>5 DEF Run
<1> QED BY <1>2, <1>3, <1>6

\* The new node records the memory, the other ones what they did.
NodeFilled(lists, nodes2, b, mem, n) ==
  /\ \A q \in alive : \A c \in Members(lists[q]) :
       nodes2[c].address = heapNode[c].address /\ nodes2[c].pages = heapNode[c].pages
  /\ b # NULL => nodes2[b].address = mem /\ nodes2[b].pages = n

LEMMA MoreOrSame ==
  ASSUME NEW p \in alive, NEW n, NEW mem, NEW b, NEW M, NEW N,
         NEW got, NEW got2, NEW lists, NEW lists2,
         GotMore(got, got2, p, n, mem, M), ListGrew(lists, lists2, p, b, M, N)
  PROVE  /\ \A q \in alive : got[q] \subseteq got2[q] /\ Members(lists[q]) \subseteq Members(lists2[q])
         /\ \A q \in alive : \A c \in Members(lists2[q]) :
              c \in Members(lists[q]) \/ (q = p /\ c = b /\ b # NULL)
         /\ \A q \in alive : \A h \in got2[q] :
              h \in got[q] \/ (q = p /\ h = << mem, n >> /\ mem # NULL)
<1>1. ASSUME NEW q \in alive
      PROVE  /\ got[q] \subseteq got2[q]
             /\ \A h \in got2[q] : h \in got[q] \/ (q = p /\ h = <<mem, n>> /\ mem # NULL)
  <2>1. CASE mem = NULL
    BY <2>1 DEF GotMore
  <2>2. CASE mem # NULL /\ q = p
    <3>1. got2[p] = got[p] \cup {<<mem, n>>}
      BY <2>2 DEF GotMore
    <3> QED BY <2>2, <3>1
  <2>3. CASE mem # NULL /\ q # p
    <3>1. got2[q] = got[q]
      BY <2>3 DEF GotMore
    <3> QED BY <3>1
  <2> QED BY <2>1, <2>2, <2>3
<1>2. ASSUME NEW q \in alive
      PROVE  /\ Members(lists[q]) \subseteq Members(lists2[q])
             /\ \A c \in Members(lists2[q]) : c \in Members(lists[q]) \/ (q = p /\ c = b /\ b # NULL)
  <2>1. CASE b = NULL
    BY <2>1 DEF ListGrew
  <2>2. CASE b # NULL /\ q = p
    <3>1. Members(lists2[p]) = Members(lists[p]) \cup {b}
      BY <2>2 DEF ListGrew
    <3> QED BY <2>2, <3>1
  <2>3. CASE b # NULL /\ q # p
    <3>1. lists2[q] = lists[q]
      BY <2>3 DEF ListGrew
    <3> QED BY <3>1
  <2> QED BY <2>1, <2>2, <2>3
<1> QED BY <1>1, <1>2

LEMMA MallocRecorded ==
  ASSUME AllTyped, NEW p \in alive, NEW n, NEW mem, NEW b, NEW M, NEW N,
         NEW nodes2, NEW got2, NEW lists, NEW lists2,
         Recorded(heapNode, alive, held, lists), Apart(heapMap, alive, held, lists),
         GotMore(held, got2, p, n, mem, M), ListGrew(lists, lists2, p, b, M, N),
         NodeFilled(lists, nodes2, b, mem, n)
  PROVE  Recorded(nodes2, alive, got2, lists2)
<1>a. /\ \A q \in alive : held[q] \subseteq got2[q]
      /\ \A q \in alive : \A c \in Members(lists2[q]) :
           c \in Members(lists[q]) \/ (q = p /\ c = b /\ b # NULL)
  BY MoreOrSame
<1>b. \A q \in alive : \A c \in Members(lists[q]) :
        nodes2[c].address = heapNode[c].address /\ nodes2[c].pages = heapNode[c].pages
  BY DEF NodeFilled
<1>c. b # NULL => nodes2[b].address = mem /\ nodes2[b].pages = n
  BY DEF NodeFilled
<1>d. mem # NULL => mem \notin heapMap /\ <<mem, n>> \in got2[p]
  BY DEF GotMore
<1>1. ASSUME NEW q \in alive, NEW c \in Members(lists2[q])
      PROVE  nodes2[c].address = NULL \/ <<nodes2[c].address, nodes2[c].pages>> \in got2[q]
  <2>1. CASE c \in Members(lists[q])
    <3>1. heapNode[c].address = NULL \/ <<heapNode[c].address, heapNode[c].pages>> \in held[q]
      BY <2>1 DEF Recorded
    <3>2. nodes2[c].address = heapNode[c].address /\ nodes2[c].pages = heapNode[c].pages
      BY <1>b, <2>1
    <3> QED BY <1>a, <3>1, <3>2
  <2>2. CASE q = p /\ c = b /\ b # NULL
    <3>1. mem = NULL \/ <<mem, n>> \in got2[p]
      BY <1>d
    <3> QED BY <1>c, <2>2, <3>1
  <2> QED BY <1>1, <1>a, <2>1, <2>2
<1>2. ASSUME NEW c \in Members(lists[p]), heapNode[c].address = mem
      PROVE  mem = NULL
  <2> SUFFICES ASSUME mem # NULL PROVE FALSE
    OBVIOUS
  <2>1. <<heapNode[c].address, heapNode[c].pages>> \in held[p]
    BY <1>2 DEF Recorded
  <2>2. PICK h \in held[p] : h[1] = mem
    BY <1>2, <2>1
  <2>3. mem \in Run(h[1], h[2])
    BY <2>2, HeldRuns
  <2>4. Run(h[1], h[2]) \subseteq heapMap
    BY <2>2 DEF Apart
  <2> QED BY <1>d, <2>3, <2>4
<1>3. ASSUME NEW q \in alive, NEW c \in Members(lists2[q]), NEW d \in Members(lists2[q]),
             nodes2[c].address = nodes2[d].address
      PROVE  nodes2[c].address = NULL \/ c = d
  <2>1. CASE c \in Members(lists[q]) /\ d \in Members(lists[q])
    <3>1. heapNode[c].address = heapNode[d].address => heapNode[c].address = NULL \/ c = d
      BY <2>1 DEF Recorded
    <3>2. nodes2[c].address = heapNode[c].address /\ nodes2[d].address = heapNode[d].address
      BY <1>b, <2>1
    <3> QED BY <1>3, <3>1, <3>2
  <2>2. CASE c \in Members(lists[q]) /\ q = p /\ d = b /\ b # NULL
    <3>1. nodes2[c].address = heapNode[c].address /\ nodes2[d].address = mem
      BY <1>b, <1>c, <2>2
    <3> QED BY <1>2, <1>3, <2>2, <3>1
  <2>3. CASE d \in Members(lists[q]) /\ q = p /\ c = b /\ b # NULL
    <3>1. nodes2[d].address = heapNode[d].address /\ nodes2[c].address = mem
      BY <1>b, <1>c, <2>3
    <3> QED BY <1>2, <1>3, <2>3, <3>1
  <2>4. CASE c = b /\ d = b
    BY <2>4
  <2> QED BY <1>3, <1>a, <2>1, <2>2, <2>3, <2>4
<1> QED BY <1>1, <1>3 DEF Recorded

LEMMA MallocWhole ==
  ASSUME AllTyped, NEW p \in alive, NEW n, NEW mem, NEW b, NEW M, NEW N,
         NEW nodes2, NEW got2, NEW lists, NEW lists2,
         Whole(heapMap, heapNode, alive, held, lists), mem # NULL, b # NULL,
         GotMore(held, got2, p, n, mem, M), ListGrew(lists, lists2, p, b, M, N),
         NodeFilled(lists, nodes2, b, mem, n)
  PROVE  Whole(heapMap \cup M \cup N, nodes2, alive, got2, lists2)
<1>1. /\ \A q \in alive : held[q] \subseteq got2[q] /\ Members(lists[q]) \subseteq Members(lists2[q])
      /\ \A q \in alive : \A c \in Members(lists2[q]) :
           c \in Members(lists[q]) \/ (q = p /\ c = b /\ b # NULL)
      /\ \A q \in alive : \A h \in got2[q] :
           h \in held[q] \/ (q = p /\ h = <<mem, n>> /\ mem # NULL)
  BY MoreOrSame
<1>a. /\ \A q \in alive : \A c \in Members(lists[q]) : nodes2[c].address = heapNode[c].address
      /\ nodes2[b].address = mem
  BY DEF NodeFilled
<1>b. <<mem, n>> \in got2[p] /\ M = Run(mem, n)
  BY DEF GotMore
<1>c. b \in Members(lists2[p]) /\ N = {b}
  BY DEF ListGrew
<1>2. ASSUME NEW q \in alive, NEW c \in Members(lists2[q]) PROVE nodes2[c].address # NULL
  <2>1. CASE c \in Members(lists[q])
    BY <1>a, <2>1 DEF Whole
  <2>2. CASE c = b
    BY <1>a, <2>2
  <2> QED BY <1>1, <2>1, <2>2
<1>3. ASSUME NEW q \in alive, NEW h \in got2[q] PROVE \E c \in Members(lists2[q]) : nodes2[c].address = h[1]
  <2>1. h \in held[q] \/ (q = p /\ h = <<mem, n>>)
    BY <1>1
  <2>2. CASE h \in held[q]
    <3>1. PICK c \in Members(lists[q]) : heapNode[c].address = h[1]
      BY <2>2 DEF Whole
    <3> QED BY <1>1, <1>a, <3>1
  <2>3. CASE q = p /\ h = <<mem, n>>
    <3>1. h[1] = mem /\ b \in Members(lists2[q])
      BY <1>c, <2>3
    <3> QED BY <1>a, <3>1
  <2> QED BY <2>1, <2>2, <2>3
<1>4. ASSUME NEW x \in heapMap \cup M \cup N
      PROVE  \E q \in alive : x \in Members(lists2[q]) \/ \E h \in got2[q] : x \in Run(h[1], h[2])
  <2>1. CASE x \in heapMap
    <3>1. PICK q \in alive : x \in Members(lists[q]) \/ \E h \in held[q] : x \in Run(h[1], h[2])
      BY <2>1 DEF Whole
    <3>2. x \in Members(lists2[q]) \/ \E h \in got2[q] : x \in Run(h[1], h[2])
      BY <1>1, <3>1
    <3> QED BY <3>2
  <2>2. CASE x \in M
    <3>1. PICK h : h = <<mem, n>>
      OBVIOUS
    <3>2. h[1] = mem /\ h[2] = n /\ h \in got2[p]
      BY <1>b, <3>1
    <3>3. x \in Run(h[1], h[2])
      BY <1>b, <2>2, <3>2
    <3> QED BY <3>2, <3>3
  <2>3. CASE x \in N
    BY <1>c, <2>3
  <2> QED BY <1>4, <2>1, <2>2, <2>3
<1> QED BY <1>2, <1>3, <1>4 DEF Whole

LEMMA MallocLayout ==
  ASSUME AllTyped, NEW p \in alive, NEW n \in RequestSizes,
         NEW mem \in Block \cup {NULL}, NEW b \in Block \cup {NULL}, NEW M, NEW N,
         Grew(p, n, mem, b, M, N), ~reissued',
         NEW lists, HeapLayout(heapMap, heapNode, heap, alive, held, touched, lists)
  PROVE  \E lists2 :
           /\ HeapLayout(heapMap', heapNode', heap', alive, held', touched', lists2)
           /\ ~refused' /\ Whole(heapMap, heapNode, alive, held, lists) =>
                Whole(heapMap', heapNode', alive, held', lists2)
<1>1. /\ M = (IF mem = NULL THEN {} ELSE Run(mem, n)) /\ N = (IF b = NULL THEN {} ELSE {b})
      /\ M \cap heapMap = {} /\ N \cap (heapMap \cup M) = {} /\ (M \cup N) \cap touched = {}
      /\ mem # NULL => mem \in M
      /\ b # NULL => b \in Block
      /\ heapMap' = heapMap \cup M \cup N /\ touched' = touched \cup heapMap'
      /\ ~refused' => mem # NULL /\ b # NULL
      /\ mem = NULL => held' = held
      /\ mem # NULL => held'[p] = held[p] \cup {<<mem, n>>} /\ \A q \in alive : q # p => held'[q] = held[q]
  BY DEF Grew
<1>2. IF b = NULL THEN addHeapRefused ELSE addHeap(p, b, mem, n)
  BY DEF Grew
<1>3. /\ heapMap \subseteq touched /\ \A c \in Block \ touched : heapNode[c] = ZeroNode
      /\ AllLinked(heapNode, heap, lists)
      /\ Apart(heapMap, alive, held, lists) /\ Recorded(heapNode, alive, held, lists)
  BY DEF HeapLayout, AllLinked
<1>4. heapMap \subseteq Block /\ alive \subseteq Process
  BY DEF AllTyped, Typed
<1>5. PICK lists2 : lists2 = IF b = NULL THEN lists ELSE WithNode(lists, p, b)
  OBVIOUS
<1>6. b # NULL => /\ Members(lists2[p]) = Members(lists[p]) \cup {b}
                  /\ \A q \in alive : q # p => lists2[q] = lists[q]
  <2> SUFFICES ASSUME b # NULL
               PROVE  /\ Members(lists2[p]) = Members(lists[p]) \cup {b}
                      /\ \A q \in alive : q # p => lists2[q] = lists[q]
    OBVIOUS
  <2>1. PICK s : s = lists[p]
    OBVIOUS
  <2>2. s \in Seq(Block) /\ \A i, j \in 1..Len(s) : s[i] = s[j] => i = j
    BY <1>3, <2>1 DEF AllLinked, Linked
  <2>3. Members(Appended(s, b)) = Members(s) \cup {b}
    BY <1>1, <2>2, MembersOf
  <2>4. lists2[p] = Appended(s, b) /\ \A q \in alive : q # p => lists2[q] = lists[q]
    BY <1>4, <1>5, <2>1 DEF WithNode
  <2> QED BY <2>1, <2>3, <2>4
<1>7. b = NULL => lists2 = lists
  BY <1>5
<1>8. GotMore(held, held', p, n, mem, M) /\ ListGrew(lists, lists2, p, b, M, N)
  <2>1. GotMore(held, held', p, n, mem, M)
    BY <1>1 DEF GotMore
  <2>2. ListGrew(lists, lists2, p, b, M, N)
    BY <1>1, <1>6, <1>7 DEF ListGrew
  <2> QED BY <2>1, <2>2
<1>9. \A q \in alive : Members(lists[q]) \subseteq heapMap
  BY <1>3 DEF Apart
<1>10. b # NULL => b \notin heapMap /\ b \notin touched /\ b \in heapMap'
  BY <1>1
<1>11. /\ AllLinked(heapNode', heap', lists2)
       /\ b # NULL => heapNode'[b].address = mem /\ heapNode'[b].pages = n
       /\ \A c \in Block : c # b =>
            heapNode'[c].address = heapNode[c].address /\ heapNode'[c].pages = heapNode[c].pages
       /\ \A c \in Block : c # b /\ c \notin Members(lists[p]) => heapNode'[c] = heapNode[c]
  <2>1. CASE b = NULL
    <3>1. heapNode' = heapNode /\ heap' = heap
      BY <1>2, <2>1 DEF addHeapRefused
    <3>2. lists2 = lists
      BY <1>7, <2>1
    <3> QED BY <1>3, <2>1, <3>1, <3>2
  <2>2. CASE b # NULL
    <3>1. heapNode[b].next = NULL
      BY <1>1, <1>3, <1>10, <2>2 DEF ZeroNode
    <3>2. \A q \in alive : b \notin Members(lists[q])
      BY <1>9, <1>10, <2>2
    <3>3. ListsApart(lists)
      BY <1>3 DEF Apart, ListsApart
    <3>4. addHeap(p, b, mem, n)
      BY <1>2, <2>2
    <3>5. mem \in Pointer /\ b \in Block
      BY <1>1, <2>2, PointersAre
    <3>6. /\ AllLinked(heapNode', heap', WithNode(lists, p, b))
          /\ heapNode'[b].address = mem /\ heapNode'[b].pages = n
          /\ \A c \in Block : c # b =>
               heapNode'[c].address = heapNode[c].address /\ heapNode'[c].pages = heapNode[c].pages
          /\ \A c \in Block : c # b /\ c \notin Members(lists[p]) => heapNode'[c] = heapNode[c]
      BY <1>3, <3>1, <3>2, <3>3, <3>4, <3>5, NodeAdded
    <3>7. lists2 = WithNode(lists, p, b)
      BY <1>5, <2>2
    <3> QED BY <3>6, <3>7
  <2> QED BY <2>1, <2>2
<1>12. \A c \in Block \ touched' : heapNode'[c] = ZeroNode
  <2> SUFFICES ASSUME NEW c \in Block \ touched' PROVE heapNode'[c] = ZeroNode
    OBVIOUS
  <2>1. c \notin touched /\ c \notin heapMap /\ c # b
    BY <1>1, <1>4, <1>10, NoBlock
  <2>2. c \notin Members(lists[p])
    BY <1>9, <2>1
  <2> QED BY <1>3, <1>11, <2>1, <2>2
<1>13. heapMap' \subseteq touched'
  BY <1>1
<1>14. NodeFilled(lists, heapNode', b, mem, n)
  <2>1. ASSUME NEW q \in alive, NEW c \in Members(lists[q])
        PROVE  heapNode'[c].address = heapNode[c].address /\ heapNode'[c].pages = heapNode[c].pages
    <3>1. c \in heapMap /\ c \in Block
      BY <1>4, <1>9
    <3>2. c # b
      BY <1>10, <3>1, NoBlock
    <3> QED BY <1>11, <3>1, <3>2
  <2> QED BY <1>11, <2>1 DEF NodeFilled
<1>15. PICK nodes2, got2 : nodes2 = heapNode' /\ got2 = held'
  OBVIOUS
<1>16. /\ GotMore(held, got2, p, n, mem, M) /\ ListGrew(lists, lists2, p, b, M, N)
       /\ NodeFilled(lists, nodes2, b, mem, n)
  BY <1>8, <1>14, <1>15
<1>17. Apart(heapMap', alive, held', lists2) /\ Recorded(heapNode', alive, held', lists2)
  <2>1. Apart(heapMap \cup M \cup N, alive, got2, lists2)
    BY <1>3, <1>16, MallocApart
  <2>2. Recorded(nodes2, alive, got2, lists2)
    BY <1>3, <1>16, MallocRecorded
  <2> QED BY <1>1, <1>15, <2>1, <2>2
<1>18. ASSUME ~refused', Whole(heapMap, heapNode, alive, held, lists)
       PROVE  Whole(heapMap', heapNode', alive, held', lists2)
  <2>1. mem # NULL /\ b # NULL
    BY <1>1, <1>18
  <2>2. Whole(heapMap \cup M \cup N, nodes2, alive, got2, lists2)
    BY <1>16, <1>18, <2>1, MallocWhole
  <2> QED BY <1>1, <1>15, <2>2
<1>19. HeapLayout(heapMap', heapNode', heap', alive, held', touched', lists2)
  BY <1>11, <1>12, <1>13, <1>17 DEF HeapLayout, AllLinked
<1> QED BY <1>18, <1>19

LEMMA MallocHeaps == ASSUME HeapsInv, NEW p \in Process, Malloc(p) PROVE HeapsInv'
<1>1. AllTyped
  BY TypesAre DEF HeapsInv
<1>2. HeapTypes' /\ held' \in Held
  <2>1. AllTyped'
    BY <1>1, MallocTypes
  <2> QED BY <2>1, TypesAfter
<1>3. p \in alive /\ heapKernel = "running"
  BY DEF Malloc
<1>4. CASE ~Ends(p) /\ Lose
  <2>1. reissued
    <3> SUFFICES ASSUME ~reissued PROVE FALSE
      OBVIOUS
    <3>1. PICK lists : HeapLayout(heapMap, heapNode, heap, alive, held, touched, lists)
      BY DEF HeapsInv
    <3>2. Linked(Links(heapNode), heap[p], lists[p])
      BY <1>3, <3>1 DEF HeapLayout
    <3> QED BY <1>4, <3>2, HeapWalk
  <2>2. reissued'
    BY <1>4, <2>1 DEF Lose, ghosts
  <2> QED BY <1>2, <2>2, HeapsNext
<1>5. CASE \E n \in RequestSizes, mem \in Block \cup {NULL}, newNode \in Block \cup {NULL} :
             pmalloc(p, n, mem, newNode)
  <2>1. PICK n \in RequestSizes, mem \in Block \cup {NULL}, b \in Block \cup {NULL} : pmalloc(p, n, mem, b)
    BY <1>5
  <2>2. PICK M, N : Grew(p, n, mem, b, M, N)
    BY <1>1, <1>3, <2>1, MallocGrows
  <2>3. /\ ~reissued' => ~reissued
        /\ ~refused' => ~refused
        /\ alive' = alive /\ heapKernel' = "running"
    BY <1>3, <2>2 DEF Grew
  <2>4. ASSUME ~reissued'
        PROVE  \E lists : /\ HeapLayout(heapMap', heapNode', heap', alive', held', touched', lists)
                          /\ ~refused' => Whole(heapMap', heapNode', alive', held', lists)
    <3>1. PICK lists : /\ HeapLayout(heapMap, heapNode, heap, alive, held, touched, lists)
                       /\ ~refused => Whole(heapMap, heapNode, alive, held, lists)
      BY <2>3, <2>4 DEF HeapsInv
    <3>2. PICK lists2 :
           /\ HeapLayout(heapMap', heapNode', heap', alive, held', touched', lists2)
           /\ ~refused' /\ Whole(heapMap, heapNode, alive, held, lists) =>
                Whole(heapMap', heapNode', alive, held', lists2)
      BY <1>1, <1>3, <2>2, <2>4, <3>1, MallocLayout
    <3> QED BY <2>3, <3>1, <3>2
  <2> QED BY <1>2, <2>3, <2>4, HeapsNext
<1> QED BY <1>4, <1>5 DEF Malloc

\* The node that records some memory records all of it.
LEMMA MemoryOfNode ==
  ASSUME AllTyped, NEW lists, Apart(heapMap, alive, held, lists), Recorded(heapNode, alive, held, lists),
         NEW p \in alive, NEW b \in Members(lists[p]), NEW h \in held[p], heapNode[b].address = h[1]
  PROVE  h = << heapNode[b].address, heapNode[b].pages >> /\ PagesOf(b) = {b} \cup Run(h[1], h[2])
<1>1. h[1] \in Block /\ h[1] \in Run(h[1], h[2])
  BY HeldRuns
<1>2. heapNode[b].address # NULL
  BY <1>1, NoBlock
<1>3. PICK g : g = <<heapNode[b].address, heapNode[b].pages>>
  OBVIOUS
<1>4. g \in held[p]
  BY <1>2, <1>3 DEF Recorded
<1>5. g[1] = heapNode[b].address /\ g[2] = heapNode[b].pages
  BY <1>3
<1>6. h[1] \in Run(g[1], g[2])
  <2>1. g[1] \in Run(g[1], g[2])
    BY <1>4, HeldRuns
  <2> QED BY <1>5, <2>1
<1>7. g = h
  <2> SUFFICES ASSUME g # h PROVE FALSE
    OBVIOUS
  <2>1. Run(h[1], h[2]) \cap Run(g[1], g[2]) = {}
    BY <1>4 DEF Apart
  <2> QED BY <1>1, <1>6, <2>1
<1>8. heapNode[b].address = h[1] /\ heapNode[b].pages = h[2]
  BY <1>5, <1>7
<1> QED BY <1>1, <1>3, <1>7, <1>8 DEF PagesOf

\* What the first match is, by its place in the list.
MatchAt(p, s, n, mem) ==
  /\ n \in Nat /\ n + 1 \in 1..Len(s) /\ Pointers(p)[n] = s[n + 1]
  /\ heapNode[s[n + 1]].address = mem
  /\ n > 0 => Pointers(p)[n - 1] = s[n]

LEMMA FirstMatch ==
  ASSUME NEW p, NEW s, Linked(Links(heapNode), heap[p], s), NEW mem, Matches(p, mem) # {},
         NEW n, n = First(Matches(p, mem))
  PROVE  MatchAt(p, s, n, mem)
<1>1. n \in Matches(p, mem)
  <2>1. Matches(p, mem) \in SUBSET Nat
    BY BlocksAssumption DEF Matches
  <2>2. \E k \in Matches(p, mem) : \A m \in Matches(p, mem) : k <= m
    BY <2>1, LeastNumber
  <2> QED BY <2>2 DEF First
<1>2. n \in 0..blocksAmount /\ Pointers(p)[n] \in Block /\ heapNode[Pointers(p)[n]].address = mem
  BY <1>1 DEF Matches
<1>3. \A k \in 0..blocksAmount : Pointers(p)[k] = NodeAt(s, k + 1)
  BY HeapWalk
<1>4. n + 1 \in 1..Len(s) /\ Pointers(p)[n] = s[n + 1]
  <2>1. NodeAt(s, n + 1) # NULL
    BY <1>2, <1>3, NoBlock
  <2> QED BY <1>2, <1>3, <2>1 DEF NodeAt
<1>5. n \in Nat
  BY <1>2, BlocksAssumption
<1>6. ASSUME n > 0 PROVE Pointers(p)[n - 1] = s[n]
  <2>1. n - 1 \in 0..blocksAmount /\ n - 1 + 1 = n
    BY <1>2, <1>5, <1>6, BlocksAssumption
  <2>2. Len(s) \in Nat
    BY DEF Linked
  <2>3. n \in 1..Len(s)
    BY <1>4, <1>5, <1>6, <2>2
  <2>4. Pointers(p)[n - 1] = NodeAt(s, n)
    BY <1>3, <2>1
  <2> QED BY <2>3, <2>4 DEF NodeAt
<1>7. heapNode[s[n + 1]].address = mem
  BY <1>2, <1>4
<1> QED BY <1>4, <1>5, <1>6, <1>7 DEF MatchAt

\* pfreeR takes a node out of its list.
WithoutNode(lists, p, i) == [q \in Process |-> IF q = p THEN Without(lists[q], i) ELSE lists[q]]

LEMMA NodeRemoved ==
  ASSUME AllTyped, NEW p \in alive, NEW lists, AllLinked(heapNode, heap, lists), ListsApart(lists),
         NEW n, n \in Nat, n + 1 \in 1..Len(lists[p]), Pointers(p)[n] = lists[p][n + 1],
         n > 0 => Pointers(p)[n - 1] = lists[p][n], pfreeR(p, n)
  PROVE  /\ AllLinked(heapNode', heap', WithoutNode(lists, p, n + 1))
         /\ \A c \in Block :
              heapNode'[c].address = heapNode[c].address /\ heapNode'[c].pages = heapNode[c].pages
         /\ \A c \in Block : c \notin Members(lists[p]) => heapNode'[c] = heapNode[c]
<1>0. heapNode \in [Block -> Fields4] /\ heap \in [Process -> Pointer] /\ alive \subseteq Process
  BY DEF AllTyped, Typed
<1>1. PICK s, m, b, v, last :
        s = lists[p] /\ m = Len(s) /\ b = s[n + 1] /\ v = heapNode[b].next /\ last = Pointers(p)[n - 1]
  OBVIOUS
<1>2. Linked(Links(heapNode), heap[p], s)
  BY <1>1 DEF AllLinked
<1>3. m \in Nat /\ \A i \in 1..m : s[i] \in Block /\ s[i] \in Members(s)
  BY <1>1, <1>2 DEF Linked, Members
<1>4. n + 1 \in 1..m /\ b \in Block
  BY <1>1, <1>3
<1>5. v \in Pointer
  <2>1. heapNode[b] \in Fields4
    BY <1>0, <1>4
  <2> QED BY <1>1, <2>1 DEF Fields4
<1>6. IF n = 0 THEN heap' = [heap EXCEPT ![p] = v] /\ UNCHANGED heapNode
      ELSE heapNode' = [heapNode EXCEPT ![last].next = v] /\ UNCHANGED heap
  BY <1>1 DEF pfreeR
<1>7. n # 0 => n \in 1..m /\ last = s[n]
  BY <1>1, <1>3, <1>4
<1>8. /\ \A c \in Block :
           heapNode'[c].address = heapNode[c].address /\ heapNode'[c].pages = heapNode[c].pages
      /\ \A c \in Block :
           heapNode'[c].next = IF n # 0 /\ c = last THEN v ELSE heapNode[c].next
      /\ \A c \in Block : n = 0 \/ c # last => heapNode'[c] = heapNode[c]
  <2>1. CASE n = 0
    BY <1>6, <2>1
  <2>2. CASE n # 0
    <3>1. heapNode' = [heapNode EXCEPT ![last].next = v]
      BY <1>6, <2>2
    <3>2. /\ \A c \in Block :
               heapNode'[c].address = heapNode[c].address /\ heapNode'[c].pages = heapNode[c].pages
          /\ \A c \in Block : heapNode'[c].next = IF c = last THEN v ELSE heapNode[c].next
          /\ \A c \in Block : c # last => heapNode'[c] = heapNode[c]
      BY <1>0, <1>5, <3>1, NodeHung
    <3> QED BY <2>2, <3>2
  <2> QED BY <2>1, <2>2
<1>9. heap'[p] = (IF n = 0 THEN v ELSE heap[p]) /\ \A q \in alive : q # p => heap'[q] = heap[q]
  BY <1>0, <1>6
<1>10. Linked(Links(heapNode'), heap'[p], Without(s, n + 1))
  <2>1. PICK words, words2, i : words = Links(heapNode) /\ words2 = Links(heapNode') /\ i = n + 1
    OBVIOUS
  <2>2. words[s[i]][next] = v
    BY <1>1, <1>4, <2>1, LinksAre
  <2>3. heap'[p] = IF i = 1 THEN words[s[1]][next] ELSE heap[p]
    <3>1. i = 1 <=> n = 0
      BY <2>1
    <3>2. i = 1 => words[s[1]][next] = v
      BY <2>2
    <3> QED BY <1>9, <3>1, <3>2
  <2>4. ASSUME NEW j \in 1..m, j # i
        PROVE  words2[s[j]][next] = IF j = i - 1 THEN words[s[i]][next] ELSE words[s[j]][next]
    <3>1. s[j] \in Block
      BY <1>3
    <3>2. words2[s[j]][next] = heapNode'[s[j]].next /\ words[s[j]][next] = heapNode[s[j]].next
      BY <2>1, <3>1, LinksAre
    <3>3. CASE j = i - 1
      <4>1. n # 0 /\ s[j] = last
        BY <1>7, <2>1, <3>3
      <4>2. heapNode'[s[j]].next = v
        BY <1>8, <3>1, <4>1
      <4> QED BY <2>2, <3>2, <3>3, <4>2
    <3>4. CASE j # i - 1
      <4>1. n = 0 \/ s[j] # last
        <5>1. n # 0 => n \in 1..m /\ j # n
          BY <1>7, <2>1, <3>4
        <5> QED BY <1>1, <1>2, <1>7, <5>1 DEF Linked
      <4>2. heapNode'[s[j]].next = heapNode[s[j]].next
        BY <1>8, <3>1, <4>1
      <4> QED BY <3>2, <3>4, <4>2
    <3> QED BY <3>3, <3>4
  <2>5. i \in 1..Len(s)
    BY <1>1, <1>4, <2>1
  <2>6. \A j \in 1..Len(s) : j # i =>
          words2[s[j]][next] = IF j = i - 1 THEN words[s[i]][next] ELSE words[s[j]][next]
    BY <1>1, <2>4
  <2>7. Linked(words, heap[p], s)
    BY <1>2, <2>1
  <2>8. Linked(words2, heap'[p], Without(s, i))
    BY <2>3, <2>5, <2>6, <2>7, LinkedWithout
  <2> QED BY <2>1, <2>8
<1>11. \A q \in alive : q # p => Linked(Links(heapNode'), heap'[q], lists[q])
  <2> SUFFICES ASSUME NEW q \in alive, q # p PROVE Linked(Links(heapNode'), heap'[q], lists[q])
    OBVIOUS
  <2>1. Linked(Links(heapNode), heap[q], lists[q]) /\ heap'[q] = heap[q]
    BY <1>9 DEF AllLinked
  <2>2. Members(lists[q]) \subseteq Block
    BY <2>1, MembersOf DEF Linked
  <2>3. Members(lists[q]) \cap Members(s) = {}
    BY <1>1 DEF ListsApart
  <2>4. \A c \in Members(lists[q]) : heapNode'[c].next = heapNode[c].next
    <3>1. \A c \in Members(lists[q]) : c \in Block /\ (n = 0 \/ c # last)
      BY <1>3, <1>7, <2>2, <2>3
    <3> QED BY <1>8, <3>1
  <2> QED BY <2>1, <2>4, HeapLinkedFrame
<1>12. AllLinked(heapNode', heap', WithoutNode(lists, p, n + 1))
  BY <1>0, <1>1, <1>10, <1>11 DEF AllLinked, WithoutNode
<1>13. \A c \in Block : c \notin Members(s) => heapNode'[c] = heapNode[c]
  <2>1. \A c \in Block : c \notin Members(s) => n = 0 \/ c # last
    BY <1>3, <1>7
  <2> QED BY <1>8, <2>1
<1> QED BY <1>1, <1>8, <1>12, <1>13

\* One node less, and the memory it records.
Shrunk(lists, lists2, got2, p, b, h) ==
  /\ b \in Members(lists[p]) /\ h \in held[p] /\ heapNode[b].address = h[1]
  /\ Members(lists2[p]) = Members(lists[p]) \ {b} /\ got2[p] = held[p] \ {h}
  /\ \A q \in alive : q # p => lists2[q] = lists[q] /\ got2[q] = held[q]

LEMMA ShrunkAre ==
  ASSUME NEW p \in alive, NEW lists, NEW lists2, NEW got2, NEW b, NEW h,
         Shrunk(lists, lists2, got2, p, b, h)
  PROVE  /\ \A q \in alive : \A c : c \in Members(lists2[q]) <=> c \in Members(lists[q]) /\ (q = p => c # b)
         /\ \A q \in alive : \A g : g \in got2[q] <=> g \in held[q] /\ (q = p => g # h)
<1>1. ASSUME NEW q \in alive
      PROVE  /\ \A c : c \in Members(lists2[q]) <=> c \in Members(lists[q]) /\ (q = p => c # b)
             /\ \A g : g \in got2[q] <=> g \in held[q] /\ (q = p => g # h)
  <2>1. CASE q = p
    BY <2>1 DEF Shrunk
  <2>2. CASE q # p
    <3>1. lists2[q] = lists[q] /\ got2[q] = held[q]
      BY <2>2 DEF Shrunk
    <3> QED BY <2>2, <3>1
  <2> QED BY <2>1, <2>2
<1> QED BY <1>1

LEMMA FreeApart ==
  ASSUME NEW p \in alive, NEW lists, NEW lists2, NEW got2, NEW b, NEW h,
         Apart(heapMap, alive, held, lists), Shrunk(lists, lists2, got2, p, b, h)
  PROVE  Apart(heapMap \ ({b} \cup Run(h[1], h[2])), alive, got2, lists2)
<1>1. /\ \A q \in alive : \A c : c \in Members(lists2[q]) <=> c \in Members(lists[q]) /\ (q = p => c # b)
      /\ \A q \in alive : \A g : g \in got2[q] <=> g \in held[q] /\ (q = p => g # h)
  BY ShrunkAre
<1>2. b \in Members(lists[p]) /\ h \in held[p]
  BY DEF Shrunk
<1>3. ASSUME NEW q \in alive, NEW c \in Members(lists2[q])
      PROVE  c \in heapMap /\ c # b /\ c \notin Run(h[1], h[2])
  <2>1. c \in Members(lists[q])
    BY <1>1, <1>3
  <2>2. c \in heapMap /\ c \notin Run(h[1], h[2])
    BY <1>2, <2>1 DEF Apart
  <2>3. q # p => c # b
    BY <1>2, <2>1 DEF Apart
  <2> QED BY <1>1, <1>3, <2>2, <2>3
<1>4. ASSUME NEW q \in alive, NEW g \in got2[q]
      PROVE  Run(g[1], g[2]) \subseteq heapMap \ ({b} \cup Run(h[1], h[2]))
  <2>1. g \in held[q] /\ (q = p => g # h)
    BY <1>1, <1>4
  <2>2. Run(g[1], g[2]) \subseteq heapMap /\ b \notin Run(g[1], g[2])
    BY <1>2, <2>1 DEF Apart
  <2>3. Run(g[1], g[2]) \cap Run(h[1], h[2]) = {}
    BY <1>2, <2>1 DEF Apart
  <2> QED BY <2>2, <2>3
<1>5. \A q, r \in alive : q # r => Members(lists2[q]) \cap Members(lists2[r]) = {}
  BY <1>1 DEF Apart
<1>6. \A q, r \in alive : \A g \in got2[q] : Run(g[1], g[2]) \cap Members(lists2[r]) = {}
  BY <1>1 DEF Apart
<1>7. \A q, r \in alive : \A g \in got2[q], k \in got2[r] :
        q # r \/ g # k => Run(g[1], g[2]) \cap Run(k[1], k[2]) = {}
  BY <1>1 DEF Apart
<1>8. \A q \in alive : Members(lists2[q]) \subseteq heapMap \ ({b} \cup Run(h[1], h[2]))
  BY <1>3
<1> QED BY <1>4, <1>5, <1>6, <1>7, <1>8 DEF Apart

\* The fields that say what a node stands for.
SameRecords(nodes2) ==
  \A c \in Block : nodes2[c].address = heapNode[c].address /\ nodes2[c].pages = heapNode[c].pages

LEMMA FreeRecorded ==
  ASSUME AllTyped, NEW p \in alive, NEW lists, NEW lists2, NEW got2, NEW b, NEW h, NEW nodes2,
         Apart(heapMap, alive, held, lists), Recorded(heapNode, alive, held, lists),
         Shrunk(lists, lists2, got2, p, b, h), SameRecords(nodes2)
  PROVE  Recorded(nodes2, alive, got2, lists2)
<1>1. /\ \A q \in alive : \A c : c \in Members(lists2[q]) <=> c \in Members(lists[q]) /\ (q = p => c # b)
      /\ \A q \in alive : \A g : g \in got2[q] <=> g \in held[q] /\ (q = p => g # h)
  BY ShrunkAre
<1>2. b \in Members(lists[p]) /\ h \in held[p] /\ heapNode[b].address = h[1]
  BY DEF Shrunk
<1>3. \A q \in alive : Members(lists[q]) \subseteq Block
  BY DEF Apart, AllTyped, Typed
<1>4. ASSUME NEW q \in alive, NEW c \in Members(lists2[q])
      PROVE  nodes2[c].address = NULL \/ <<nodes2[c].address, nodes2[c].pages>> \in got2[q]
  <2> SUFFICES ASSUME nodes2[c].address # NULL PROVE <<nodes2[c].address, nodes2[c].pages>> \in got2[q]
    OBVIOUS
  <2>1. c \in Members(lists[q]) /\ c \in Block /\ (q = p => c # b)
    BY <1>1, <1>3, <1>4
  <2>2. nodes2[c].address = heapNode[c].address /\ nodes2[c].pages = heapNode[c].pages
    BY <2>1 DEF SameRecords
  <2>3. PICK g : g = <<heapNode[c].address, heapNode[c].pages>>
    OBVIOUS
  <2>4. g \in held[q]
    BY <2>1, <2>2, <2>3 DEF Recorded
  <2>5. ASSUME q = p PROVE g # h
    <3> SUFFICES ASSUME g = h PROVE FALSE
      OBVIOUS
    <3>1. heapNode[c].address = heapNode[b].address
      BY <1>2, <2>3
    <3> QED BY <1>2, <2>1, <2>2, <2>5, <3>1 DEF Recorded
  <2> QED BY <1>1, <2>2, <2>3, <2>4, <2>5
<1>5. ASSUME NEW q \in alive, NEW c \in Members(lists2[q]), NEW d \in Members(lists2[q]),
             nodes2[c].address = nodes2[d].address
      PROVE  nodes2[c].address = NULL \/ c = d
  <2>1. c \in Members(lists[q]) /\ c \in Block /\ d \in Members(lists[q]) /\ d \in Block
    BY <1>1, <1>3, <1>5
  <2>2. nodes2[c].address = heapNode[c].address /\ nodes2[d].address = heapNode[d].address
    BY <2>1 DEF SameRecords
  <2> QED BY <1>5, <2>1, <2>2 DEF Recorded
<1> QED BY <1>4, <1>5 DEF Recorded

LEMMA FreeWhole ==
  ASSUME AllTyped, NEW p \in alive, NEW lists, NEW lists2, NEW got2, NEW b, NEW h, NEW nodes2,
         Apart(heapMap, alive, held, lists), Whole(heapMap, heapNode, alive, held, lists),
         Shrunk(lists, lists2, got2, p, b, h), SameRecords(nodes2)
  PROVE  Whole(heapMap \ ({b} \cup Run(h[1], h[2])), nodes2, alive, got2, lists2)
<1>1. /\ \A q \in alive : \A c : c \in Members(lists2[q]) <=> c \in Members(lists[q]) /\ (q = p => c # b)
      /\ \A q \in alive : \A g : g \in got2[q] <=> g \in held[q] /\ (q = p => g # h)
  BY ShrunkAre
<1>2. b \in Members(lists[p]) /\ h \in held[p] /\ heapNode[b].address = h[1]
  BY DEF Shrunk
<1>3. \A q \in alive : Members(lists[q]) \subseteq Block
  BY DEF Apart, AllTyped, Typed
<1>4. ASSUME NEW q \in alive, NEW c \in Members(lists2[q]) PROVE nodes2[c].address # NULL
  <2>1. c \in Members(lists[q]) /\ c \in Block
    BY <1>1, <1>3, <1>4
  <2>2. heapNode[c].address # NULL
    BY <2>1 DEF Whole
  <2> QED BY <2>1, <2>2 DEF SameRecords
<1>5. ASSUME NEW q \in alive, NEW g \in got2[q]
      PROVE  \E c \in Members(lists2[q]) : nodes2[c].address = g[1]
  <2>1. g \in held[q] /\ (q = p => g # h)
    BY <1>1, <1>5
  <2>2. PICK c \in Members(lists[q]) : heapNode[c].address = g[1]
    BY <2>1 DEF Whole
  <2>3. ASSUME q = p PROVE c # b
    <3> SUFFICES ASSUME c = b PROVE FALSE
      OBVIOUS
    <3>1. g[1] = h[1]
      BY <1>2, <2>2
    <3>2. g[1] \in Run(g[1], g[2])
      BY <2>1, HeldRuns
    <3>3. h[1] \in Run(h[1], h[2])
      BY <1>2, HeldRuns
    <3>4. Run(g[1], g[2]) \cap Run(h[1], h[2]) = {}
      BY <1>2, <2>1, <2>3 DEF Apart
    <3> QED BY <3>1, <3>2, <3>3, <3>4
  <2>4. c \in Members(lists2[q])
    BY <1>1, <2>2, <2>3
  <2>5. nodes2[c].address = heapNode[c].address
    <3>1. c \in Block
      BY <1>3, <2>2
    <3> QED BY <3>1 DEF SameRecords
  <2> QED BY <2>2, <2>4, <2>5
<1>6. ASSUME NEW x \in heapMap \ ({b} \cup Run(h[1], h[2]))
      PROVE  \E q \in alive : x \in Members(lists2[q]) \/ \E g \in got2[q] : x \in Run(g[1], g[2])
  <2>1. PICK q \in alive : x \in Members(lists[q]) \/ \E g \in held[q] : x \in Run(g[1], g[2])
    BY DEF Whole
  <2>2. CASE x \in Members(lists[q])
    <3>1. x \in Members(lists2[q])
      BY <1>1, <1>6, <2>2
    <3> QED BY <3>1
  <2>3. CASE \E g \in held[q] : x \in Run(g[1], g[2])
    <3>1. PICK g \in held[q] : x \in Run(g[1], g[2])
      BY <2>3
    <3>2. g # h
      BY <1>6, <3>1
    <3>3. g \in got2[q]
      BY <1>1, <3>1, <3>2
    <3> QED BY <3>1, <3>3
  <2> QED BY <2>1, <2>2, <2>3
<1> QED BY <1>4, <1>5, <1>6 DEF Whole

LEMMA NoMatch ==
  ASSUME NEW p, NEW s, Linked(Links(heapNode), heap[p], s), NEW mem, Matches(p, mem) = {}
  PROVE  \A c \in Members(s) : heapNode[c].address # mem
<1> SUFFICES ASSUME NEW c \in Members(s), heapNode[c].address = mem PROVE FALSE
  OBVIOUS
<1>1. c \in Entries(p)
  BY HeapEntries
<1>2. PICK n \in 0..blocksAmount : c = Pointers(p)[n] /\ c \in Block
  BY <1>1 DEF Entries
<1>3. n \in Matches(p, mem)
  BY <1>2 DEF Matches
<1> QED BY <1>3

LEMMA FreeLayout ==
  ASSUME AllTyped, NEW p \in alive, NEW h \in held[p], NEW lists,
         HeapLayout(heapMap, heapNode, heap, alive, held, touched, lists),
         Matches(p, h[1]) # {}, pfreeR(p, First(Matches(p, h[1]))),
         held' = [held EXCEPT ![p] = @ \ {h}]
  PROVE  \E lists2 :
           /\ HeapLayout(heapMap', heapNode', heap', alive, held', touched, lists2)
           /\ Whole(heapMap, heapNode, alive, held, lists) =>
                Whole(heapMap', heapNode', alive, held', lists2)
<1>1. /\ heapMap \subseteq touched /\ \A c \in Block \ touched : heapNode[c] = ZeroNode
      /\ AllLinked(heapNode, heap, lists) /\ ListsApart(lists)
      /\ Apart(heapMap, alive, held, lists) /\ Recorded(heapNode, alive, held, lists)
  BY DEF HeapLayout, AllLinked, ListsApart, Apart
<1>2. PICK n, s, mem : n = First(Matches(p, h[1])) /\ s = lists[p] /\ mem = h[1]
  OBVIOUS
<1>3. Linked(Links(heapNode), heap[p], s)
  BY <1>1, <1>2 DEF AllLinked
<1>4. /\ n \in Nat /\ n + 1 \in 1..Len(s) /\ Pointers(p)[n] = s[n + 1]
      /\ heapNode[s[n + 1]].address = mem
      /\ n > 0 => Pointers(p)[n - 1] = s[n]
  <2>1. Matches(p, mem) # {} /\ n = First(Matches(p, mem))
    BY <1>2
  <2>2. MatchAt(p, s, n, mem)
    BY <1>3, <2>1, FirstMatch
  <2> QED BY <2>2 DEF MatchAt
<1>5. pfreeR(p, n)
  BY <1>2
<1>6. /\ AllLinked(heapNode', heap', WithoutNode(lists, p, n + 1))
      /\ SameRecords(heapNode')
      /\ \A c \in Block : c \notin Members(lists[p]) => heapNode'[c] = heapNode[c]
  <2>1. /\ n + 1 \in 1..Len(lists[p]) /\ Pointers(p)[n] = lists[p][n + 1]
        /\ n > 0 => Pointers(p)[n - 1] = lists[p][n]
    BY <1>2, <1>4
  <2>2. /\ AllLinked(heapNode', heap', WithoutNode(lists, p, n + 1))
        /\ \A c \in Block :
             heapNode'[c].address = heapNode[c].address /\ heapNode'[c].pages = heapNode[c].pages
        /\ \A c \in Block : c \notin Members(lists[p]) => heapNode'[c] = heapNode[c]
    BY <1>1, <1>4, <1>5, <2>1, NodeRemoved
  <2> QED BY <2>2 DEF SameRecords
<1>7. PICK b, lists2, got2, nodes2 :
        b = s[n + 1] /\ lists2 = WithoutNode(lists, p, n + 1) /\ got2 = held' /\ nodes2 = heapNode'
  OBVIOUS
<1>8. Shrunk(lists, lists2, got2, p, b, h)
  <2>1. b \in Members(s)
    BY <1>4, <1>7 DEF Members
  <2>2. Members(Without(s, n + 1)) = Members(s) \ {b}
    <3>1. s \in Seq(Block) /\ \A i, j \in 1..Len(s) : s[i] = s[j] => i = j
      BY <1>3 DEF Linked
    <3> QED BY <1>4, <1>7, <3>1, MembersOf
  <2>3. alive \subseteq Process
    BY DEF AllTyped, Typed
  <2>4. lists2[p] = Without(s, n + 1) /\ \A q \in alive : q # p => lists2[q] = lists[q]
    BY <1>2, <1>7, <2>3 DEF WithoutNode
  <2>5. got2[p] = held[p] \ {h} /\ \A q \in alive : q # p => got2[q] = held[q]
    <3>1. held \in Held
      BY DEF AllTyped, Typed
    <3> QED BY <1>7, <2>3, <3>1 DEF Held
  <2>6. Members(lists2[p]) = Members(lists[p]) \ {b} /\ b \in Members(lists[p])
    BY <1>2, <2>1, <2>2, <2>4
  <2>7. heapNode[b].address = h[1]
    BY <1>2, <1>4, <1>7
  <2> QED BY <2>4, <2>5, <2>6, <2>7 DEF Shrunk
<1>9. heapMap' = heapMap \ ({b} \cup Run(h[1], h[2]))
  <2>1. heapMap' = heapMap \ PagesOf(b)
    BY <1>4, <1>5, <1>7 DEF pfreeR, deallocated
  <2>2. b \in Members(lists[p]) /\ heapNode[b].address = h[1]
    BY <1>8 DEF Shrunk
  <2>3. PagesOf(b) = {b} \cup Run(h[1], h[2])
    BY <1>1, <2>2, MemoryOfNode
  <2> QED BY <2>1, <2>3
<1>10. SameRecords(nodes2)
  BY <1>6, <1>7
<1>11. Apart(heapMap', alive, held', lists2) /\ Recorded(heapNode', alive, held', lists2)
  <2>1. Apart(heapMap \ ({b} \cup Run(h[1], h[2])), alive, got2, lists2)
    BY <1>1, <1>8, FreeApart
  <2>2. Recorded(nodes2, alive, got2, lists2)
    BY <1>1, <1>8, <1>10, FreeRecorded
  <2> QED BY <1>7, <1>9, <2>1, <2>2
<1>12. ASSUME Whole(heapMap, heapNode, alive, held, lists)
       PROVE  Whole(heapMap', heapNode', alive, held', lists2)
  <2>1. Whole(heapMap \ ({b} \cup Run(h[1], h[2])), nodes2, alive, got2, lists2)
    BY <1>1, <1>8, <1>10, <1>12, FreeWhole
  <2> QED BY <1>7, <1>9, <2>1
<1>13. \A c \in Block \ touched : heapNode'[c] = ZeroNode
  <2>1. Members(lists[p]) \subseteq heapMap
    BY <1>1 DEF Apart
  <2> QED BY <1>1, <1>6, <2>1
<1>14. HeapLayout(heapMap', heapNode', heap', alive, held', touched, lists2)
  <2>1. heapMap' \subseteq touched
    BY <1>1, <1>9
  <2>2. AllLinked(heapNode', heap', lists2)
    BY <1>6, <1>7
  <2> QED BY <1>11, <1>13, <2>1, <2>2 DEF HeapLayout, AllLinked
<1> QED BY <1>12, <1>14

\* Memory without a node can be forgotten.
LEMMA FreeForgets ==
  ASSUME AllTyped, NEW p \in alive, NEW h \in held[p], NEW lists, NEW got2,
         HeapLayout(heapMap, heapNode, heap, alive, held, touched, lists),
         \A c \in Members(lists[p]) : heapNode[c].address # h[1],
         got2 = [held EXCEPT ![p] = @ \ {h}]
  PROVE  HeapLayout(heapMap, heapNode, heap, alive, got2, touched, lists)
<1>1. \A q \in alive : \A g : g \in got2[q] <=> g \in held[q] /\ (q = p => g # h)
  <2>1. held \in Held /\ alive \subseteq Process
    BY DEF AllTyped, Typed
  <2> QED BY <2>1 DEF Held
<1>2. Apart(heapMap, alive, held, lists) /\ Recorded(heapNode, alive, held, lists)
  BY DEF HeapLayout
<1>3. Apart(heapMap, alive, got2, lists)
  <2>1. \A q \in alive : \A g \in got2[q] : Run(g[1], g[2]) \subseteq heapMap
    BY <1>1, <1>2 DEF Apart
  <2>2. \A q, r \in alive : \A g \in got2[q] : Run(g[1], g[2]) \cap Members(lists[r]) = {}
    BY <1>1, <1>2 DEF Apart
  <2>3. \A q, r \in alive : \A g \in got2[q], k \in got2[r] :
          q # r \/ g # k => Run(g[1], g[2]) \cap Run(k[1], k[2]) = {}
    BY <1>1, <1>2 DEF Apart
  <2> QED BY <1>2, <2>1, <2>2, <2>3 DEF Apart
<1>4. Recorded(heapNode, alive, got2, lists)
  <2>1. ASSUME NEW q \in alive, NEW c \in Members(lists[q])
        PROVE  heapNode[c].address = NULL \/ <<heapNode[c].address, heapNode[c].pages>> \in got2[q]
    <3> SUFFICES ASSUME heapNode[c].address # NULL
                 PROVE  <<heapNode[c].address, heapNode[c].pages>> \in got2[q]
      OBVIOUS
    <3>1. PICK g : g = <<heapNode[c].address, heapNode[c].pages>>
      OBVIOUS
    <3>2. g \in held[q] /\ g[1] = heapNode[c].address
      BY <1>2, <3>1 DEF Recorded
    <3>3. q = p => g # h
      BY <2>1, <3>2
    <3> QED BY <1>1, <3>1, <3>2, <3>3
  <2> QED BY <1>2, <2>1 DEF Recorded
<1> QED BY <1>3, <1>4 DEF HeapLayout

LEMMA FreeHeaps == ASSUME HeapsInv, NEW p \in Process, Free(p) PROVE HeapsInv'
<1>1. AllTyped
  BY TypesAre DEF HeapsInv
<1>2. HeapTypes' /\ held' \in Held
  <2>1. AllTyped'
    BY <1>1, FreeTypes
  <2> QED BY <2>1, TypesAfter
<1>3. p \in alive /\ heapKernel = "running"
  BY DEF Free
<1>4. PICK h \in held[p] :
       \/ /\ Matches(p, h[1]) # {}
          /\ pfreeR(p, First(Matches(p, h[1])))
          /\ held' = [held EXCEPT ![p] = @ \ {h}]
          /\ UNCHANGED <<alive, ghosts, heapKernel>>
       \/ /\ Matches(p, h[1]) = {} /\ Ends(p)
          /\ held' = [held EXCEPT ![p] = @ \ {h}]
          /\ UNCHANGED <<heapMap, heapNode, heap, alive, ghosts, heapKernel>>
       \/ Matches(p, h[1]) = {} /\ ~Ends(p) /\ Lose
  BY DEF Free
<1>5. CASE /\ Matches(p, h[1]) # {}
           /\ pfreeR(p, First(Matches(p, h[1])))
           /\ held' = [held EXCEPT ![p] = @ \ {h}]
           /\ UNCHANGED <<alive, ghosts, heapKernel>>
  <2>1. alive' = alive /\ touched' = touched /\ reissued' = reissued /\ refused' = refused
        /\ heapKernel' = "running"
    BY <1>3, <1>5 DEF ghosts
  <2>2. ASSUME ~reissued
        PROVE  \E lists : /\ HeapLayout(heapMap', heapNode', heap', alive', held', touched', lists)
                          /\ ~refused' => Whole(heapMap', heapNode', alive', held', lists)
    <3>1. PICK lists : /\ HeapLayout(heapMap, heapNode, heap, alive, held, touched, lists)
                       /\ ~refused => Whole(heapMap, heapNode, alive, held, lists)
      BY <2>2 DEF HeapsInv
    <3>2. PICK lists2 :
           /\ HeapLayout(heapMap', heapNode', heap', alive, held', touched, lists2)
           /\ Whole(heapMap, heapNode, alive, held, lists) =>
                Whole(heapMap', heapNode', alive, held', lists2)
      BY <1>1, <1>3, <1>4, <1>5, <3>1, FreeLayout
    <3> QED BY <2>1, <3>1, <3>2
  <2> QED BY <1>2, <2>1, <2>2, HeapsNext
<1>6. CASE /\ Matches(p, h[1]) = {} /\ Ends(p)
           /\ held' = [held EXCEPT ![p] = @ \ {h}]
           /\ UNCHANGED <<heapMap, heapNode, heap, alive, ghosts, heapKernel>>
  <2>1. /\ UNCHANGED <<heapMap, heapNode, heap, alive, touched, reissued, refused>>
        /\ heapKernel' = "running"
    BY <1>3, <1>6 DEF ghosts
  <2>2. ASSUME ~reissued
        PROVE  \E lists : /\ HeapLayout(heapMap, heapNode, heap, alive, held', touched, lists)
                          /\ refused
    <3>1. PICK lists : /\ HeapLayout(heapMap, heapNode, heap, alive, held, touched, lists)
                       /\ ~refused => Whole(heapMap, heapNode, alive, held, lists)
      BY <2>2 DEF HeapsInv
    <3>2. \A c \in Members(lists[p]) : heapNode[c].address # h[1]
      <4>1. Linked(Links(heapNode), heap[p], lists[p])
        BY <1>3, <3>1 DEF HeapLayout
      <4> QED BY <1>6, <4>1, NoMatch
    <3>3. refused
      BY <1>3, <1>4, <3>1, <3>2 DEF Whole
    <3>4. PICK got2 : got2 = held'
      OBVIOUS
    <3>5. got2 = [held EXCEPT ![p] = @ \ {h}]
      BY <1>6, <3>4
    <3>6. HeapLayout(heapMap, heapNode, heap, alive, got2, touched, lists)
      BY <1>1, <1>3, <1>4, <3>1, <3>2, <3>5, FreeForgets
    <3> QED BY <3>3, <3>4, <3>6
  <2>3. ~reissued' => \E lists :
          /\ HeapLayout(heapMap', heapNode', heap', alive', held', touched', lists)
          /\ ~refused' => Whole(heapMap', heapNode', alive', held', lists)
    BY <2>1, <2>2
  <2> QED BY <1>2, <2>1, <2>3, HeapsNext
<1>7. CASE Matches(p, h[1]) = {} /\ ~Ends(p) /\ Lose
  <2>1. reissued
    <3> SUFFICES ASSUME ~reissued PROVE FALSE
      OBVIOUS
    <3>1. PICK lists : HeapLayout(heapMap, heapNode, heap, alive, held, touched, lists)
      BY DEF HeapsInv
    <3>2. Linked(Links(heapNode), heap[p], lists[p])
      BY <1>3, <3>1 DEF HeapLayout
    <3> QED BY <1>7, <3>2, HeapWalk
  <2>2. reissued'
    BY <1>7, <2>1 DEF Lose, ghosts
  <2> QED BY <1>2, <2>2, HeapsNext
<1> QED BY <1>4, <1>5, <1>6, <1>7

\* What exit gives back of the pages of a process, and what it leaves to the others.
GivesBack(p, lists, P) ==
  /\ \A x \in P : x \in Members(lists[p]) \/ \E h \in held[p] : x \in Run(h[1], h[2])
  /\ Members(lists[p]) \subseteq P
  /\ Whole(heapMap, heapNode, alive, held, lists) => \A h \in held[p] : Run(h[1], h[2]) \subseteq P

LEMMA ExitPages ==
  ASSUME AllTyped, NEW lists, NEW p \in alive,
         HeapLayout(heapMap, heapNode, heap, alive, held, touched, lists),
         \A b \in Entries(p) : heapNode[b].address # NULL,
         NEW P, P = UNION {PagesOf(b) : b \in Entries(p)}
  PROVE  GivesBack(p, lists, P)
<1>1. Entries(p) = Members(lists[p])
  BY HeapEntries DEF HeapLayout
<1>2. Apart(heapMap, alive, held, lists) /\ Recorded(heapNode, alive, held, lists)
  BY DEF HeapLayout
<1>3. ASSUME NEW b \in Members(lists[p])
      PROVE  \E h \in held[p] : PagesOf(b) = {b} \cup Run(h[1], h[2])
  <2>1. PICK h : h = <<heapNode[b].address, heapNode[b].pages>>
    OBVIOUS
  <2>2. h \in held[p] /\ heapNode[b].address = h[1]
    BY <1>1, <1>2, <2>1 DEF Recorded
  <2>3. PagesOf(b) = {b} \cup Run(h[1], h[2])
    BY <1>2, <2>2, MemoryOfNode
  <2> QED BY <2>2, <2>3
<1>4. ASSUME NEW x \in P
      PROVE  x \in Members(lists[p]) \/ \E h \in held[p] : x \in Run(h[1], h[2])
  <2>1. PICK b \in Members(lists[p]) : x \in PagesOf(b)
    BY <1>1
  <2>2. PICK h \in held[p] : PagesOf(b) = {b} \cup Run(h[1], h[2])
    BY <1>3
  <2> QED BY <2>1, <2>2
<1>5. \A b \in Members(lists[p]) : PagesOf(b) \subseteq P
  BY <1>1
<1>6. Members(lists[p]) \subseteq P
  <2>1. \A b : b \in PagesOf(b)
    BY DEF PagesOf
  <2> QED BY <1>5, <2>1
<1>7. ASSUME Whole(heapMap, heapNode, alive, held, lists), NEW h \in held[p]
      PROVE  Run(h[1], h[2]) \subseteq P
  <2>1. PICK b \in Members(lists[p]) : heapNode[b].address = h[1]
    BY <1>7 DEF Whole
  <2>2. PagesOf(b) = {b} \cup Run(h[1], h[2])
    BY <1>2, <2>1, MemoryOfNode
  <2> QED BY <1>5, <2>2
<1> QED BY <1>4, <1>6, <1>7 DEF GivesBack

LEMMA ExitLayout ==
  ASSUME AllTyped, NEW lists, NEW p \in alive,
         HeapLayout(heapMap, heapNode, heap, alive, held, touched, lists),
         \A b \in Entries(p) : heapNode[b].address # NULL,
         NEW P, P = UNION {PagesOf(b) : b \in Entries(p)},
         NEW living, living = alive \ {p},
         NEW got2, \A q \in living : got2[q] = held[q], NEW first2, \A q \in living : first2[q] = heap[q]
  PROVE  /\ HeapLayout(heapMap \ P, heapNode, first2, living, got2, touched, lists)
         /\ Whole(heapMap, heapNode, alive, held, lists) =>
              Whole(heapMap \ P, heapNode, living, got2, lists)
<1>1. /\ heapMap \subseteq touched /\ \A b \in Block \ touched : heapNode[b] = ZeroNode
      /\ \A q \in alive : Linked(Links(heapNode), heap[q], lists[q])
      /\ Apart(heapMap, alive, held, lists) /\ Recorded(heapNode, alive, held, lists)
  BY DEF HeapLayout
<1>2. /\ \A x \in P : x \in Members(lists[p]) \/ \E h \in held[p] : x \in Run(h[1], h[2])
      /\ Members(lists[p]) \subseteq P
      /\ Whole(heapMap, heapNode, alive, held, lists) => \A h \in held[p] : Run(h[1], h[2]) \subseteq P
  <2>1. GivesBack(p, lists, P)
    BY ExitPages
  <2> QED BY <2>1 DEF GivesBack
<1>3. ASSUME NEW q \in living
      PROVE  /\ q \in alive /\ q # p /\ got2[q] = held[q] /\ first2[q] = heap[q]
             /\ Members(lists[q]) \subseteq heapMap \ P
             /\ \A g \in held[q] : Run(g[1], g[2]) \subseteq heapMap \ P
  <2>1. q \in alive /\ q # p
    BY <1>3
  <2>2. ASSUME NEW x \in Members(lists[q]) PROVE x \in heapMap \ P
    <3>1. x \in heapMap /\ x \notin Members(lists[p])
      BY <1>1, <2>1 DEF Apart
    <3>2. \A h \in held[p] : x \notin Run(h[1], h[2])
      BY <1>1, <2>1, <2>2 DEF Apart
    <3> QED BY <1>2, <3>1, <3>2
  <2>3. ASSUME NEW g \in held[q], NEW x \in Run(g[1], g[2]) PROVE x \in heapMap \ P
    <3>1. x \in heapMap /\ x \notin Members(lists[p])
      BY <1>1, <2>1, <2>3 DEF Apart
    <3>2. \A h \in held[p] : x \notin Run(h[1], h[2])
      BY <1>1, <2>1, <2>3 DEF Apart
    <3> QED BY <1>2, <3>1, <3>2
  <2> QED BY <1>3, <2>1, <2>2, <2>3
<1>4. Apart(heapMap \ P, living, got2, lists)
  <2>1. \A q \in living : Members(lists[q]) \subseteq heapMap \ P
    BY <1>3
  <2>2. \A q, r \in living : q # r => Members(lists[q]) \cap Members(lists[r]) = {}
    BY <1>1, <1>3 DEF Apart
  <2>3. \A q \in living : \A g \in got2[q] : Run(g[1], g[2]) \subseteq heapMap \ P
    BY <1>3
  <2>4. \A q, r \in living : \A g \in got2[q] : Run(g[1], g[2]) \cap Members(lists[r]) = {}
    BY <1>1, <1>3 DEF Apart
  <2>5. ASSUME NEW q \in living, NEW r \in living, NEW g \in got2[q], NEW k \in got2[r], q # r \/ g # k
        PROVE  Run(g[1], g[2]) \cap Run(k[1], k[2]) = {}
    <3>1. q \in alive /\ r \in alive /\ g \in held[q] /\ k \in held[r]
      BY <1>3, <2>5
    <3> QED BY <1>1, <2>5, <3>1 DEF Apart
  <2> QED BY <2>1, <2>2, <2>3, <2>4, <2>5 DEF Apart
<1>5. Recorded(heapNode, living, got2, lists)
  BY <1>1, <1>3 DEF Recorded
<1>6. HeapLayout(heapMap \ P, heapNode, first2, living, got2, touched, lists)
  <2>1. \A q \in living : Linked(Links(heapNode), first2[q], lists[q])
    BY <1>1, <1>3
  <2> QED BY <1>1, <1>4, <1>5, <2>1 DEF HeapLayout
<1>7. ASSUME Whole(heapMap, heapNode, alive, held, lists)
      PROVE  Whole(heapMap \ P, heapNode, living, got2, lists)
  <2>1. /\ \A q \in living : \A b \in Members(lists[q]) : heapNode[b].address # NULL
        /\ \A q \in living : \A h \in got2[q] : \E b \in Members(lists[q]) : heapNode[b].address = h[1]
    BY <1>3, <1>7 DEF Whole
  <2>2. ASSUME NEW x \in heapMap \ P
        PROVE  \E q \in living : x \in Members(lists[q]) \/ \E h \in got2[q] : x \in Run(h[1], h[2])
    <3>1. PICK q \in alive : x \in Members(lists[q]) \/ \E h \in held[q] : x \in Run(h[1], h[2])
      BY <1>7, <2>2 DEF Whole
    <3>2. q # p
      BY <1>2, <1>7, <2>2, <3>1
    <3>3. q \in living
      BY <3>2
    <3> QED BY <1>3, <3>1, <3>3
  <2> QED BY <2>1, <2>2 DEF Whole
<1> QED BY <1>6, <1>7

LEMMA ExitHeaps == ASSUME HeapsInv, NEW p \in Process, Exit(p) PROVE HeapsInv'
<1>1. AllTyped
  BY TypesAre DEF HeapsInv
<1>2. HeapTypes' /\ held' \in Held
  <2>1. AllTyped'
    BY <1>1, ExitTypes
  <2> QED BY <2>1, TypesAfter
<1>3. p \in alive /\ heapKernel = "running"
  BY DEF Exit
<1>4. CASE ~Ends(p) /\ Lose
  <2>1. reissued
    <3> SUFFICES ASSUME ~reissued PROVE FALSE
      OBVIOUS
    <3>1. PICK lists : HeapLayout(heapMap, heapNode, heap, alive, held, touched, lists)
      BY DEF HeapsInv
    <3>2. Linked(Links(heapNode), heap[p], lists[p])
      BY <1>3, <3>1 DEF HeapLayout
    <3> QED BY <1>4, <3>2, HeapWalk
  <2>2. reissued'
    BY <1>4, <2>1 DEF Lose, ghosts
  <2> QED BY <1>2, <2>2, HeapsNext
<1>5. CASE (\E b \in Entries(p) : heapNode[b].address = NULL) /\ Fault
  <2>1. /\ UNCHANGED <<heapMap, heapNode, heap, alive, held, touched, reissued, refused>>
        /\ heapKernel' = "fault"
    BY <1>5 DEF Fault, ghosts
  <2>2. ASSUME ~reissued
        PROVE  \E lists : HeapLayout(heapMap, heapNode, heap, alive, held, touched, lists) /\ refused
    <3>1. PICK lists : /\ HeapLayout(heapMap, heapNode, heap, alive, held, touched, lists)
                       /\ ~refused => Whole(heapMap, heapNode, alive, held, lists)
      BY <2>2 DEF HeapsInv
    <3>2. Entries(p) = Members(lists[p])
      BY <1>3, <3>1, HeapEntries DEF HeapLayout
    <3>3. refused
      BY <1>3, <1>5, <3>1, <3>2 DEF Whole
    <3> QED BY <3>1, <3>3
  <2>3. ~reissued' => \E lists :
          /\ HeapLayout(heapMap', heapNode', heap', alive', held', touched', lists)
          /\ ~refused' => Whole(heapMap', heapNode', alive', held', lists)
    BY <2>1, <2>2
  <2>4. ~reissued' => refused'
    BY <2>1, <2>2
  <2> QED BY <1>2, <2>1, <2>3, <2>4, HeapsNext
<1>6. CASE /\ ~\E b \in Entries(p) : heapNode[b].address = NULL
           /\ freeHeap(p)
           /\ alive' = alive \ {p}
           /\ heap' = [heap EXCEPT ![p] = NULL]
           /\ held' = [held EXCEPT ![p] = {}]
  <2>1. PICK P, living, got2, first2 :
          P = UNION {PagesOf(b) : b \in Entries(p)} /\ living = alive' /\ got2 = held' /\ first2 = heap'
    OBVIOUS
  <2>2. /\ heapMap' = heapMap \ P
        /\ UNCHANGED <<heapNode, touched, reissued, refused>> /\ heapKernel' = "running"
    BY <1>3, <1>6, <2>1 DEF freeHeap, deallocated, ghosts
  <2>3. living = alive \ {p} /\ \A q \in living : got2[q] = held[q] /\ first2[q] = heap[q]
    <3>1. alive \subseteq Process /\ held \in Held /\ heap \in [Process -> Pointer]
      BY <1>1 DEF AllTyped, Typed
    <3> QED BY <1>6, <2>1, <3>1 DEF Held
  <2>4. ASSUME ~reissued
        PROVE  \E lists : /\ HeapLayout(heapMap', heapNode, heap', alive', held', touched, lists)
                          /\ ~refused => Whole(heapMap', heapNode, alive', held', lists)
    <3>1. PICK lists : /\ HeapLayout(heapMap, heapNode, heap, alive, held, touched, lists)
                       /\ ~refused => Whole(heapMap, heapNode, alive, held, lists)
      BY <2>4 DEF HeapsInv
    <3>2. \A b \in Entries(p) : heapNode[b].address # NULL
      BY <1>6
    <3>3. /\ HeapLayout(heapMap \ P, heapNode, first2, living, got2, touched, lists)
          /\ Whole(heapMap, heapNode, alive, held, lists) =>
               Whole(heapMap \ P, heapNode, living, got2, lists)
      BY <1>1, <1>3, <2>1, <2>3, <3>1, <3>2, ExitLayout
    <3> QED BY <2>1, <2>2, <3>1, <3>3
  <2>5. ~reissued' => \E lists :
          /\ HeapLayout(heapMap', heapNode', heap', alive', held', touched', lists)
          /\ ~refused' => Whole(heapMap', heapNode', alive', held', lists)
    BY <2>2, <2>4
  <2> QED BY <1>2, <2>2, <2>5, HeapsNext
<1> QED BY <1>4, <1>5, <1>6 DEF Exit

LEMMA HeapsInvariant == HeapSpec => []HeapsInv
<1>1. HeapInit => HeapsInv
  BY HeapsBegin
<1>2. HeapsInv /\ [HeapNext]_heapVars => HeapsInv'
  <2> SUFFICES ASSUME HeapsInv, [HeapNext]_heapVars PROVE HeapsInv'
    OBVIOUS
  <2>1. CASE UNCHANGED heapVars
    <3>1. /\ heapMap' = heapMap /\ heapNode' = heapNode /\ heap' = heap /\ alive' = alive /\ held' = held
          /\ touched' = touched /\ reissued' = reissued /\ refused' = refused
          /\ mallocs' = mallocs /\ heapKernel' = heapKernel
      BY <2>1 DEF heapVars, ghosts
    <3>2. AllTyped'
      <4>1. AllTyped
        BY TypesAre DEF HeapsInv
      <4> QED BY <3>1, <4>1 DEF AllTyped
    <3> QED BY <3>1, <3>2, TypesAfter, HeapsNext DEF HeapsInv
  <2>2. ASSUME NEW p \in Process, Malloc(p) \/ Write(p) \/ Free(p) \/ Exit(p) PROVE HeapsInv'
    BY <2>2, MallocHeaps, WriteHeaps, FreeHeaps, ExitHeaps
  <2> QED BY <2>1, <2>2 DEF HeapNext
<1> QED BY <1>1, <1>2, PTL DEF HeapSpec

\* The invariant says of the lists what the code is to keep.
LEMMA HeapsAreSound == ASSUME HeapsInv PROVE FreshHeapsAreSound
<1>1. AllTyped /\ HeapTypes
  BY TypesAre DEF HeapsInv
<1>2. ASSUME ~reissued
      PROVE  \E lists :
               /\ Apart(heapMap, alive, held, lists) /\ Recorded(heapNode, alive, held, lists)
               /\ \A p \in alive : Ends(p) /\ Entries(p) = Members(lists[p])
               /\ ~refused => Whole(heapMap, heapNode, alive, held, lists)
  <2>1. PICK lists : /\ HeapLayout(heapMap, heapNode, heap, alive, held, touched, lists)
                     /\ ~refused => Whole(heapMap, heapNode, alive, held, lists)
    BY <1>2 DEF HeapsInv
  <2>2. \A p \in alive : Linked(Links(heapNode), heap[p], lists[p])
    BY <2>1 DEF HeapLayout
  <2>3. \A p \in alive : Ends(p) /\ Entries(p) = Members(lists[p])
    BY <2>2, HeapWalk, HeapEntries
  <2> QED BY <2>1, <2>3 DEF HeapLayout
<1>3. FreshListsEnd
  BY <1>2 DEF FreshListsEnd, HeapListsEnd, HeapsInv
<1>4. HeapsDisjoint
  <2> SUFFICES ASSUME ~reissued PROVE HeapsDisjoint
    BY DEF HeapsDisjoint
  <2>1. PICK lists :
          /\ Apart(heapMap, alive, held, lists)
          /\ \A p \in alive : Ends(p) /\ Entries(p) = Members(lists[p])
    BY <1>2
  <2> DEFINE Headers == UNION {Entries(p) : p \in alive}
             Requests == UNION {{<<p, h>> : h \in held[p]} : p \in alive}
             Mem(r) == Run(r[2][1], r[2][2])
  <2>2. ASSUME NEW r \in Requests
        PROVE  r[1] \in alive /\ r[2] \in held[r[1]] /\ r = <<r[1], r[2]>>
    OBVIOUS
  <2>3. ASSUME NEW r \in Requests PROVE Mem(r) \subseteq heapMap /\ Mem(r) \cap Headers = {}
    <3>1. PICK p, h : p = r[1] /\ h = r[2] /\ p \in alive /\ h \in held[p]
      BY <2>2
    <3>2. Run(h[1], h[2]) \subseteq heapMap /\ \A q \in alive : Run(h[1], h[2]) \cap Entries(q) = {}
      BY <2>1, <3>1 DEF Apart
    <3>3. Run(h[1], h[2]) \cap Headers = {}
      BY <3>2
    <3> QED BY <3>1, <3>2, <3>3
  <2>4. ASSUME NEW r \in Requests, NEW t \in Requests, r # t PROVE Mem(r) \cap Mem(t) = {}
    <3>1. PICK p, h : p = r[1] /\ h = r[2] /\ p \in alive /\ h \in held[p] /\ r = <<p, h>>
      BY <2>2
    <3>2. PICK q, g : q = t[1] /\ g = t[2] /\ q \in alive /\ g \in held[q] /\ t = <<q, g>>
      BY <2>2
    <3>3. p # q \/ h # g
      BY <2>4, <3>1, <3>2
    <3>4. Run(h[1], h[2]) \cap Run(g[1], g[2]) = {}
      BY <2>1, <3>1, <3>2, <3>3 DEF Apart
    <3> QED BY <3>1, <3>2, <3>4
  <2>5. \A p, q \in alive : p # q => Entries(p) \cap Entries(q) = {}
    BY <2>1 DEF Apart
  <2> QED BY <2>3, <2>4, <2>5 DEF HeapsDisjoint
<1>5. NoPageLeaks
  <2> SUFFICES ASSUME ~reissued, ~refused
               PROVE  heapMap = UNION {UNION {PagesOf(b) : b \in Entries(p)} : p \in alive}
    BY DEF NoPageLeaks
  <2>1. PICK lists :
          /\ Apart(heapMap, alive, held, lists) /\ Recorded(heapNode, alive, held, lists)
          /\ \A p \in alive : Ends(p) /\ Entries(p) = Members(lists[p])
          /\ Whole(heapMap, heapNode, alive, held, lists)
    BY <1>2
  <2>2. ASSUME NEW x \in heapMap PROVE \E p \in alive : \E b \in Entries(p) : x \in PagesOf(b)
    <3>1. PICK p \in alive : x \in Members(lists[p]) \/ \E h \in held[p] : x \in Run(h[1], h[2])
      BY <2>1 DEF Whole
    <3>2. CASE x \in Members(lists[p])
      <4>1. x \in Entries(p) /\ x \in PagesOf(x)
        BY <2>1, <3>2 DEF PagesOf
      <4> QED BY <4>1
    <3>3. CASE \E h \in held[p] : x \in Run(h[1], h[2])
      <4>1. PICK h \in held[p] : x \in Run(h[1], h[2])
        BY <3>3
      <4>2. PICK b \in Members(lists[p]) : heapNode[b].address = h[1]
        BY <2>1 DEF Whole
      <4>3. PagesOf(b) = {b} \cup Run(h[1], h[2])
        BY <1>1, <2>1, <4>2, MemoryOfNode
      <4> QED BY <2>1, <4>1, <4>2, <4>3
    <3> QED BY <3>1, <3>2, <3>3
  <2>3. ASSUME NEW p \in alive, NEW b \in Entries(p), NEW x \in PagesOf(b) PROVE x \in heapMap
    <3>1. b \in Members(lists[p]) /\ heapNode[b].address # NULL
      BY <2>1 DEF Whole
    <3>2. PICK h : h = <<heapNode[b].address, heapNode[b].pages>>
      OBVIOUS
    <3>3. h \in held[p] /\ heapNode[b].address = h[1]
      BY <2>1, <3>1, <3>2 DEF Recorded
    <3>4. PagesOf(b) = {b} \cup Run(h[1], h[2])
      BY <1>1, <2>1, <3>1, <3>3, MemoryOfNode
    <3>5. b \in heapMap /\ Run(h[1], h[2]) \subseteq heapMap
      BY <2>1, <3>1, <3>3 DEF Apart
    <3> QED BY <2>3, <3>4, <3>5
  <2> QED BY <2>2, <2>3
<1> QED BY <1>1, <1>3, <1>4, <1>5 DEF FreshHeapsAreSound

\* As long as no page is handed out twice, the heaps of any number of processes stay
\* sound, whatever they ask for: every list ends, requests and nodes are apart, and while
\* no malloc was refused the reserved pages are those of the lists (process.c:63-109).
THEOREM HeapsStaySound == HeapSpec => []FreshHeapsAreSound
<1>1. HeapsInv => FreshHeapsAreSound
  BY HeapsAreSound
<1> QED BY <1>1, HeapsInvariant, PTL
=============================================================================
