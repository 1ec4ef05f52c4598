-------------------------- MODULE CellPipeline_proofs --------------------------
(****************************************************************************)
(* Proofs about CellPipeline, for every list of rows, every number of       *)
(* threads, every bound of the queues and any number of faults: that rows   *)
(* are complete; that the run which only publishes is judged when nothing   *)
(* of it is left in the chain, and names only what a fault lost; that the   *)
(* run which assembles rows finds every cache hit in the cache and loads by *)
(* itself only what was lost; and, at the end, that every state is well     *)
(* typed and every queue, pool and hand keeps its bound.                    *)
(****************************************************************************)
EXTENDS CellPipeline, FiniteSetTheorems, FunctionTheorems, TLAPS

(****************************************************************************)
(* Queues                                                                   *)
(****************************************************************************)
LEMMA Appended ==
    ASSUME NEW S, NEW s \in Seq(S), NEW e \in S
    PROVE  /\ Append(s, e) \in Seq(S) /\ Append(s, e) # <<>>
           /\ Len(s) \in Nat /\ Len(Append(s, e)) = Len(s) + 1
           /\ \A i \in 1 .. Len(s) : Append(s, e)[i] = s[i]
           /\ Append(s, e)[Len(s) + 1] = e
           /\ ToSet(Append(s, e)) = ToSet(s) \cup {e}
<1>1. /\ Append(s, e) \in Seq(S) /\ Append(s, e) # <<>>
      /\ Len(s) \in Nat /\ Len(Append(s, e)) = Len(s) + 1
      /\ \A i \in 1 .. Len(s) : Append(s, e)[i] = s[i]
      /\ Append(s, e)[Len(s) + 1] = e
    OBVIOUS
<1>2. DOMAIN s = 1 .. Len(s) /\ DOMAIN Append(s, e) = 1 .. Len(s) + 1
    OBVIOUS
<1>3. ToSet(Append(s, e)) = ToSet(s) \cup {e}
    BY <1>1, <1>2 DEF ToSet
<1> QED
    BY <1>1, <1>3

LEMMA Taken ==
    ASSUME NEW S, NEW s \in Seq(S), s # <<>>
    PROVE  /\ Tail(s) \in Seq(S) /\ Head(s) \in S /\ Head(s) = s[1]
           /\ Len(s) \in Nat \ {0} /\ Len(Tail(s)) = Len(s) - 1
           /\ \A i \in 1 .. Len(s) - 1 : Tail(s)[i] = s[i + 1]
           /\ ToSet(s) = {Head(s)} \cup ToSet(Tail(s))
<1>1. /\ Tail(s) \in Seq(S) /\ Head(s) \in S /\ Head(s) = s[1]
      /\ Len(s) \in Nat \ {0} /\ Len(Tail(s)) = Len(s) - 1
      /\ \A i \in 1 .. Len(s) - 1 : Tail(s)[i] = s[i + 1]
    OBVIOUS
<1>2. DOMAIN s = 1 .. Len(s) /\ DOMAIN Tail(s) = 1 .. Len(s) - 1
    BY <1>1
<1>3. \A i \in 1 .. Len(s) : i = 1 \/ (i - 1 \in 1 .. Len(s) - 1 /\ s[i] = Tail(s)[i - 1])
    BY <1>1
<1>4. \A i \in 1 .. Len(s) - 1 : i + 1 \in 1 .. Len(s) /\ s[i + 1] = Tail(s)[i]
    BY <1>1
<1>5. ToSet(s) \subseteq {Head(s)} \cup ToSet(Tail(s))
  <2> SUFFICES ASSUME NEW i \in 1 .. Len(s) PROVE s[i] \in {Head(s)} \cup ToSet(Tail(s))
      BY <1>2 DEF ToSet
  <2> QED
      BY <1>1, <1>2, <1>3 DEF ToSet
<1>6. {Head(s)} \cup ToSet(Tail(s)) \subseteq ToSet(s)
    BY <1>1, <1>2, <1>4 DEF ToSet
<1> QED
    BY <1>1, <1>5, <1>6

LEMMA EmptyQueue ==
    /\ \A S : <<>> \in Seq(S)
    /\ Len(<<>>) = 0 /\ ToSet(<<>>) = {}
<1>1. /\ \A S : <<>> \in Seq(S)
      /\ Len(<<>>) = 0
    OBVIOUS
<1>2. DOMAIN <<>> = {}
    OBVIOUS
<1> QED
    BY <1>1, <1>2 DEF ToSet

(****************************************************************************)
(* Induction, and what it says of the list of tasks                         *)
(****************************************************************************)
\* Any set of numbers has a least one: of the intervals up to them one is contained
\* in no other, for finite sets are well-founded under inclusion.
LEMMA LeastNumber ==
    ASSUME NEW T \in SUBSET Nat, T # {}
    PROVE  \E m \in T : \A n \in T : m <= n
<1> DEFINE Intervals == {1 .. n : n \in T}
<1>1. Intervals \subseteq FiniteSubsetsOf(Nat) /\ Intervals # {}
  <2>1. \A n \in T : IsFiniteSet(1 .. n) /\ 1 .. n \in SUBSET Nat
      BY FS_Interval
  <2> QED
      BY <2>1 DEF FiniteSubsetsOf
<1>2. IsWellFoundedOn(StrictSubsetOrdering(Nat), FiniteSubsetsOf(Nat))
    BY FS_StrictSubsetOrderingWellFounded
<1>3. PICK I \in Intervals : \A J \in Intervals : <<J, I>> \notin StrictSubsetOrdering(Nat)
  <2> HIDE DEF Intervals
  <2> QED
    BY <1>1, <1>2, WFMin
<1>4. PICK m \in T : I = 1 .. m
    OBVIOUS
<1>5. ASSUME NEW n \in T, n < m PROVE FALSE
  <2>1. 1 .. n \in Intervals /\ 1 .. n \subseteq Nat /\ I \subseteq Nat
      BY <1>4
  <2>2. 1 .. n \subseteq I /\ m \in I /\ m \notin 1 .. n
      BY <1>4, <1>5
  <2>3. <<1 .. n, I>> \in StrictSubsetOrdering(Nat)
      BY <2>1, <2>2 DEF StrictSubsetOrdering
  <2> QED
      BY <1>3, <2>1, <2>3
<1> QED
    BY <1>5

\* Induction over the naturals, for a set of numbers instead of a predicate.
LEMMA Induction ==
    ASSUME NEW P, 0 \in P, \A n \in Nat : n \in P => n + 1 \in P
    PROVE  Nat \subseteq P
<1> SUFFICES ASSUME Nat \ P # {} PROVE FALSE
    OBVIOUS
<1>1. PICK m \in Nat \ P : \A n \in Nat \ P : m <= n
    BY LeastNumber
<1>2. m # 0 /\ m - 1 \in Nat /\ m - 1 \notin P
    BY <1>1
<1> QED
    BY <1>1, <1>2

\* What a concatenation holds is what its two parts hold.
LEMMA Concatenated ==
    ASSUME NEW S, NEW s \in Seq(S), NEW t \in Seq(S)
    PROVE  s \o t \in Seq(S) /\ ToSet(s \o t) = ToSet(s) \cup ToSet(t)
<1>1. /\ s \o t \in Seq(S) /\ Len(s) \in Nat /\ Len(t) \in Nat /\ Len(s \o t) = Len(s) + Len(t)
      /\ \A i \in 1 .. Len(s) : (s \o t)[i] = s[i]
      /\ \A i \in 1 .. Len(t) : (s \o t)[Len(s) + i] = t[i]
    OBVIOUS
<1>2. DOMAIN s = 1 .. Len(s) /\ DOMAIN t = 1 .. Len(t) /\ DOMAIN (s \o t) = 1 .. Len(s) + Len(t)
    BY <1>1
<1>3. \A i \in 1 .. Len(s) + Len(t) : i \in 1 .. Len(s) \/ (i - Len(s) \in 1 .. Len(t) /\ (s \o t)[i] = t[i - Len(s)])
    BY <1>1
<1>4. ASSUME NEW i \in 1 .. Len(s) + Len(t) PROVE (s \o t)[i] \in ToSet(s) \cup ToSet(t)
    BY <1>1, <1>2, <1>3 DEF ToSet
<1>5. ASSUME NEW i \in 1 .. Len(s) PROVE s[i] \in ToSet(s \o t)
    BY <1>1, <1>2 DEF ToSet
<1>6. ASSUME NEW i \in 1 .. Len(t) PROVE t[i] \in ToSet(s \o t)
  <2>1. Len(s) + i \in 1 .. Len(s) + Len(t) /\ (s \o t)[Len(s) + i] = t[i]
      BY <1>1
  <2> QED
      BY <1>2, <2>1 DEF ToSet
<1>7. ToSet(s \o t) \subseteq ToSet(s) \cup ToSet(t)
    BY <1>2, <1>4 DEF ToSet
<1>8. ToSet(s) \cup ToSet(t) \subseteq ToSet(s \o t)
  <2>1. ToSet(s) = {s[i] : i \in 1 .. Len(s)} /\ ToSet(t) = {t[i] : i \in 1 .. Len(t)}
      BY <1>2 DEF ToSet
  <2> QED
      BY <1>5, <1>6, <2>1
<1> QED
    BY <1>1, <1>7, <1>8

\* SetToSeq lists the elements of a finite set, each of them once.
LEMMA ListedInjectively ==
    ASSUME NEW S, IsFiniteSet(S)
    PROVE  /\ Cardinality(S) \in Nat
           /\ SetToSeq(S) \in [1 .. Cardinality(S) -> S] /\ IsInjective(SetToSeq(S))
<1>1. Cardinality(S) \in Nat /\ ExistsBijection(1 .. Cardinality(S), S)
    BY FS_CardinalityType
<1>2. PICK f \in Bijection(1 .. Cardinality(S), S) : TRUE
    BY <1>1 DEF ExistsBijection
<1>3. f \in [1 .. Cardinality(S) -> S] /\ IsInjective(f)
    BY <1>2 DEF Bijection, Injection, IsInjective
<1> QED
    BY <1>1, <1>3 DEF SetToSeq

LEMMA Listed ==
    ASSUME NEW S, IsFiniteSet(S)
    PROVE  SetToSeq(S) \in Seq(S) /\ ToSet(SetToSeq(S)) = S
<1> DEFINE N == 1 .. Cardinality(S)
           s == SetToSeq(S)
<1>1. Cardinality(S) \in Nat /\ s \in [N -> S] /\ IsInjective(s)
    BY ListedInjectively
<1>2. IsFiniteSet(N) /\ Cardinality(N) = Cardinality(S)
    BY <1>1, FS_Interval
<1> HIDE DEF N, s
<1>3. s \in Injection(N, S)
    BY <1>1 DEF Injection, IsInjective
<1>4. s \in Surjection(N, S)
    BY <1>2, <1>3, FS_Injection
<1>5. \A x \in S : \E i \in N : s[i] = x
    BY <1>4, Fun_SurjectionProperties
<1>6. DOMAIN s = N
    BY <1>1
<1>7. ToSet(s) = S
    BY <1>1, <1>5, <1>6 DEF ToSet
<1>8. s \in Seq(S)
    BY <1>1 DEF N
<1> QED
    BY <1>7, <1>8 DEF s

\* The function by which FlattenSeq is defined.
Flattens(f, seqs, n) == f = [i \in 1 .. n |-> IF i = 1 THEN seqs[i] ELSE f[i - 1] \o seqs[i]]

LEMMA FlattensExists ==
    ASSUME NEW seqs
    PROVE  \A n \in Nat : \E f : Flattens(f, seqs, n)
<1> DEFINE P == {n \in Nat : \E f : Flattens(f, seqs, n)}
<1>1. 0 \in P
  <2>1. Flattens([i \in 1 .. 0 |-> 0], seqs, 0)
      BY DEF Flattens
  <2> QED
      BY <2>1
<1>2. ASSUME NEW n \in Nat, n \in P PROVE n + 1 \in P
  <2>1. PICK f : Flattens(f, seqs, n)
      BY <1>2
  <2> DEFINE g == [i \in 1 .. n + 1 |->
                      IF i <= n THEN f[i] ELSE IF i = 1 THEN seqs[i] ELSE f[i - 1] \o seqs[i]]
  <2>2. \A i \in 1 .. n : f[i] = IF i = 1 THEN seqs[i] ELSE f[i - 1] \o seqs[i]
      BY <2>1 DEF Flattens
  <2>3. \A i \in 1 .. n : g[i] = f[i]
      OBVIOUS
  <2>4. g[n + 1] = IF n + 1 = 1 THEN seqs[n + 1] ELSE f[(n + 1) - 1] \o seqs[n + 1]
      OBVIOUS
  <2>5. g = [i \in 1 .. n + 1 |-> g[i]]
      OBVIOUS
  <2> HIDE DEF g
  <2>6. ASSUME NEW i \in 1 .. n + 1 PROVE g[i] = IF i = 1 THEN seqs[i] ELSE g[i - 1] \o seqs[i]
    <3>1. CASE i \in 1 .. n
      <4>1. i # 1 => i - 1 \in 1 .. n
          BY <3>1
      <4> QED
          BY <2>2, <2>3, <3>1, <4>1
    <3>2. CASE i = n + 1
      <4>1. n + 1 # 1 => (n + 1) - 1 \in 1 .. n
          OBVIOUS
      <4>2. n + 1 # 1 => g[(n + 1) - 1] = f[(n + 1) - 1]
          BY <2>3, <4>1
      <4> QED
          BY <2>4, <3>2, <4>2
    <3> QED
        BY <3>1, <3>2
  <2>7. Flattens(g, seqs, n + 1)
      BY <2>5, <2>6 DEF Flattens
  <2> QED
      BY <2>7
<1> HIDE DEF P
<1>3. Nat \subseteq P
    BY <1>1, <1>2, Induction
<1> QED
    BY <1>3 DEF P

\* What f collects after n sequences: their elements, and nothing else.
Collects(f, seqs, S) ==
    \A n \in 1 .. Len(seqs) :
        f[n] \in Seq(S) /\ ToSet(f[n]) = UNION {ToSet(seqs[i]) : i \in 1 .. n}

LEMMA FlattenedSoFar ==
    ASSUME NEW S, NEW seqs \in Seq(Seq(S)), NEW f, Flattens(f, seqs, Len(seqs))
    PROVE  Collects(f, seqs, S)
<1> DEFINE Good(n) == f[n] \in Seq(S) /\ ToSet(f[n]) = UNION {ToSet(seqs[i]) : i \in 1 .. n}
           P == {n \in Nat : n \in 1 .. Len(seqs) => Good(n)}
<1>0. /\ \A i \in 1 .. Len(seqs) : seqs[i] \in Seq(S)
      /\ \A i \in 1 .. Len(seqs) : f[i] = IF i = 1 THEN seqs[i] ELSE f[i - 1] \o seqs[i]
      /\ Len(seqs) \in Nat
  <2>1. Len(seqs) \in Nat /\ \A i \in 1 .. Len(seqs) : seqs[i] \in Seq(S)
      OBVIOUS
  <2>2. f = [i \in 1 .. Len(seqs) |-> IF i = 1 THEN seqs[i] ELSE f[i - 1] \o seqs[i]]
      BY DEF Flattens
  <2> QED
      BY <2>1, <2>2
<1>1. 0 \in P
    OBVIOUS
<1>2. ASSUME NEW n \in Nat, n \in P, n + 1 \in 1 .. Len(seqs) PROVE Good(n + 1)
  <2>1. CASE n = 0
    <3>1. f[1] = seqs[1] /\ seqs[1] \in Seq(S)
        BY <1>0, <1>2, <2>1
    <3>2. 1 .. 1 = {1} /\ n + 1 = 1
        BY <2>1
    <3> QED
        BY <3>1, <3>2
  <2>2. CASE n # 0
    <3>1. n \in 1 .. Len(seqs) /\ Good(n) /\ seqs[n + 1] \in Seq(S) /\ f[n + 1] = f[n] \o seqs[n + 1]
      <4>1. n \in 1 .. Len(seqs) /\ n + 1 # 1 /\ (n + 1) - 1 = n
          BY <1>0, <1>2, <2>2
      <4> HIDE DEF Good
      <4> QED
          BY <1>0, <1>2, <4>1
    <3>2. f[n + 1] \in Seq(S) /\ ToSet(f[n + 1]) = ToSet(f[n]) \cup ToSet(seqs[n + 1])
        BY <3>1, Concatenated
    <3>3. 1 .. n + 1 = (1 .. n) \cup {n + 1}
        OBVIOUS
    <3> QED
        BY <3>1, <3>2, <3>3
  <2> QED
      BY <2>1, <2>2
<1>3. \A n \in Nat : n \in P => n + 1 \in P
  <2> HIDE DEF Good
  <2> QED
      BY <1>2
<1> HIDE DEF P
<1>4. Nat \subseteq P
    BY <1>1, <1>3, Induction
<1>5. \A n \in 1 .. Len(seqs) : Good(n)
  <2> HIDE DEF Good
  <2> QED
      BY <1>0, <1>4 DEF P
<1> QED
    BY <1>5 DEF Collects

\* What FlattenSeq takes its value from.
LEMMA FlattenedBy ==
    ASSUME NEW S, NEW seqs \in Seq(Seq(S)), Len(seqs) # 0
    PROVE  \E f : Flattens(f, seqs, Len(seqs)) /\ FlattenSeq(seqs) = f[Len(seqs)]
<1> DEFINE f == CHOOSE f : f = [i \in 1 .. Len(seqs) |-> IF i = 1 THEN seqs[i] ELSE f[i - 1] \o seqs[i]]
<1>1. FlattenSeq(seqs) = f[Len(seqs)]
    BY DEF FlattenSeq
<1>2. \E g : g = [i \in 1 .. Len(seqs) |-> IF i = 1 THEN seqs[i] ELSE g[i - 1] \o seqs[i]]
  <2>1. Len(seqs) \in Nat
      OBVIOUS
  <2> QED
      BY <2>1, FlattensExists, Zenon DEF Flattens
<1>3. Flattens(f, seqs, Len(seqs))
    BY <1>2, Zenon DEF Flattens
<1> HIDE DEF f
<1> QED
    BY <1>1, <1>3

LEMMA Flattened ==
    ASSUME NEW S, NEW seqs \in Seq(Seq(S))
    PROVE  /\ FlattenSeq(seqs) \in Seq(S)
           /\ ToSet(FlattenSeq(seqs)) = UNION {ToSet(seqs[i]) : i \in DOMAIN seqs}
<1>1. Len(seqs) \in Nat /\ DOMAIN seqs = 1 .. Len(seqs)
    OBVIOUS
<1>2. CASE Len(seqs) = 0
  <2>1. seqs = <<>> /\ DOMAIN seqs = {}
      BY <1>1, <1>2
  <2>2. FlattenSeq(seqs) = <<>>
      BY <1>2, <2>1 DEF FlattenSeq
  <2> QED
      BY <2>1, <2>2, EmptyQueue
<1>3. CASE Len(seqs) # 0
  <2>1. PICK f : Flattens(f, seqs, Len(seqs)) /\ FlattenSeq(seqs) = f[Len(seqs)]
      BY <1>3, FlattenedBy
  <2>2. Collects(f, seqs, S)
      BY ONLY <2>1, seqs \in Seq(Seq(S)), FlattenedSoFar
  <2>3. Len(seqs) \in 1 .. Len(seqs)
      BY <1>1, <1>3
  <2>4. f[Len(seqs)] \in Seq(S) /\ ToSet(f[Len(seqs)]) = UNION {ToSet(seqs[i]) : i \in 1 .. Len(seqs)}
      BY ONLY <2>2, <2>3 DEF Collects
  <2> QED
      BY <1>1, <2>1, <2>4
<1> QED
    BY <1>2, <1>3

\* What the list of rows is made of.
LEMMA RowList ==
    /\ Len(RowSeq) \in Nat /\ Steps = 1 .. Len(RowSeq)
    /\ \A i \in Steps : RowSeq[i] \in Rows
    /\ \A r \in Rows : IsFiniteSet(RowCells[r] \cup Padding[r]) /\ \E i \in Steps : r = RowSeq[i]
<1>1. RowSeq \in Seq(Rows) /\ \A r \in Rows : IsFiniteSet(RowCells[r] \cup Padding[r])
    BY CellPipelineAssumption
<1>2. Len(RowSeq) \in Nat /\ DOMAIN RowSeq = 1 .. Len(RowSeq) /\ \A i \in 1 .. Len(RowSeq) : RowSeq[i] \in Rows
    BY ONLY <1>1
<1>3. Rows = {RowSeq[i] : i \in DOMAIN RowSeq}
    BY DEF Rows, ToSet
<1> QED
    BY ONLY <1>1, <1>2, <1>3 DEF Steps

LEMMA CellsAreFinite == IsFiniteSet(Cells)
<1> DEFINE f == [i \in Steps |-> RowCells[RowSeq[i]] \cup Padding[RowSeq[i]]]
           T == {RowCells[r] \cup Padding[r] : r \in Rows}
<1>1. f \in Surjection(Steps, T)
  <2>1. f \in [Steps -> T]
      BY RowList
  <2>2. ASSUME NEW t \in T PROVE \E i \in Steps : f[i] = t
    <3>1. PICK r \in Rows : t = RowCells[r] \cup Padding[r]
        OBVIOUS
    <3>2. PICK i \in Steps : r = RowSeq[i]
        BY ONLY RowList, r \in Rows
    <3>3. f[i] = t
        BY <3>1, <3>2
    <3> QED
        BY ONLY <3>3, i \in Steps
  <2> HIDE DEF f, T
  <2> QED
      BY <2>1, <2>2, Fun_IsSurj
<1>2. IsFiniteSet(Steps)
    BY RowList, FS_Interval
<1>3. IsFiniteSet(T) /\ \A t \in T : IsFiniteSet(t)
  <2>1. \A t \in T : IsFiniteSet(t)
      BY RowList
  <2> HIDE DEF f, T
  <2> QED
      BY <1>1, <1>2, <2>1, FS_Surjection
<1> HIDE DEF T
<1>4. IsFiniteSet(UNION T)
    BY <1>3, FS_UNION
<1> QED
    BY <1>4 DEF Cells, T

\* The tasks one step makes of some cells can be listed.
LEMMA TasksOfAStep ==
    ASSUME NEW i \in Steps, NEW kind \in Kinds, NEW C \in SUBSET Cells
    PROVE  {Task(c, i, kind) : c \in C} \subseteq Tasks /\ IsFiniteSet({Task(c, i, kind) : c \in C})
<1> DEFINE f == [c \in C |-> Task(c, i, kind)]
           T == {Task(c, i, kind) : c \in C}
<1>1. f \in [C -> T] /\ \A t \in T : \E c \in C : f[c] = t
    OBVIOUS
<1>2. IsFiniteSet(C)
    BY CellsAreFinite, FS_Subset
<1>3. T \subseteq Tasks
    BY RowList DEF Tasks, Task
<1> HIDE DEF f, T
<1>4. IsFiniteSet(T)
    BY <1>1, <1>2, Fun_IsSurj, FS_Surjection
<1> QED
    BY <1>3, <1>4 DEF T

\* The list of tasks is one, every cell is on it, and none of them is a cache hit yet.
LEMMA PublishTasksCover ==
    /\ PublishTasks \in Seq(Tasks)
    /\ \A c \in Cells : \E t \in ToSet(PublishTasks) : t.cell = c
    /\ \A t \in ToSet(PublishTasks) : ~ IsHit(t)
<1> DEFINE perRow == [i \in Steps |-> SetToSeq(RegularTasks(i))]
           rest == {Task(c, 1, "padding_source") : c \in Cells \ Regular}
<1>1. /\ Len(RowSeq) \in Nat /\ Steps = 1 .. Len(RowSeq)
      /\ \A i \in Steps : RowSeq[i] \in Rows
      /\ \A r \in Rows : \E i \in Steps : r = RowSeq[i]
    BY RowList
<1>3. ASSUME NEW i \in Steps, NEW kind \in Kinds, NEW C \in SUBSET Cells
      PROVE  {Task(c, i, kind) : c \in C} \subseteq Tasks /\ IsFiniteSet({Task(c, i, kind) : c \in C})
    BY TasksOfAStep
<1>4. \A i \in Steps : RegularTasks(i) \subseteq Tasks /\ IsFiniteSet(RegularTasks(i))
  <2>1. \A i \in Steps : RowCells[RowSeq[i]] \in SUBSET Cells
      BY <1>1 DEF Cells
  <2> QED
      BY <1>3, <2>1 DEF RegularTasks, Kinds
<1>5. rest \subseteq Tasks /\ IsFiniteSet(rest)
  <2>1. CASE Cells \ Regular = {}
      BY <2>1, FS_EmptySet
  <2>2. CASE Cells \ Regular # {}
    <3>1. Rows # {}
        BY <2>2 DEF Cells
    <3>2. 1 \in Steps
      <4>1. PICK r \in Rows : TRUE
          BY ONLY <3>1
      <4>2. PICK i \in Steps : r = RowSeq[i]
          BY ONLY <1>1, r \in Rows
      <4> QED
          BY ONLY <1>1, i \in Steps
    <3> QED
        BY <1>3, <3>2 DEF Kinds
  <2> QED
      BY <2>1, <2>2
<1>6. perRow \in Seq(Seq(Tasks)) /\ \A i \in Steps : ToSet(perRow[i]) = RegularTasks(i)
  <2>1. \A i \in Steps : SetToSeq(RegularTasks(i)) \in Seq(Tasks) /\ ToSet(SetToSeq(RegularTasks(i))) = RegularTasks(i)
    <3> TAKE i \in Steps
    <3>1. SetToSeq(RegularTasks(i)) \in Seq(RegularTasks(i)) /\ ToSet(SetToSeq(RegularTasks(i))) = RegularTasks(i)
        BY <1>4, Listed
    <3>2. Seq(RegularTasks(i)) \subseteq Seq(Tasks)
        BY <1>4
    <3> QED
        BY <3>1, <3>2
  <2> QED
      BY <1>1, <2>1
<1>7. SetToSeq(rest) \in Seq(Tasks) /\ ToSet(SetToSeq(rest)) = rest
  <2> HIDE DEF rest
  <2>1. SetToSeq(rest) \in Seq(rest) /\ ToSet(SetToSeq(rest)) = rest
      BY <1>5, Listed
  <2>2. Seq(rest) \subseteq Seq(Tasks)
      BY <1>5
  <2> QED
      BY <2>1, <2>2
<1>8. DOMAIN perRow = Steps
    OBVIOUS
<1>9. PublishTasks = FlattenSeq(perRow) \o SetToSeq(rest)
    BY DEF PublishTasks
<1>13. \A t \in (UNION {RegularTasks(i) : i \in Steps}) \cup rest : ~ IsHit(t)
    BY DEF RegularTasks, Task, IsHit
<1> HIDE DEF perRow, rest
<1>10. /\ FlattenSeq(perRow) \in Seq(Tasks)
       /\ ToSet(FlattenSeq(perRow)) = UNION {RegularTasks(i) : i \in Steps}
    BY <1>6, <1>8, Flattened
<1>11. /\ PublishTasks \in Seq(Tasks)
       /\ ToSet(PublishTasks) = (UNION {RegularTasks(i) : i \in Steps}) \cup rest
    BY <1>7, <1>9, <1>10, Concatenated
<1>12. ASSUME NEW c \in Cells PROVE \E t \in ToSet(PublishTasks) : t.cell = c
  <2>1. CASE c \in Regular
    <3>0. PICK r \in Rows : c \in RowCells[r]
        BY ONLY <2>1 DEF Regular
    <3>1. PICK i \in Steps : r = RowSeq[i]
        BY ONLY <1>1, r \in Rows
    <3>2. Task(c, i, "regular") \in RegularTasks(i) /\ Task(c, i, "regular").cell = c
        BY <3>0, <3>1 DEF RegularTasks, Task
    <3> QED
        BY <1>11, <3>2
  <2>2. CASE c \notin Regular
    <3>1. Task(c, 1, "padding_source") \in rest /\ Task(c, 1, "padding_source").cell = c
        BY <2>2 DEF rest, Task
    <3> QED
        BY <1>11, <3>1
  <2> QED
      BY <2>1, <2>2
<1> QED
    BY <1>11, <1>12, <1>13

(****************************************************************************)
(* Rows                                                                     *)
(****************************************************************************)
\* What main puts together it has gathered or loaded, however the threads do.
THEOREM RowsStayComplete == Spec => []RowsAreComplete
<1>1. Init => RowsAreComplete
    BY DEF Init, RowsAreComplete
<1>2. RowsAreComplete /\ [Next]_vars => RowsAreComplete'
  <2> SUFFICES ASSUME RowsAreComplete, [Next]_vars PROVE RowsAreComplete'
      OBVIOUS
  <2>1. CASE UNCHANGED <<assembled, placed, archive>> /\ past \subseteq past'
      BY <2>1 DEF RowsAreComplete
  <2>2. CASE UNCHANGED vars
      BY <2>1, <2>2 DEF vars, main, past0
  <2>3. CASE Ingest \/ Combine \/ BreakPool
      BY <2>1, <2>3 DEF Ingest, TakeTask, PutRaw, FindAbsent, FailFetch, Combine, TakeRaw,
         PutCombined, FailCombine,
                        ForwardSentinel, BreakPool, Fault, main, past0
  <2>4. CASE Coordinate
      BY <2>1, <2>4 DEF Coordinate, Flush, Collect, Publish, TakeCombined, GiveUpFuture, GiveUpResults,
                        EndCoordinator, WriteBandCells, Fault, main, past0
  <2>5. CASE WindDown \/ Save
      BY <2>1, <2>5 DEF WindDown, AwaitThreads, SendSentinel, EndResults, Report, Save, OnlyPc, main,
         past0
  <2>6. CASE Receive \/ PaddingReady \/ FailRow \/ Emit
      BY <2>1, <2>6 DEF Receive, PaddingReady, ApplyPadding, FailRow, Emit, Fault, past0
  <2>7. CASE PaddingTimesOut
      BY <2>1, <2>7 DEF PaddingTimesOut, TimesOut, Fault, past0
  <2>8. ASSUME NEW cells, AssembleRow(cells), UNCHANGED archive, past \subseteq past',
               "fetch" \notin past => Wanted \cap archive \subseteq cells
        PROVE  RowsAreComplete'
      BY <2>8 DEF RowsAreComplete, AssembleRow, Wanted
  <2>9. CASE Gathered
      BY <2>8, <2>9 DEF Gathered, past0
  <2>10. CASE GatherTimesOut
    <3>1. PICK loaded \in SUBSET Wanted :
            LoadManually(Wanted \ arrived', loaded) /\ AssembleRow((Wanted \cap arrived') \cup loaded)
        BY <2>10 DEF GatherTimesOut
    <3>2. UNCHANGED archive /\ past \subseteq past'
        BY <2>10 DEF GatherTimesOut, TimesOut, Fault, past0
    <3>3. "fetch" \notin past => Wanted \cap archive \subseteq (Wanted \cap arrived') \cup loaded
        BY <3>1 DEF LoadManually
    <3> QED
        BY <2>8, <3>1, <3>2, <3>3
  <2> QED
      BY <2>2, <2>3, <2>4, <2>5, <2>6, <2>7, <2>9, <2>10 DEF Next, Work, AssembleRows
<1> QED
    BY <1>1, <1>2, PTL DEF Spec


(****************************************************************************)
(* The run that only publishes                                              *)
(****************************************************************************)
Bundles == Tasks \cup {None}

QueueTypes ==
    /\ tasks \in Seq(Tasks) /\ reading \subseteq Tasks
    /\ rawQ \in Seq(Bundles)
    /\ combining \subseteq Tasks /\ IsFiniteSet(combining)
    /\ combQ \in Seq(Bundles)
    /\ active \subseteq Tasks
    /\ alive \in 0 .. Combiners /\ sent \in 0 .. Combiners
    /\ Combiners - alive <= sent

\* The sentinels main has sent that no combiner has met yet.
Queued == sent - (Combiners - alive)

\* Main goes down the chain only when the stage above has come to its end.
MainInv ==
    /\ pc \in {"ingest", "sentinels", "combiners", "coordinator", "end", "report", "exit", "saver", "done", "failed"}
    /\ pc = "ingest" => sent = 0
    /\ pc = "sentinels" => sent < Combiners
    /\ pc \notin {"ingest", "sentinels"} => sent = Combiners
    /\ pc # "ingest" => tasks = <<>> /\ reading = {}
    /\ pc \notin {"ingest", "sentinels", "combiners"} => alive = 0 /\ sentinels = 0
    /\ pc \notin {"ingest", "sentinels", "combiners", "coordinator"} => coord = "done"

\* In the raw queue the sentinels come last, one for every combiner that is to
\* meet one; in the combined queue there is at most one, and nothing behind it.
SentinelInv ==
    /\ alive > 0 =>
           /\ Queued <= Len(rawQ)
           /\ \A i \in 1 .. Len(rawQ) : rawQ[i] = None <=> i > Len(rawQ) - Queued
    /\ alive = 0 => ToSet(rawQ) \subseteq {None} /\ combining = {}
    /\ sentinels \in {0, 1}
    /\ sentinels = 1 => alive = 0 /\ None \notin ToSet(combQ)
    /\ None \in ToSet(combQ) => alive = 0
    /\ \A i \in 1 .. Len(combQ) : combQ[i] = None => i = Len(combQ)
    /\ coord # "loop" /\ ~Broken => alive = 0 /\ sentinels = 0 /\ combQ = <<>>
    /\ coord = "done" => active = {} /\ writing = {}

ChainInv == mode = "publish" => QueueTypes /\ MainInv /\ SentinelInv


ChainBody == mode = "publish" /\ QueueTypes /\ MainInv /\ SentinelInv

LEMMA NoneIsNoTask == None \notin Tasks /\ \A t \in Tasks : t \in Bundles /\ t # None
BY DEF None, Tasks, Kinds, Bundles

LEMMA CountsAreNat ==
    /\ Combiners \in Nat \ {0} /\ RawCap \in Nat \ {0}
    /\ QueueTypes => Queued \in Nat /\ Queued <= Combiners
<1>1. Combiners \in Nat \ {0} /\ RawCap \in Nat \ {0}
    BY CellPipelineAssumption
<1> QED
    BY <1>1 DEF QueueTypes, Queued

\* A bundle put into the raw queue while no sentinel is in it.
LEMMA IngestChain ==
    ASSUME ChainBody, Ingest
    PROVE  ChainBody'
<1> USE DEF ChainBody
<1>1. /\ UNCHANGED <<mode, combining, alive, sentinels, combQ, coord, active, writing, pc, sent>>
      /\ past \subseteq past'
    BY DEF Ingest, TakeTask, PutRaw, FindAbsent, FailFetch, Fault, back, main, past0
<1>2. pc = "ingest" /\ alive > 0 /\ sent = 0 /\ alive = Combiners
  <2>1. pc = "ingest"
      BY DEF Ingest, TakeTask, PutRaw, FindAbsent, FailFetch, MainInv
  <2> QED
      BY <2>1, CountsAreNat DEF MainInv, QueueTypes
<1>3. /\ reading' \subseteq Tasks /\ tasks' \in Seq(Tasks)
  <2>1. CASE TakeTask
    <3>1. Head(tasks) \in Tasks /\ Tail(tasks) \in Seq(Tasks)
        BY <2>1, Taken DEF TakeTask, QueueTypes
    <3>2. [Head(tasks) EXCEPT !.kind = "regular_cache_hit"] \in Tasks
        BY <3>1 DEF Tasks, Kinds
    <3> QED
        BY <2>1, <3>1, <3>2 DEF TakeTask, QueueTypes
  <2> QED
      BY <2>1 DEF Ingest, PutRaw, FindAbsent, FailFetch, QueueTypes
<1>4. CASE UNCHANGED rawQ
    BY <1>1, <1>2, <1>3, <1>4 DEF QueueTypes, MainInv, SentinelInv, Queued, Broken
<1>5. ASSUME NEW t \in reading, PutRaw(t) PROVE ChainBody'
  <2>1. t \in Bundles /\ t # None /\ rawQ \in Seq(Bundles) /\ rawQ' = Append(rawQ, t)
      BY <1>5, NoneIsNoTask DEF PutRaw, QueueTypes
  <2>2. /\ rawQ' \in Seq(Bundles) /\ Len(rawQ) \in Nat /\ Len(rawQ') = Len(rawQ) + 1
        /\ \A i \in 1 .. Len(rawQ) : rawQ'[i] = rawQ[i]
        /\ rawQ'[Len(rawQ) + 1] = t
      BY <2>1, Appended
  <2>3. Queued = 0 /\ Queued' = 0
      BY <1>1, <1>2, CountsAreNat DEF Queued
  <2>4. \A i \in 1 .. Len(rawQ') : rawQ'[i] = None <=> i > Len(rawQ') - Queued'
    <3>1. \A i \in 1 .. Len(rawQ) : rawQ[i] # None
        BY <1>2, <2>2, <2>3 DEF SentinelInv
    <3> QED
        BY <2>1, <2>2, <2>3, <3>1
  <2>5. QueueTypes' /\ MainInv'
      BY <1>1, <1>2, <1>3, <2>2 DEF QueueTypes, MainInv
  <2>6. SentinelInv'
      BY <1>1, <1>2, <2>2, <2>3, <2>4, CountsAreNat DEF SentinelInv, Broken
  <2> QED
      BY <1>1, <2>5, <2>6
<1> QED
    BY <1>4, <1>5 DEF Ingest, TakeTask, FindAbsent, FailFetch

\* The last combiner meets its sentinel when the queue is empty and no other works.
LEMMA TakeRawChain ==
    ASSUME ChainBody, TakeRaw
    PROVE  ChainBody'
<1> USE DEF ChainBody
<1>1. UNCHANGED <<mode, tasks, reading, combQ, coord, active, writing, pc, sent, past>>
    BY DEF TakeRaw, back, main, past0
<1>2. /\ rawQ \in Seq(Bundles) /\ rawQ # <<>> /\ rawQ' = Tail(rawQ)
      /\ Cardinality(combining) < alive /\ Cardinality(combining) \in Nat /\ IsFiniteSet(combining)
      /\ alive \in 1 .. Combiners /\ Combiners \in Nat
  <2>1. Cardinality(combining) \in Nat
      BY FS_CardinalityType DEF QueueTypes
  <2> QED
      BY <2>1, CountsAreNat DEF TakeRaw, QueueTypes
<1>3. /\ rawQ' \in Seq(Bundles) /\ Head(rawQ) \in Bundles /\ Head(rawQ) = rawQ[1]
      /\ Len(rawQ) \in Nat \ {0} /\ Len(rawQ') = Len(rawQ) - 1
      /\ \A i \in 1 .. Len(rawQ) - 1 : rawQ'[i] = rawQ[i + 1]
      /\ ToSet(rawQ) = {Head(rawQ)} \cup ToSet(rawQ')
    BY <1>2, Taken
<1>4. Queued \in Nat /\ Queued <= Len(rawQ) /\ (rawQ[1] = None <=> 1 > Len(rawQ) - Queued)
    BY <1>2, <1>3, CountsAreNat DEF SentinelInv
<1>5. sentinels = 0 /\ None \notin ToSet(combQ)
    BY <1>2 DEF SentinelInv
<1>6. coord = "loop" \/ Broken
    BY <1>2 DEF SentinelInv
<1>7. CASE Head(rawQ) = None
  <2>1. alive' = alive - 1 /\ sentinels' = (IF alive = 1 THEN 1 ELSE 0) /\ UNCHANGED combining
      BY <1>5, <1>7 DEF TakeRaw, Forwards
  <2>2. Queued = Len(rawQ) /\ Queued' = Queued - 1 /\ Queued >= 1
    <3>1. Queued = Len(rawQ)
        BY <1>3, <1>4, <1>7
    <3>2. sent \in Nat /\ sent' = sent
        BY <1>1 DEF QueueTypes
    <3>3. Queued' = Queued - 1
        BY <1>2, <2>1, <3>2 DEF Queued
    <3> QED
        BY <1>3, <3>1, <3>3
  <2>3. QueueTypes' /\ MainInv'
    <3>1. pc \in {"sentinels", "combiners", "ingest"}
        BY <1>2 DEF MainInv
    <3>2. Combiners - alive' <= sent
        BY <1>2, <2>1, <2>2, CountsAreNat DEF Queued, QueueTypes
    <3> QED
        BY <1>1, <1>2, <1>3, <2>1, <3>1, <3>2 DEF QueueTypes, MainInv
  <2>4. CASE alive > 1
    <3>1. \A i \in 1 .. Len(rawQ') : rawQ'[i] = None
        BY <1>2, <1>3, <1>4, <2>2, <2>4 DEF SentinelInv
    <3>2. SentinelInv'
        BY <1>1, <1>2, <1>3, <1>5, <1>6, <2>1, <2>2, <2>4, <3>1 DEF SentinelInv, Broken
    <3> QED
        BY <1>1, <2>3, <3>2
  <2>5. CASE alive = 1
    <3>1. Len(rawQ) = 1 /\ combining = {}
      <4>1. Queued <= 1
          BY <1>1, <2>5, CountsAreNat DEF Queued, QueueTypes
      <4>2. Cardinality(combining) = 0
          BY <1>2, <2>5
      <4> QED
          BY <1>2, <2>2, <4>1, <4>2, FS_EmptySet
    <3>2. ToSet(rawQ') = {}
        BY <1>3, <3>1 DEF ToSet
    <3>3. SentinelInv'
        BY <1>1, <1>2, <1>5, <1>6, <2>1, <2>5, <3>1, <3>2 DEF SentinelInv, Broken
    <3> QED
        BY <1>1, <2>3, <3>3
  <2> QED
      BY <1>2, <2>4, <2>5
<1>8. CASE Head(rawQ) # None
  <2>1. alive' = alive /\ sentinels' = sentinels /\ combining' = combining \cup {Head(rawQ)}
      BY <1>8 DEF TakeRaw
  <2>2. Head(rawQ) \in Tasks /\ IsFiniteSet(combining')
      BY <1>2, <1>3, <1>8, <2>1, FS_AddElement DEF Bundles
  <2>3. Queued' = Queued /\ Queued < Len(rawQ)
      BY <1>1, <1>2, <1>3, <1>4, <1>8, <2>1 DEF Queued
  <2>4. \A i \in 1 .. Len(rawQ') : rawQ'[i] = None <=> i > Len(rawQ') - Queued'
    <3>1. \A i \in 1 .. Len(rawQ) : rawQ[i] = None <=> i > Len(rawQ) - Queued
        BY <1>2 DEF SentinelInv
    <3> QED
        BY <1>3, <1>4, <2>3, <3>1
  <2>5. QueueTypes'
      BY <1>1, <1>2, <1>3, <2>1, <2>2 DEF QueueTypes
  <2>6. MainInv'
      BY <1>1, <1>2, <2>1 DEF MainInv
  <2>7. SentinelInv'
      BY <1>1, <1>2, <1>3, <1>4, <1>5, <1>6, <2>1, <2>3, <2>4 DEF SentinelInv, Broken
  <2> QED
      BY <1>1, <2>5, <2>6, <2>7
<1> QED
    BY <1>7, <1>8

LEMMA CombineChain ==
    ASSUME ChainBody, Combine
    PROVE  ChainBody'
<1> USE DEF ChainBody
<1>1. CASE ForwardSentinel
  <2>1. /\ UNCHANGED <<mode, tasks, reading, rawQ, combining, alive, coord, active, writing, pc, sent, past>>
        /\ sentinels = 1 /\ sentinels' = 0 /\ combQ' = Append(combQ, None) /\ alive = 0
      BY <1>1 DEF ForwardSentinel, SentinelInv, back, main, past0
  <2>2. combQ \in Seq(Bundles) /\ None \in Bundles
      BY DEF QueueTypes, Bundles
  <2>3. /\ combQ' \in Seq(Bundles) /\ Len(combQ) \in Nat /\ Len(combQ') = Len(combQ) + 1
        /\ \A i \in 1 .. Len(combQ) : combQ'[i] = combQ[i]
      BY <2>1, <2>2, Appended
  <2>4. DOMAIN combQ = 1 .. Len(combQ)
      BY ONLY <2>2, SMTT(30)
  <2>5. \A i \in 1 .. Len(combQ) : combQ[i] # None
      BY <2>1, <2>4 DEF SentinelInv, ToSet
  <2>6. \A i \in 1 .. Len(combQ') : combQ'[i] = None => i = Len(combQ')
      BY <2>3, <2>5
  <2>7. coord = "loop" \/ Broken
      BY <2>1 DEF SentinelInv
  <2>8. QueueTypes' /\ MainInv'
      BY <2>1, <2>3 DEF QueueTypes, MainInv
  <2>9. SentinelInv'
      BY <2>1, <2>6, <2>7 DEF SentinelInv, Broken
  <2> QED
      BY <2>1, <2>8, <2>9
<1>2. ASSUME NEW t \in combining, PutCombined(t) \/ FailCombine(t) PROVE ChainBody'
  <2>1. /\ UNCHANGED <<mode, tasks, reading, rawQ, alive, sentinels, coord, active, writing, pc, sent>>
        /\ past \subseteq past' /\ combining' = combining \ {t}
        /\ combQ' \in {combQ, Append(combQ, t)}
      BY <1>2 DEF PutCombined, FailCombine, Fault, back, main, past0
  <2>2. alive > 0 /\ sentinels = 0 /\ None \notin ToSet(combQ)
      BY <1>2 DEF SentinelInv, QueueTypes
  <2>3. coord = "loop" \/ Broken
      BY <2>2 DEF SentinelInv
  <2>4. t \in Bundles /\ t # None /\ combQ \in Seq(Bundles) /\ IsFiniteSet(combining')
      BY <1>2, <2>1, NoneIsNoTask, FS_RemoveElement DEF QueueTypes
  <2>5. combQ' \in Seq(Bundles) /\ None \notin ToSet(combQ')
    <3>1. Append(combQ, t) \in Seq(Bundles) /\ ToSet(Append(combQ, t)) = ToSet(combQ) \cup {t}
        BY <2>4, Appended
    <3> QED
        BY <2>1, <2>2, <2>4, <3>1
  <2>6. DOMAIN combQ' = 1 .. Len(combQ')
      BY <2>5
  <2>7. \A i \in 1 .. Len(combQ') : combQ'[i] # None
      BY <2>5, <2>6 DEF ToSet
  <2>8. QueueTypes' /\ MainInv'
      BY <2>1, <2>4, <2>5 DEF QueueTypes, MainInv
  <2>9. Queued' = Queued
      BY <2>1 DEF Queued
  <2>10. SentinelInv'
      BY <2>1, <2>2, <2>3, <2>5, <2>7, <2>9 DEF SentinelInv, Broken
  <2> QED
      BY <2>1, <2>8, <2>10
<1> QED
    BY <1>1, <1>2, TakeRawChain DEF Combine

\* The coordinator leaves its loop at the one sentinel, behind which nothing comes.
LEMMA CoordinateChain ==
    ASSUME ChainBody, Coordinate \/ BreakPool
    PROVE  ChainBody'
<1> USE DEF ChainBody
<1>1. /\ UNCHANGED <<mode, tasks, reading, rawQ, combining, alive, sentinels, pc, sent>> /\ past \subseteq past'
    BY DEF Coordinate, Flush, Collect, Publish, TakeCombined, GiveUpFuture, GiveUpResults,
       EndCoordinator,
           WriteBandCells, BreakPool, Fault, front, main, past0
<1>2. ASSUME UNCHANGED <<combQ, coord>>, active' \subseteq active,
             coord = "done" => writing' = {}
      PROVE  ChainBody'
  <2>1. QueueTypes' /\ MainInv'
      BY <1>1, <1>2 DEF QueueTypes, MainInv
  <2>2. Queued' = Queued
      BY <1>1 DEF Queued
  <2>3. SentinelInv'
      BY <1>1, <1>2, <2>2 DEF SentinelInv, Broken
  <2> QED
      BY <1>1, <2>1, <2>3
<1>3. CASE Flush \/ GiveUpResults \/ BreakPool
    BY <1>2, <1>3 DEF Flush, GiveUpResults, BreakPool, SentinelInv, front, back
<1>4. ASSUME NEW t \in active, Collect(t) \/ GiveUpFuture(t) PROVE ChainBody'
    BY <1>2, <1>4 DEF Collect, GiveUpFuture, SentinelInv, front
<1>5. ASSUME NEW c \in writing, WriteBandCells(c) PROVE ChainBody'
    BY <1>2, <1>5 DEF WriteBandCells, SentinelInv, front
<1>6. CASE EndCoordinator
  <2>1. UNCHANGED <<combQ, active, writing>> /\ coord = "drain" /\ coord' = "done" /\ active = {} /\ writing = {}
      BY <1>6 DEF EndCoordinator, front, PoolClosed
  <2>2. QueueTypes' /\ MainInv'
      BY <1>1, <2>1 DEF QueueTypes, MainInv
  <2>3. Queued' = Queued
      BY <1>1 DEF Queued
  <2>4. SentinelInv'
      BY <1>1, <2>1, <2>3 DEF SentinelInv, Broken
  <2> QED
      BY <1>1, <2>2, <2>4
<1>7. CASE TakeCombined
  <2>1. coord = "loop" /\ combQ # <<>> /\ combQ' = Tail(combQ) /\ combQ \in Seq(Bundles)
      BY <1>7 DEF TakeCombined, QueueTypes
  <2>2. /\ combQ' \in Seq(Bundles) /\ Head(combQ) \in Bundles /\ Head(combQ) = combQ[1]
        /\ Len(combQ) \in Nat \ {0} /\ Len(combQ') = Len(combQ) - 1
        /\ \A i \in 1 .. Len(combQ) - 1 : combQ'[i] = combQ[i + 1]
        /\ ToSet(combQ) = {Head(combQ)} \cup ToSet(combQ')
      BY <2>1, Taken
  <2>3. /\ coord' \in {"loop", "drain"}
        /\ active' \subseteq active \cup {Head(combQ)}
        /\ Head(combQ) = None => coord' = "drain" /\ active' = active
        /\ coord' = "drain" => Head(combQ) = None \/ Broken
    <3>1. CASE Head(combQ) = None
      <4>1. ~ IsHit(None)
          BY DEF IsHit, None
      <4> QED
          BY <1>7, <2>1, <3>1, <4>1 DEF TakeCombined
    <3>2. CASE Head(combQ) # None /\ IsHit(Head(combQ))
        BY <1>7, <2>1, <3>2 DEF TakeCombined
    <3>3. CASE Head(combQ) # None /\ ~ IsHit(Head(combQ)) /\ Broken
        BY <1>7, <2>1, <3>3 DEF TakeCombined
    <3>4. CASE Head(combQ) # None /\ ~ IsHit(Head(combQ)) /\ ~ Broken
        BY <1>7, <2>1, <3>4 DEF TakeCombined
    <3> QED
        BY <3>1, <3>2, <3>3, <3>4
  <2>4. active' \subseteq Tasks
      BY <2>2, <2>3 DEF QueueTypes, Bundles
  <2>5. Head(combQ) = None => combQ' = <<>> /\ alive = 0 /\ sentinels = 0
    <3>1. Head(combQ) = None => Len(combQ) = 1
        BY <2>2 DEF SentinelInv
    <3>2. Len(combQ') = 0 => combQ' = <<>>
        BY <2>2
    <3>3. Head(combQ) = None => None \in ToSet(combQ)
        BY <2>2
    <3> QED
        BY <2>2, <3>1, <3>2, <3>3 DEF SentinelInv
  <2>6. \A i \in 1 .. Len(combQ') : combQ'[i] = None => i = Len(combQ')
      BY <2>2 DEF SentinelInv
  <2>7. QueueTypes' /\ MainInv'
    <3>1. QueueTypes'
        BY <1>1, <2>1, <2>2, <2>4 DEF QueueTypes
    <3>2. UNCHANGED <<tasks, reading, alive, sentinels, pc, sent>>
        BY <1>1
    <3>3. MainInv /\ coord = "loop"
        BY <2>1
    <3>4. MainInv'
        BY ONLY <3>2, <3>3, Zenon DEF MainInv
    <3> QED
        BY <3>1, <3>4
  <2>8. Queued' = Queued
      BY <1>1 DEF Queued
  <2>9. SentinelInv'
      BY <1>1, <2>1, <2>2, <2>3, <2>5, <2>6, <2>8, Zenon DEF SentinelInv, Broken
  <2> QED
      BY <1>1, <2>7, <2>9
<1> QED
    BY <1>3, <1>4, <1>5, <1>6, <1>7 DEF Coordinate

LEMMA WindDownChain ==
    ASSUME ChainBody, WindDown
    PROVE  ChainBody'
<1> USE DEF ChainBody
<1>1. /\ UNCHANGED <<mode, tasks, reading, combining, alive, sentinels, combQ, coord, active, writing, past>>
    BY DEF WindDown, AwaitThreads, SendSentinel, EndResults, Report, OnlyPc, front, back, past0
<1>2. CASE AwaitThreads \/ EndResults
  <2>1. UNCHANGED <<rawQ, sent>>
      BY <1>2 DEF AwaitThreads, EndResults, OnlyPc, front
  <2>2. QueueTypes'
      BY <1>1, <2>1 DEF QueueTypes
  <2>3. MainInv'
    <3>1. CASE AwaitThreads
        BY <1>1, <2>1, <3>1, CountsAreNat DEF AwaitThreads, Goto, MainInv, ReadersGone
    <3>2. CASE EndResults
        BY <1>1, <2>1, <3>2 DEF EndResults, Goto, MainInv
    <3> QED
        BY <1>2, <3>1, <3>2
  <2>4. Queued' = Queued
      BY <1>1, <2>1 DEF Queued
  <2>5. SentinelInv'
      BY <1>1, <2>1, <2>4 DEF SentinelInv, Broken
  <2> QED
      BY <1>1, <2>2, <2>3, <2>5
<1>3. CASE SendSentinel
  <2>1. /\ pc = "sentinels" /\ rawQ' = Append(rawQ, None) /\ sent' = sent + 1
        /\ pc' = IF sent' < Combiners THEN pc ELSE "combiners"
      BY <1>3 DEF SendSentinel
  <2>2. /\ rawQ \in Seq(Bundles) /\ None \in Bundles /\ sent \in 0 .. Combiners - 1 /\ Combiners \in Nat
        /\ alive \in 1 .. Combiners /\ Combiners - alive <= sent
      BY <2>1, CountsAreNat DEF QueueTypes, MainInv, Bundles
  <2>3. /\ rawQ' \in Seq(Bundles) /\ Len(rawQ) \in Nat /\ Len(rawQ') = Len(rawQ) + 1
        /\ \A i \in 1 .. Len(rawQ) : rawQ'[i] = rawQ[i]
        /\ rawQ'[Len(rawQ) + 1] = None
      BY <2>1, <2>2, Appended
  <2>4. Queued' = Queued + 1 /\ Queued \in Nat /\ Queued <= Len(rawQ)
      BY <1>1, <2>1, <2>2, CountsAreNat DEF Queued, SentinelInv
  <2>5. \A i \in 1 .. Len(rawQ') : rawQ'[i] = None <=> i > Len(rawQ') - Queued'
    <3>1. \A i \in 1 .. Len(rawQ) : rawQ[i] = None <=> i > Len(rawQ) - Queued
        BY <2>2 DEF SentinelInv
    <3> QED
        BY <2>3, <2>4, <3>1
  <2>6. QueueTypes' /\ MainInv'
      BY <1>1, <2>1, <2>2, <2>3 DEF QueueTypes, MainInv
  <2>7. SentinelInv'
      BY <1>1, <2>2, <2>3, <2>4, <2>5 DEF SentinelInv, Broken
  <2> QED
      BY <1>1, <2>6, <2>7
<1>4. CASE Report
  <2>1. /\ pc = "report" /\ pc' \in {"exit", "failed"} /\ sent' = sent
        /\ rawQ' \in {rawQ, rawQ \o [i \in 1 .. Combiners |-> None]}
      BY <1>4 DEF Report, Goto
  <2>2. alive = 0 /\ ToSet(rawQ) \subseteq {None} /\ rawQ \in Seq(Bundles) /\ Combiners \in Nat
      BY <2>1, CountsAreNat DEF MainInv, SentinelInv, QueueTypes
  <2>3. rawQ' \in Seq(Bundles) /\ ToSet(rawQ') \subseteq {None}
    <3>1. [i \in 1 .. Combiners |-> None] \in Seq({None})
        BY <2>2
    <3>2. DOMAIN rawQ = 1 .. Len(rawQ)
        BY <2>2
    <3>3. rawQ \in Seq({None})
      <4>1. \A i \in 1 .. Len(rawQ) : rawQ[i] \in {None}
          BY <2>2, <3>2 DEF ToSet
      <4>2. Len(rawQ) \in Nat /\ rawQ = [i \in 1 .. Len(rawQ) |-> rawQ[i]]
          BY <2>2
      <4>3. [i \in 1 .. Len(rawQ) |-> rawQ[i]] \in Seq({None})
          BY <4>1, <4>2
      <4> QED
          BY <4>2, <4>3
    <3>4. rawQ' \in Seq({None})
      <4>1. rawQ \o [i \in 1 .. Combiners |-> None] \in Seq({None})
          BY <3>1, <3>3
      <4> QED
          BY <2>1, <3>3, <4>1
    <3>5. Seq({None}) \subseteq Seq(Bundles) /\ \A s \in Seq({None}) : ToSet(s) \subseteq {None}
        BY DEF Bundles, ToSet
    <3> QED
        BY <3>4, <3>5
  <2>4. QueueTypes' /\ MainInv'
      BY <1>1, <2>1, <2>3 DEF QueueTypes, MainInv
  <2>5. SentinelInv'
      BY <1>1, <2>2, <2>3 DEF SentinelInv, Broken
  <2> QED
      BY <1>1, <2>4, <2>5
<1> QED
    BY <1>2, <1>3, <1>4 DEF WindDown

LEMMA InitChain == Init => ChainInv
<1> SUFFICES ASSUME Init, mode = "publish" PROVE ChainBody
    BY DEF ChainInv, ChainBody
<1>1. /\ tasks \in Seq(Tasks) /\ reading = {} /\ rawQ = <<>> /\ combining = {} /\ combQ = <<>> /\ active = {}
      /\ alive = Combiners /\ sent = 0 /\ sentinels = 0 /\ coord = "loop" /\ pc = "ingest"
    BY PublishTasksCover DEF Init
<1>2. QueueTypes
    BY <1>1, CountsAreNat, EmptyQueue, FS_EmptySet DEF QueueTypes
<1>3. MainInv
    BY <1>1 DEF MainInv
<1>4. SentinelInv
    BY <1>1, CountsAreNat, EmptyQueue DEF SentinelInv, Queued
<1> QED
    BY <1>2, <1>3, <1>4 DEF ChainBody

LEMMA ModeStays == [Next]_vars => mode' = mode
BY DEF Next, Work, vars, Ingest, TakeTask, PutRaw, FindAbsent, FailFetch, Combine, TakeRaw, PutCombined,
       FailCombine, ForwardSentinel, BreakPool, Coordinate, Flush, Collect, TakeCombined, GiveUpFuture,
       GiveUpResults, EndCoordinator, WriteBandCells, WindDown, AwaitThreads, SendSentinel, EndResults, Report,
       OnlyPc, Save, AssembleRows, Receive, Gathered, GatherTimesOut, PaddingReady, PaddingTimesOut, FailRow,
       Emit, past0

\* Main assembles no rows.
LEMMA OnlyPublishes == ChainBody => ~ AssembleRows
BY DEF ChainBody, MainInv, AssembleRows, Receive, Drains, Gathering, Gathered, GatherTimesOut,
   PaddingReady,
       PaddingTimesOut, FailRow, Emit

LEMMA NextChain == ChainInv /\ [Next]_vars => ChainInv'
<1> SUFFICES ASSUME ChainInv, [Next]_vars, mode' = "publish" PROVE ChainBody'
    BY DEF ChainInv, ChainBody
<1>1. mode' = mode
    BY ModeStays
<1>2. ChainBody
    BY <1>1 DEF ChainInv, ChainBody
<1>3. ~ AssembleRows
    BY <1>2, OnlyPublishes
<1>4. CASE Save \/ UNCHANGED vars
    BY <1>2, <1>4 DEF Save, vars, front, back, main, past0, ChainBody, QueueTypes, MainInv,
       SentinelInv, Queued, Broken
<1> QED
    BY <1>2, <1>3, <1>4, IngestChain, CombineChain, CoordinateChain, WindDownChain DEF Next, Work

\* A run that only publishes is judged at rest: when main looks at what is missing,
\* no bundle, no SEP result and no band write is left anywhere in the chain.
THEOREM NothingStaysBehind == Spec => []NothingLeftBehind
<1>1. ChainInv => NothingLeftBehind
  <2> SUFFICES ASSUME ChainInv, mode = "publish", ~ Broken,
                      pc \in {"end", "report", "exit", "saver", "done", "failed"}
               PROVE  Upstream = {} /\ active = {} /\ writing = {}
      BY DEF NothingLeftBehind
  <2> QED
      BY EmptyQueue DEF ChainInv, QueueTypes, MainInv, SentinelInv, Upstream
<1>2. Init => ChainInv
    BY InitChain
<1> QED
    BY <1>1, <1>2, NextChain, PTL DEF Spec


\* Where a cell of the run can be: with a bundle on its way, with an SEP process or
\* the band publish pool, or at its end.
Bearers == Upstream \cup active
Held == published \cup absent \cup lost \cup writing \cup {t.cell : t \in Bearers}
HeldInv == mode = "publish" => Cells \subseteq Held

\* A step that moves, ends or loses what it takes, and drops nothing.
LEMMA HeldFrame ==
    ASSUME Cells \subseteq Held,
           published \subseteq published', absent \subseteq absent', lost \subseteq lost',
           \A c \in writing : c \in published' \cup lost' \cup writing',
           \A t \in Bearers :
               t \in Bearers' \/ t.cell \in published' \cup absent' \cup lost' \cup writing'
    PROVE  (Cells \subseteq Held)'
<1> SUFFICES ASSUME NEW c \in Cells PROVE c \in Held'
    OBVIOUS
<1>1. CASE c \in published \cup absent \cup lost \cup writing
    BY <1>1 DEF Held
<1>2. CASE \E t \in Bearers : t.cell = c
  <2>1. PICK t \in Bearers : t.cell = c
      BY <1>2
  <2> QED
      BY <2>1 DEF Held
<1> QED
    BY <1>1, <1>2 DEF Held

LEMMA IngestHolds ==
    ASSUME ChainBody, Cells \subseteq Held, Ingest
    PROVE  (Cells \subseteq Held)'
<1>1. /\ UNCHANGED <<mode, combining, combQ, active, writing, published>>
      /\ absent \subseteq absent' /\ lost \subseteq lost'
    BY DEF Ingest, TakeTask, PutRaw, FindAbsent, FailFetch, Fault, Lose, back, store, main, past0
<1>2. CASE TakeTask
  <2>1. tasks \in Seq(Tasks) /\ tasks # <<>> /\ tasks' = Tail(tasks) /\ UNCHANGED rawQ /\ mode = "publish"
      BY <1>2 DEF TakeTask, ChainBody, QueueTypes
  <2>2. ToSet(tasks) = {Head(tasks)} \cup ToSet(tasks') /\ Head(tasks) \in Tasks
      BY <2>1, Taken
  <2>3. Head(tasks) # None
      BY <2>2, NoneIsNoTask
  <2>4. \/ Head(tasks).cell \in published \cup absent /\ reading' = reading
        \/ reading' = reading \cup {Head(tasks)}
      BY <1>2, <2>1 DEF TakeTask, AlreadyDone, StoreHit
  <2>5. \A t \in Bearers : t \in Bearers' \/ t.cell \in published' \cup absent'
      BY <1>1, <2>1, <2>2, <2>3, <2>4 DEF Bearers, Upstream
  <2> QED
      BY <1>1, <2>5, HeldFrame
<1>3. ASSUME NEW t \in reading, PutRaw(t) PROVE (Cells \subseteq Held)'
  <2>1. rawQ \in Seq(Bundles) /\ t \in Bundles /\ t # None
      BY NoneIsNoTask DEF ChainBody, QueueTypes
  <2>2. reading' = reading \ {t} /\ UNCHANGED tasks /\ ToSet(rawQ') = ToSet(rawQ) \cup {t}
      BY <1>3, <2>1, Appended DEF PutRaw
  <2>3. \A u \in Bearers : u \in Bearers'
      BY <1>1, <2>1, <2>2 DEF Bearers, Upstream
  <2> QED
      BY <1>1, <2>3, HeldFrame
<1>4. ASSUME NEW t \in reading, FindAbsent(t) \/ FailFetch(t) PROVE (Cells \subseteq Held)'
  <2>1. reading' = reading \ {t} /\ UNCHANGED <<tasks, rawQ>> /\ t.cell \in absent' \cup lost'
      BY <1>4 DEF FindAbsent, FailFetch, Lose, ChainBody
  <2>2. \A u \in Bearers : u \in Bearers' \/ u.cell \in absent' \cup lost'
      BY <1>1, <2>1 DEF Bearers, Upstream
  <2> QED
      BY <1>1, <2>2, HeldFrame
<1> QED
    BY <1>2, <1>3, <1>4 DEF Ingest

LEMMA CombineHolds ==
    ASSUME ChainBody, Cells \subseteq Held, Combine
    PROVE  (Cells \subseteq Held)'
<1>1. UNCHANGED <<mode, tasks, reading, active, writing, published, absent>> /\ lost \subseteq lost'
    BY DEF Combine, TakeRaw, PutCombined, FailCombine, ForwardSentinel, Lose, back, store, past0
<1>2. rawQ \in Seq(Bundles) /\ combQ \in Seq(Bundles) /\ None \in Bundles
    BY DEF ChainBody, QueueTypes, Bundles
<1>3. CASE TakeRaw
  <2>1. ToSet(rawQ) = {Head(rawQ)} \cup ToSet(rawQ')
      BY <1>2, <1>3, Taken DEF TakeRaw
  <2>2. UNCHANGED combQ /\ (Head(rawQ) = None \/ combining' = combining \cup {Head(rawQ)})
        /\ combining \subseteq combining'
      BY <1>3 DEF TakeRaw
  <2>3. \A u \in Bearers : u \in Bearers'
      BY <1>1, <2>1, <2>2 DEF Bearers, Upstream
  <2> QED
      BY <1>1, <2>3, HeldFrame
<1>4. CASE ForwardSentinel
  <2>1. UNCHANGED <<rawQ, combining>> /\ ToSet(combQ') = ToSet(combQ) \cup {None}
      BY <1>2, <1>4, Appended DEF ForwardSentinel
  <2>2. \A u \in Bearers : u \in Bearers'
      BY <1>1, <2>1 DEF Bearers, Upstream
  <2> QED
      BY <1>1, <2>2, HeldFrame
<1>5. ASSUME NEW t \in combining, PutCombined(t) PROVE (Cells \subseteq Held)'
  <2>1. t \in Bundles /\ t # None
      BY NoneIsNoTask DEF ChainBody, QueueTypes
  <2>2. combining' = combining \ {t} /\ UNCHANGED rawQ /\ ToSet(combQ') = ToSet(combQ) \cup {t}
      BY <1>2, <1>5, <2>1, Appended DEF PutCombined
  <2>3. \A u \in Bearers : u \in Bearers'
      BY <1>1, <2>1, <2>2 DEF Bearers, Upstream
  <2> QED
      BY <1>1, <2>3, HeldFrame
<1>6. ASSUME NEW t \in combining, FailCombine(t) PROVE (Cells \subseteq Held)'
  <2>1. combining' = combining \ {t} /\ UNCHANGED <<rawQ, combQ>> /\ t.cell \in lost'
      BY <1>6 DEF FailCombine, Lose
  <2>2. \A u \in Bearers : u \in Bearers' \/ u.cell \in lost'
      BY <1>1, <2>1 DEF Bearers, Upstream
  <2> QED
      BY <1>1, <2>2, HeldFrame
<1> QED
    BY <1>3, <1>4, <1>5, <1>6 DEF Combine

LEMMA CoordinateHolds ==
    ASSUME ChainBody, Cells \subseteq Held, Coordinate \/ BreakPool
    PROVE  (Cells \subseteq Held)'
<1>1. UNCHANGED <<mode, tasks, reading, rawQ, combining, absent>> /\ published \subseteq published' /\ lost \subseteq lost'
    BY DEF Coordinate, Flush, Collect, Publish, TakeCombined, GiveUpFuture, GiveUpResults,
       EndCoordinator,
           WriteBandCells, BreakPool, Lose, front, store, past0
<1>2. CASE Flush \/ GiveUpResults \/ EndCoordinator \/ BreakPool
  <2>1. UNCHANGED <<combQ, active, writing>>
      BY <1>2 DEF Flush, GiveUpResults, EndCoordinator, BreakPool, front, back
  <2>2. \A u \in Bearers : u \in Bearers'
      BY <1>1, <2>1 DEF Bearers, Upstream
  <2> QED
      BY <1>1, <2>1, <2>2, HeldFrame
<1>3. ASSUME NEW t \in active, Collect(t) \/ GiveUpFuture(t) PROVE (Cells \subseteq Held)'
  <2>1. /\ active' = active \ {t} /\ UNCHANGED combQ /\ writing \subseteq writing'
        /\ t.cell \in writing' \cup lost'
      BY <1>3 DEF Collect, Publish, GiveUpFuture, Lose, ChainBody, front
  <2>2. \A u \in Bearers : u \in Bearers' \/ u.cell \in writing' \cup lost'
      BY <1>1, <2>1 DEF Bearers, Upstream
  <2> QED
      BY <1>1, <2>1, <2>2, HeldFrame
<1>4. ASSUME NEW c \in writing, WriteBandCells(c) PROVE (Cells \subseteq Held)'
  <2>1. /\ UNCHANGED <<combQ, active>> /\ writing' = writing \ {c} /\ c \in published' \cup lost'
      BY <1>4 DEF WriteBandCells, Lose, front
  <2>2. \A u \in Bearers : u \in Bearers'
      BY <1>1, <2>1 DEF Bearers, Upstream
  <2> QED
      BY <1>1, <2>1, <2>2, HeldFrame
<1>5. CASE TakeCombined
  <2>1. combQ \in Seq(Bundles) /\ combQ # <<>> /\ combQ' = Tail(combQ)
      BY <1>5 DEF TakeCombined, ChainBody, QueueTypes
  <2>2. ToSet(combQ) = {Head(combQ)} \cup ToSet(combQ')
      BY <2>1, Taken
  <2>3. /\ active \subseteq active' /\ writing \subseteq writing'
        /\ \/ Head(combQ) = None \/ Head(combQ) \in active'
           \/ Head(combQ).cell \in writing' \cup lost'
    <3>1. CASE Head(combQ) = None
      <4>1. ~ IsHit(None)
          BY DEF IsHit, None
      <4> QED
          BY <1>5, <3>1, <4>1 DEF TakeCombined
    <3>2. CASE Head(combQ) # None /\ IsHit(Head(combQ))
        BY <1>5, <3>2 DEF TakeCombined, Publish, Lose, ChainBody
    <3>3. CASE Head(combQ) # None /\ ~ IsHit(Head(combQ))
        BY <1>5, <3>3 DEF TakeCombined, Lose
    <3> QED
        BY <3>1, <3>2, <3>3
  <2>4. \A u \in Bearers : u \in Bearers' \/ u.cell \in writing' \cup lost'
      BY <1>1, <2>2, <2>3 DEF Bearers, Upstream
  <2> QED
      BY <1>1, <2>3, <2>4, HeldFrame
<1> QED
    BY <1>2, <1>3, <1>4, <1>5 DEF Coordinate

LEMMA WindDownHolds ==
    ASSUME ChainBody, Cells \subseteq Held, WindDown \/ Save \/ UNCHANGED vars
    PROVE  (Cells \subseteq Held)'
<1>1. UNCHANGED <<tasks, reading, combining, combQ, active, writing, published, absent, lost>>
    BY DEF WindDown, AwaitThreads, SendSentinel, EndResults, Report, OnlyPc, Save, vars, front, back,
       store
<1>2. ToSet(rawQ) \subseteq ToSet(rawQ') \cup {None}
  <2>1. CASE Report
      BY <2>1 DEF Report, Goto, ChainBody, MainInv, SentinelInv
  <2>2. CASE SendSentinel
    <3>1. rawQ \in Seq(Bundles) /\ None \in Bundles
        BY DEF ChainBody, QueueTypes, Bundles
    <3> QED
        BY <2>2, <3>1, Appended DEF SendSentinel
  <2> QED
      BY <2>1, <2>2 DEF WindDown, AwaitThreads, EndResults, OnlyPc, Save, vars, front
<1>3. \A u \in Bearers : u \in Bearers'
    BY <1>1, <1>2 DEF Bearers, Upstream
<1> QED
    BY <1>1, <1>3, HeldFrame

LEMMA NextHolds == ChainInv /\ HeldInv /\ [Next]_vars => HeldInv'
<1> SUFFICES ASSUME ChainInv, HeldInv, [Next]_vars, mode' = "publish" PROVE (Cells \subseteq Held)'
    BY DEF HeldInv
<1>1. mode' = mode
    BY ModeStays
<1>2. ChainBody /\ Cells \subseteq Held
    BY <1>1 DEF ChainInv, ChainBody, HeldInv
<1>3. ~ AssembleRows
    BY <1>2, OnlyPublishes
<1> QED
    BY <1>2, <1>3, IngestHolds, CombineHolds, CoordinateHolds, WindDownHolds DEF Next, Work

\* A run that only publishes and fails for missing cells names cells that a fault really
\* lost: every other cell is published or known to be absent from PS1 when main counts.
THEOREM FailureKeepsItsCause == Spec => []FailureHasCause
<1>1. ChainInv /\ HeldInv /\ NothingLeftBehind => FailureHasCause
  <2> SUFFICES ASSUME HeldInv, NothingLeftBehind, mode = "publish", pc = "failed", ~ Broken
               PROVE  Cells \ (published \cup absent) \subseteq lost
      BY DEF FailureHasCause
  <2> QED
      BY DEF HeldInv, Held, Bearers, NothingLeftBehind
<1>2. Init => HeldInv
  <2> SUFFICES ASSUME Init, mode = "publish" PROVE Cells \subseteq Held
      BY DEF HeldInv
  <2>1. tasks = PublishTasks
      BY DEF Init
  <2>2. PublishTasks \in Seq(Tasks) /\ \A c \in Cells : \E t \in ToSet(PublishTasks) : t.cell = c
      BY PublishTasksCover
  <2>3. ToSet(PublishTasks) \subseteq Tasks
      BY <2>2 DEF ToSet
  <2>4. ToSet(tasks) \subseteq Bearers
      BY <2>1, <2>3, NoneIsNoTask DEF Bearers, Upstream
  <2> QED
      BY <2>1, <2>2, <2>4 DEF Held
<1>3. Init => ChainInv
    BY InitChain
<1>4. Spec => []NothingLeftBehind
    BY NothingStaysBehind
<1> QED
    BY <1>1, <1>2, <1>3, <1>4, NextChain, NextHolds, PTL DEF Spec

(****************************************************************************)
(* The run that assembles rows                                              *)
(****************************************************************************)
\* Main is at its rows, and neither a timeout came early nor did the process pool break.
Looping == pc \in {"current", "next", "padding", "emit"}
Calm == past \cap {"slow", "pool"} = {}

\* What is where; the next row is gathered for a step that is not the last of its projection.
RowTypes ==
    /\ tasks \in Seq(Tasks) /\ reading \subseteq Tasks
    /\ rawQ \in Seq(Bundles)
    /\ combining \subseteq Tasks
    /\ combQ \in Seq(Bundles)
    /\ active \subseteq Tasks
    /\ pending \in Seq(Cells) /\ outQ \in Seq(Cells)
    /\ uses \in [Cells -> Nat]
    /\ pc \in {"current", "next", "padding", "emit", "end", "sentinels", "exit", "saver", "raise", "done",
               "failed"}
    /\ Looping => step \in Steps
    /\ pc = "next" => ~ LastOfProj(step)

\* While main assembles rows nobody has been told to stop.
FlowInv ==
    Looping => /\ coord = "loop" /\ sentinels = 0
               /\ None \notin ToSet(rawQ) \cup ToSet(combQ)

\* A bundle that brings a cell of a row, and the cells that the bundles of S bring so.
BringsRow(t) == t.kind \in {"regular", "regular_cache_hit"}
Cargo(S) == {t.cell : t \in {u \in S : BringsRow(u)}}

\* No two of them bring the same cell.
Single(S) == \A t, u \in S : BringsRow(t) /\ BringsRow(u) /\ t.cell = u.cell => t = u
SingleQ(q) ==
    \A i, j \in 1 .. Len(q) : BringsRow(q[i]) /\ BringsRow(q[j]) /\ q[i].cell = q[j].cell => i = j

\* The cells of rows that have passed each stage of the front.
Collected == Cargo(active) \cup ToSet(pending) \cup ToSet(outQ) \cup arrived
Combined == Cargo(ToSet(combQ)) \cup Collected
Fetched == Cargo(combining) \cup Combined
Read == Cargo(ToSet(rawQ)) \cup Fetched
Begun == Cargo(reading) \cup Read

\* A cell of a row is under way once only: no stage holds it twice, or together with
\* one behind it.
OnceInv ==
    /\ SingleQ(tasks) /\ Cargo(ToSet(tasks)) \cap Begun = {}
    /\ Single(reading) /\ Cargo(reading) \cap Read = {}
    /\ SingleQ(rawQ) /\ Cargo(ToSet(rawQ)) \cap Fetched = {}
    /\ Single(combining) /\ Cargo(combining) \cap Combined = {}
    /\ SingleQ(combQ) /\ Cargo(ToSet(combQ)) \cap Collected = {}

\* The cells of rows that are still to come down the front.
Coming == Cargo(Upstream)

\* What main has gathered for this step and the next is not to come any more.
GatheredInv ==
    /\ pc \in {"next", "padding", "emit"} => RowCells[Row] \cap Coming = {}
    /\ pc \in {"padding", "emit"} /\ ~ LastOfProj(step) => RowCells[RowSeq[step + 1]] \cap Coming = {}

\* The steps whose cells have not been counted as used, and what they owe a cell:
\* a use for every step it pads, and one for the row it belongs to.
Todo ==
    IF pc \in {"current", "next", "padding"} THEN {i \in Steps : i >= step}
    ELSE IF pc = "emit" THEN {i \in Steps : i > step} ELSE {}
PaddingTodo(c) == {i \in Todo : c \in Padding[RowSeq[i]]}
Owed(c) == IF c \in Coming \/ \E i \in Todo : c \in RowCells[RowSeq[i]] THEN 1 ELSE 0

\* A count never falls below the uses still to be made, so that a cell whose count has
\* come to nothing, and which a step evicts, is wanted by nobody.
CountInv ==
    \A c \in Cells :
        /\ uses[c] > 0 => PaddingSteps(c) # 0
        /\ PaddingSteps(c) # 0 => uses[c] >= Cardinality(PaddingTodo(c)) + Owed(c)

HitInv == \A t \in Upstream : IsHit(t) => t.cell \in cache

\* A cell of a row is somewhere between the task list and main, or there is a reason.
RowKept == \A c \in Regular : c \in Coming \cup Collected \cup lost \/ c \notin archive

\* So is the padding of every step to come: under way or in the cache.
PaddingKept ==
    \A i \in Todo : \A c \in Padding[RowSeq[i]] :
        \/ \E t \in Upstream \cup active : t.cell = c /\ t.kind = "padding_source"
        \/ c \in cache \cup lost \/ c \notin archive

ManualInv == manual \subseteq lost \cup (Cells \ archive)

(****************************************************************************)
(* Bundles that are under way once                                          *)
(****************************************************************************)
LEMMA NothingCarried == Cargo({}) = {} /\ Single({}) /\ SingleQ(<<>>)
<1>1. Len(<<>>) = 0
    OBVIOUS
<1> QED
    BY <1>1 DEF Cargo, Single, SingleQ

LEMMA CargoUnion ==
    ASSUME NEW S, NEW T
    PROVE  Cargo(S \cup T) = Cargo(S) \cup Cargo(T)
BY DEF Cargo

LEMMA CargoSubset ==
    ASSUME NEW S, NEW T, S \subseteq T
    PROVE  Cargo(S) \subseteq Cargo(T)
BY DEF Cargo

LEMMA CargoOfCells ==
    ASSUME NEW S, S \subseteq Bundles
    PROVE  Cargo(S) \subseteq Cells
BY DEF Cargo, Bundles, Tasks, BringsRow, None

\* Taking a bundle out of a set takes its cell out of the cargo.
LEMMA CargoRemoved ==
    ASSUME NEW S, NEW t \in S, Single(S)
    PROVE  /\ Single(S \ {t})
           /\ Cargo(S) = Cargo({t}) \cup Cargo(S \ {t})
           /\ Cargo({t}) \cap Cargo(S \ {t}) = {}
<1>1. Single(S \ {t})
    BY DEF Single
<1>2. Cargo(S) = Cargo({t}) \cup Cargo(S \ {t})
  <2>1. S = {t} \cup (S \ {t})
      OBVIOUS
  <2> QED
      BY <2>1, CargoUnion
<1>3. Cargo({t}) \cap Cargo(S \ {t}) = {}
    BY DEF Single, Cargo
<1> QED
    BY <1>1, <1>2, <1>3

LEMMA CargoAdded ==
    ASSUME NEW S, NEW t, Single(S), Cargo({t}) \cap Cargo(S) = {}
    PROVE  Single(S \cup {t}) /\ Cargo(S \cup {t}) = Cargo(S) \cup Cargo({t})
<1>1. Single(S \cup {t})
  <2> SUFFICES ASSUME NEW u \in S \cup {t}, NEW v \in S \cup {t},
                      BringsRow(u), BringsRow(v), u.cell = v.cell
               PROVE  u = v
      BY DEF Single
  <2>1. CASE u \in S /\ v \in S
      BY <2>1 DEF Single
  <2>2. ASSUME NEW w \in S, BringsRow(w), BringsRow(t), w.cell = t.cell PROVE FALSE
    <3>1. w.cell \in Cargo(S)
        BY <2>2 DEF Cargo
    <3>2. t.cell \in Cargo({t})
        BY <2>2 DEF Cargo
    <3> QED
        BY <2>2, <3>1, <3>2
  <2> QED
      BY <2>1, <2>2
<1> QED
    BY <1>1, CargoUnion

\* The same of a queue, at its two ends.
LEMMA CargoTaken ==
    ASSUME NEW S, NEW q \in Seq(S), q # <<>>, SingleQ(q)
    PROVE  /\ SingleQ(Tail(q))
           /\ Cargo(ToSet(q)) = Cargo({Head(q)}) \cup Cargo(ToSet(Tail(q)))
           /\ Cargo({Head(q)}) \cap Cargo(ToSet(Tail(q))) = {}
<1>1. /\ Tail(q) \in Seq(S) /\ Head(q) = q[1]
      /\ Len(q) \in Nat \ {0} /\ Len(Tail(q)) = Len(q) - 1
      /\ \A i \in 1 .. Len(q) - 1 : Tail(q)[i] = q[i + 1]
      /\ ToSet(q) = {Head(q)} \cup ToSet(Tail(q))
    BY Taken
<1>2. SingleQ(Tail(q))
  <2> SUFFICES ASSUME NEW i \in 1 .. Len(q) - 1, NEW j \in 1 .. Len(q) - 1,
                      BringsRow(Tail(q)[i]), BringsRow(Tail(q)[j]), Tail(q)[i].cell = Tail(q)[j].cell
               PROVE  i = j
      BY <1>1 DEF SingleQ
  <2>1. i + 1 \in 1 .. Len(q) /\ j + 1 \in 1 .. Len(q)
      BY <1>1
  <2>2. Tail(q)[i] = q[i + 1] /\ Tail(q)[j] = q[j + 1]
      BY <1>1
  <2>3. i + 1 = j + 1
      BY <2>1, <2>2 DEF SingleQ
  <2> QED
      BY <2>3
<1>3. Cargo({Head(q)}) \cap Cargo(ToSet(Tail(q))) = {}
  <2> SUFFICES ASSUME NEW t \in ToSet(Tail(q)), BringsRow(t), BringsRow(Head(q)), t.cell = Head(q).cell
               PROVE  FALSE
      BY DEF Cargo
  <2>1. DOMAIN Tail(q) = 1 .. Len(q) - 1
      BY <1>1
  <2>2. PICK i \in 1 .. Len(q) - 1 : t = Tail(q)[i]
      BY <2>1 DEF ToSet
  <2>3. t = q[i + 1] /\ i + 1 \in 1 .. Len(q) /\ 1 \in 1 .. Len(q)
      BY <1>1, <2>2
  <2>4. i + 1 = 1
      BY <1>1, <2>3 DEF SingleQ
  <2> QED
      BY <2>4
<1> QED
    BY <1>1, <1>2, <1>3, CargoUnion

LEMMA CargoAppended ==
    ASSUME NEW S, NEW q \in Seq(S), NEW t \in S, SingleQ(q), Cargo({t}) \cap Cargo(ToSet(q)) = {}
    PROVE  SingleQ(Append(q, t)) /\ Cargo(ToSet(Append(q, t))) = Cargo(ToSet(q)) \cup Cargo({t})
<1>1. /\ Append(q, t) \in Seq(S)
      /\ Len(q) \in Nat /\ Len(Append(q, t)) = Len(q) + 1
      /\ \A i \in 1 .. Len(q) : Append(q, t)[i] = q[i]
      /\ Append(q, t)[Len(q) + 1] = t
      /\ ToSet(Append(q, t)) = ToSet(q) \cup {t}
    BY Appended
<1>2. ASSUME NEW i \in 1 .. Len(q), BringsRow(q[i]), BringsRow(t), q[i].cell = t.cell PROVE FALSE
  <2>1. DOMAIN q = 1 .. Len(q)
      BY <1>1
  <2>2. q[i] \in ToSet(q)
      BY <2>1 DEF ToSet
  <2>3. q[i].cell \in Cargo(ToSet(q)) /\ t.cell \in Cargo({t})
      BY <1>2, <2>2 DEF Cargo
  <2> QED
      BY <1>2, <2>3
<1>3. SingleQ(Append(q, t))
  <2> SUFFICES ASSUME NEW i \in 1 .. Len(q) + 1, NEW j \in 1 .. Len(q) + 1,
                      BringsRow(Append(q, t)[i]), BringsRow(Append(q, t)[j]),
                      Append(q, t)[i].cell = Append(q, t)[j].cell
               PROVE  i = j
      BY <1>1 DEF SingleQ
  <2>1. CASE i \in 1 .. Len(q) /\ j \in 1 .. Len(q)
      BY <1>1, <2>1 DEF SingleQ
  <2>2. CASE i = Len(q) + 1 /\ j \in 1 .. Len(q)
      BY <1>1, <1>2, <2>2
  <2>3. CASE i \in 1 .. Len(q) /\ j = Len(q) + 1
      BY <1>1, <1>2, <2>3
  <2>4. CASE i = Len(q) + 1 /\ j = Len(q) + 1
      BY <2>4
  <2> QED
      BY <1>1, <2>1, <2>2, <2>3, <2>4
<1> QED
    BY <1>1, <1>3, CargoUnion

LEMMA CargoJoined ==
    ASSUME NEW S, NEW p \in Seq(S), NEW q \in Seq(S),
           SingleQ(p), SingleQ(q), Cargo(ToSet(p)) \cap Cargo(ToSet(q)) = {}
    PROVE  SingleQ(p \o q) /\ Cargo(ToSet(p \o q)) = Cargo(ToSet(p)) \cup Cargo(ToSet(q))
<1>1. /\ Len(p) \in Nat /\ Len(q) \in Nat /\ Len(p \o q) = Len(p) + Len(q)
      /\ \A i \in 1 .. Len(p) : (p \o q)[i] = p[i]
      /\ \A i \in 1 .. Len(p) + Len(q) :
            i \notin 1 .. Len(p) => i - Len(p) \in 1 .. Len(q) /\ (p \o q)[i] = q[i - Len(p)]
    OBVIOUS
<1>2. ASSUME NEW i \in 1 .. Len(p), NEW j \in 1 .. Len(q),
             BringsRow(p[i]), BringsRow(q[j]), p[i].cell = q[j].cell
      PROVE  FALSE
  <2>1. DOMAIN p = 1 .. Len(p) /\ DOMAIN q = 1 .. Len(q)
      OBVIOUS
  <2>2. p[i] \in ToSet(p) /\ q[j] \in ToSet(q)
      BY <2>1 DEF ToSet
  <2>3. p[i].cell \in Cargo(ToSet(p)) /\ q[j].cell \in Cargo(ToSet(q))
      BY <1>2, <2>2 DEF Cargo
  <2> QED
      BY <1>2, <2>3
<1>3. SingleQ(p \o q)
  <2> SUFFICES ASSUME NEW i \in 1 .. Len(p) + Len(q), NEW j \in 1 .. Len(p) + Len(q),
                      BringsRow((p \o q)[i]), BringsRow((p \o q)[j]), (p \o q)[i].cell = (p \o q)[j].cell
               PROVE  i = j
      BY <1>1 DEF SingleQ
  <2>1. CASE i \in 1 .. Len(p) /\ j \in 1 .. Len(p)
      BY <1>1, <2>1 DEF SingleQ
  <2>2. CASE i \notin 1 .. Len(p) /\ j \in 1 .. Len(p)
      BY <1>1, <1>2, <2>2
  <2>3. CASE i \in 1 .. Len(p) /\ j \notin 1 .. Len(p)
      BY <1>1, <1>2, <2>3
  <2>4. CASE i \notin 1 .. Len(p) /\ j \notin 1 .. Len(p)
    <3>1. i - Len(p) \in 1 .. Len(q) /\ j - Len(p) \in 1 .. Len(q)
        BY <1>1, <2>4
    <3>2. i - Len(p) = j - Len(p)
        BY <1>1, <2>4, <3>1, SMTT(30) DEF SingleQ
    <3> QED
        BY <1>1, <3>2
  <2> QED
      BY <2>1, <2>2, <2>3, <2>4
<1>4. ToSet(p \o q) = ToSet(p) \cup ToSet(q)
    BY Concatenated
<1> QED
    BY <1>3, <1>4, CargoUnion

(****************************************************************************)
(* Types of the run that assembles rows                                     *)
(****************************************************************************)
LEMMA Retagged == \A t \in Tasks : [t EXCEPT !.kind = "regular_cache_hit"] \in Tasks
BY DEF Tasks, Kinds

LEMMA IngestTypes ==
    ASSUME mode = "rows", RowTypes, Ingest
    PROVE  RowTypes' /\ mode' = mode
<1>1. UNCHANGED <<mode, combining, combQ, active, pending, outQ, uses, pc, step>>
    BY DEF Ingest, TakeTask, PutRaw, FindAbsent, FailFetch, back, main, past0, store
<1>2. tasks \in Seq(Tasks) /\ reading \subseteq Tasks /\ rawQ \in Seq(Bundles)
    BY DEF RowTypes
<1>3. tasks' \in Seq(Tasks) /\ reading' \subseteq Tasks /\ rawQ' \in Seq(Bundles)
  <2>1. CASE TakeTask
    <3>1. tasks # <<>> /\ tasks' = Tail(tasks) /\ UNCHANGED rawQ
        BY <2>1 DEF TakeTask
    <3>2. tasks' \in Seq(Tasks) /\ Head(tasks) \in Tasks
        BY <1>2, <3>1, Taken
    <3>3. reading' \subseteq reading \cup {Head(tasks), [Head(tasks) EXCEPT !.kind = "regular_cache_hit"]}
        BY <2>1 DEF TakeTask
    <3> QED
        BY <1>2, <3>1, <3>2, <3>3, Retagged
  <2>2. ASSUME NEW t \in reading, PutRaw(t)
        PROVE  tasks' \in Seq(Tasks) /\ reading' \subseteq Tasks /\ rawQ' \in Seq(Bundles)
    <3>1. UNCHANGED tasks /\ reading' = reading \ {t} /\ rawQ' = Append(rawQ, t)
        BY <2>2 DEF PutRaw
    <3>2. t \in Bundles
        BY <1>2, NoneIsNoTask
    <3> QED
        BY <1>2, <3>1, <3>2, Appended
  <2>3. ASSUME NEW t \in reading, FindAbsent(t) \/ FailFetch(t)
        PROVE  tasks' \in Seq(Tasks) /\ reading' \subseteq Tasks /\ rawQ' \in Seq(Bundles)
      BY <1>2, <2>3 DEF FindAbsent, FailFetch
  <2> QED
      BY <2>1, <2>2, <2>3 DEF Ingest
<1>4. UNCHANGED <<Looping, LastOfProj(step)>>
    BY <1>1 DEF Looping
<1> QED
    BY <1>1, <1>3, <1>4 DEF RowTypes

LEMMA CombineTypes ==
    ASSUME mode = "rows", RowTypes, Combine
    PROVE  RowTypes' /\ mode' = mode
<1>1. UNCHANGED <<mode, tasks, reading, active, pending, outQ, uses, pc, step>>
    BY DEF Combine, TakeRaw, ForwardSentinel, PutCombined, FailCombine, back, main, past0, store
<1>2. rawQ \in Seq(Bundles) /\ combining \subseteq Tasks /\ combQ \in Seq(Bundles)
    BY DEF RowTypes
<1>3. rawQ' \in Seq(Bundles) /\ combining' \subseteq Tasks /\ combQ' \in Seq(Bundles)
  <2>1. CASE TakeRaw
    <3>1. rawQ # <<>> /\ rawQ' = Tail(rawQ) /\ UNCHANGED combQ
        BY <2>1 DEF TakeRaw
    <3>2. rawQ' \in Seq(Bundles) /\ Head(rawQ) \in Bundles
        BY <1>2, <3>1, Taken
    <3>3. combining' = combining \/ (Head(rawQ) # None /\ combining' = combining \cup {Head(rawQ)})
        BY <2>1 DEF TakeRaw
    <3> QED
        BY <1>2, <3>1, <3>2, <3>3 DEF Bundles
  <2>2. CASE ForwardSentinel
    <3>1. None \in Bundles
        BY DEF Bundles
    <3> QED
        BY <1>2, <2>2, <3>1, Appended DEF ForwardSentinel
  <2>3. ASSUME NEW t \in combining, PutCombined(t)
        PROVE  rawQ' \in Seq(Bundles) /\ combining' \subseteq Tasks /\ combQ' \in Seq(Bundles)
    <3>1. t \in Bundles
        BY <1>2, NoneIsNoTask
    <3> QED
        BY <1>2, <2>3, <3>1, Appended DEF PutCombined
  <2>4. ASSUME NEW t \in combining, FailCombine(t)
        PROVE  rawQ' \in Seq(Bundles) /\ combining' \subseteq Tasks /\ combQ' \in Seq(Bundles)
      BY <1>2, <2>4 DEF FailCombine
  <2> QED
      BY <2>1, <2>2, <2>3, <2>4 DEF Combine
<1>4. UNCHANGED <<Looping, LastOfProj(step)>>
    BY <1>1 DEF Looping
<1> QED
    BY <1>1, <1>3, <1>4 DEF RowTypes

\* What the coordinator keeps of a result.
LEMMA KeepTypes ==
    ASSUME NEW t \in Tasks, pending \in Seq(Cells), Keep(t)
    PROVE  pending' \in Seq(Cells) /\ ToSet(pending') \subseteq ToSet(pending) \cup {t.cell}
<1>1. t.cell \in Cells
    BY DEF Tasks
<1>2. pending' = pending \/ pending' = Append(pending, t.cell)
    BY DEF Keep
<1>3. /\ Append(pending, t.cell) \in Seq(Cells)
      /\ ToSet(Append(pending, t.cell)) = ToSet(pending) \cup {t.cell}
    BY <1>1, Appended
<1> QED
    BY <1>2, <1>3

LEMMA CoordinateTypes ==
    ASSUME mode = "rows", RowTypes, Coordinate \/ BreakPool
    PROVE  RowTypes' /\ mode' = mode
<1>1. UNCHANGED <<mode, tasks, reading, rawQ, combining, uses, pc, step>>
    BY DEF Coordinate, Flush, Collect, Publish, TakeCombined, GiveUpFuture, GiveUpResults,
       EndCoordinator, WriteBandCells, BreakPool, Fault, front, main, past0, store
<1>2. combQ \in Seq(Bundles) /\ active \subseteq Tasks /\ pending \in Seq(Cells) /\ outQ \in Seq(Cells)
    BY DEF RowTypes
<1> DEFINE Good == /\ combQ' \in Seq(Bundles) /\ active' \subseteq Tasks
                   /\ pending' \in Seq(Cells) /\ outQ' \in Seq(Cells)
<1>3. Good
  <2>1. CASE Flush
    <3>1. /\ pending # <<>> /\ pending' = Tail(pending) /\ outQ' = Append(outQ, Head(pending))
          /\ UNCHANGED <<combQ, active>>
        BY <2>1 DEF Flush, front
    <3>2. pending' \in Seq(Cells) /\ Head(pending) \in Cells
        BY <1>2, <3>1, Taken
    <3> QED
        BY <1>2, <3>1, <3>2, Appended
  <2>2. CASE TakeCombined
    <3>1. combQ # <<>> /\ combQ' = Tail(combQ) /\ UNCHANGED outQ
        BY <2>2 DEF TakeCombined
    <3>2. combQ' \in Seq(Bundles) /\ Head(combQ) \in Bundles
        BY <1>2, <3>1, Taken
    <3>3. CASE Head(combQ) = None
      <4>1. ~ IsHit(None)
          BY DEF IsHit, None
      <4>2. UNCHANGED <<active, pending>>
          BY <2>2, <3>3, <4>1 DEF TakeCombined
      <4> QED
          BY <1>2, <3>1, <3>2, <4>2
    <3>4. CASE Head(combQ) # None
      <4>1. Head(combQ) \in Tasks
          BY <3>2, <3>4 DEF Bundles
      <4>2. UNCHANGED active \/ active' = active \cup {Head(combQ)}
          BY <2>2, <3>4 DEF TakeCombined
      <4>3. UNCHANGED pending \/ Keep(Head(combQ))
          BY <2>2, <3>4 DEF TakeCombined
      <4> QED
          BY <1>2, <3>1, <3>2, <4>1, <4>2, <4>3, KeepTypes
    <3> QED
        BY <3>3, <3>4
  <2>3. ASSUME NEW t \in active, Collect(t) PROVE Good
    <3>1. UNCHANGED <<combQ, outQ>> /\ active' = active \ {t} /\ (UNCHANGED pending \/ Keep(t))
        BY <2>3 DEF Collect, front
    <3> QED
        BY <1>2, <3>1, KeepTypes
  <2>4. CASE GiveUpResults
      BY <1>2, <2>4, EmptyQueue DEF GiveUpResults, front
  <2>5. ASSUME NEW t \in active, GiveUpFuture(t) PROVE Good
      BY <1>2, <2>5 DEF GiveUpFuture, front
  <2>6. ASSUME NEW c \in writing, WriteBandCells(c) PROVE Good
      BY <1>2, <2>6 DEF WriteBandCells, front
  <2>7. CASE EndCoordinator \/ BreakPool
      BY <1>2, <2>7 DEF EndCoordinator, BreakPool, front, back
  <2> QED
      BY <2>1, <2>2, <2>3, <2>4, <2>5, <2>6, <2>7 DEF Coordinate
<1>4. UNCHANGED <<Looping, LastOfProj(step)>>
    BY <1>1 DEF Looping
<1> QED
    BY <1>1, <1>3, <1>4 DEF RowTypes

\* Where FailRow goes on.
LEMMA NextProjection ==
    ASSUME NEW others, others \in SUBSET Steps, others # {}
    PROVE  /\ (CHOOSE i \in others : \A j \in others : i <= j) \in others
           /\ \A j \in others : (CHOOSE i \in others : \A j2 \in others : i <= j2) <= j
<1>1. others \in SUBSET Nat
    BY RowList
<1>2. \E i \in others : \A j \in others : i <= j
    BY <1>1, LeastNumber
<1> QED
    BY <1>2

LEMMA AssembleTypes ==
    ASSUME mode = "rows", RowTypes, AssembleRows
    PROVE  RowTypes' /\ mode' = mode
<1>1. UNCHANGED <<mode, tasks, reading, rawQ, combining, combQ, active, pending>>
    BY DEF AssembleRows, Receive, Gathered, GatherTimesOut, PaddingReady, PaddingTimesOut, FailRow,
       Emit, front, back, past0
<1>2. /\ Looping /\ step \in Steps /\ outQ \in Seq(Cells) /\ uses \in [Cells -> Nat]
      /\ pc = "next" => ~ LastOfProj(step)
    BY DEF AssembleRows, Receive, Drains, Gathering, Gathered, GatherTimesOut, PaddingReady,
       PaddingTimesOut, FailRow, Emit, Looping, RowTypes
<1> DEFINE Pcs == {"current", "next", "padding", "emit", "end", "raise"}
           Good == /\ outQ' \in Seq(Cells) /\ uses' \in [Cells -> Nat] /\ pc' \in Pcs
                   /\ pc' \notin {"end", "raise"} => step' \in Steps
                   /\ pc' = "next" => ~ LastOfProj(step')
<1>3. Good
  <2>1. CASE Receive
    <3>1. outQ # <<>> /\ outQ' = Tail(outQ) /\ UNCHANGED <<uses, pc, step>>
        BY <2>1 DEF Receive, store
    <3> QED
        BY <1>2, <3>1, Taken DEF Looping
  <2>2. ASSUME NEW cells, AssembleRow(cells), UNCHANGED <<uses, step>>, outQ' \in {outQ, <<>>} PROVE Good
      BY <1>2, <2>2, EmptyQueue DEF AssembleRow
  <2>3. CASE Gathered
      BY <2>2, <2>3 DEF Gathered, store, back
  <2>4. CASE GatherTimesOut
      BY <2>2, <2>4 DEF GatherTimesOut, store
  <2>5. ASSUME NEW cached, ApplyPadding(cached), UNCHANGED <<outQ, step>> PROVE Good
    <3>1. \A c \in Consumed : uses[c] > 0
        BY DEF Consumed
    <3>2. uses' \in [Cells -> Nat]
        BY <1>2, <2>5, <3>1 DEF ApplyPadding
    <3> QED
        BY <1>2, <2>5, <3>2 DEF ApplyPadding
  <2>6. CASE PaddingReady
      BY <2>5, <2>6 DEF PaddingReady, back
  <2>7. CASE PaddingTimesOut
      BY <2>5, <2>7 DEF PaddingTimesOut, back
  <2>8. CASE FailRow
    <3> DEFINE others == {i \in Steps : i > step /\ ~SameProj(i, step)}
    <3>1. UNCHANGED <<outQ, uses>>
        BY <2>8 DEF FailRow, back, store
    <3>2. \/ pc' \in {"end", "raise"}
          \/ others # {} /\ pc' = "current" /\ step' = CHOOSE i \in others : \A j \in others : i <= j
        BY <2>8 DEF FailRow
    <3>3. others \in SUBSET Steps
        OBVIOUS
    <3> HIDE DEF others
    <3>4. pc' \in {"end", "raise"} \/ (pc' = "current" /\ step' \in Steps)
        BY <3>2, <3>3, NextProjection
    <3> QED
        BY <1>2, <3>1, <3>4
  <2>9. CASE Emit
    <3>1. UNCHANGED <<outQ, uses>>
        BY <2>9 DEF Emit, back, store
    <3>2. CASE step = Len(RowSeq)
        BY <1>2, <2>9, <3>1, <3>2 DEF Emit
    <3>3. CASE step # Len(RowSeq)
      <4>1. /\ step' = step + 1
            /\ pc' \in {"current", "padding", "next"}
            /\ pc' = "next" => ~ LastOfProj(step + 1)
        <5>1. CASE LastOfProj(step)
            BY <2>9, <3>3, <5>1 DEF Emit
        <5>2. CASE ~ LastOfProj(step) /\ LastOfProj(step + 1)
            BY <2>9, <3>3, <5>2 DEF Emit
        <5>3. CASE ~ LastOfProj(step) /\ ~ LastOfProj(step + 1)
            BY <2>9, <3>3, <5>3 DEF Emit
        <5> QED
            BY <5>1, <5>2, <5>3
      <4>2. step + 1 \in Steps
          BY <1>2, <3>3, RowList
      <4> QED
          BY <1>2, <3>1, <4>1, <4>2
    <3> QED
        BY <3>2, <3>3
  <2> QED
      BY <2>1, <2>3, <2>4, <2>6, <2>7, <2>8, <2>9 DEF AssembleRows
<1> QED
    BY <1>1, <1>3 DEF RowTypes, Looping

LEMMA WindDownTypes ==
    ASSUME mode = "rows", RowTypes, WindDown \/ Save
    PROVE  RowTypes' /\ mode' = mode
<1>1. UNCHANGED <<mode, tasks, reading, combining, combQ, active, pending, outQ, uses, step>>
    BY DEF WindDown, AwaitThreads, SendSentinel, EndResults, Report, Save, OnlyPc, Goto, front, back,
       store, main, past0
<1>2. pc' \in {"sentinels", "exit", "saver", "done", "failed"} \/ UNCHANGED pc
    BY DEF WindDown, AwaitThreads, SendSentinel, EndResults, Report, Save, Goto, main, RowTypes
<1>3. rawQ' \in Seq(Bundles)
  <2>1. None \in Bundles /\ rawQ \in Seq(Bundles) /\ pc # "report"
      BY DEF Bundles, RowTypes
  <2>2. rawQ' = rawQ \/ rawQ' = Append(rawQ, None)
      BY <2>1 DEF WindDown, AwaitThreads, SendSentinel, EndResults, Report, Save, Goto, OnlyPc, front
  <2> QED
      BY <2>1, <2>2, Appended
<1> QED
    BY <1>1, <1>2, <1>3 DEF RowTypes, Looping

LEMMA TypesStay ==
    ASSUME mode = "rows", RowTypes, [Next]_vars
    PROVE  RowTypes' /\ mode' = mode
<1>1. CASE UNCHANGED vars
    BY <1>1 DEF vars, front, back, store, main, past0, RowTypes, Looping
<1> QED
    BY <1>1, IngestTypes, CombineTypes, CoordinateTypes, AssembleTypes, WindDownTypes DEF Next, Work

(****************************************************************************)
(* A cell of a row goes down the threads once                               *)
(****************************************************************************)
LEMMA SentinelCarriesNothing == Cargo({None}) = {} /\ None \in Bundles /\ ~ IsHit(None)
BY DEF Cargo, BringsRow, None, Bundles, IsHit

\* The bundles of the stages A to E, without the sentinels.
StagesOf(A, B, C, D, E) == (A \cup B \cup C \cup D \cup E) \ {None}

LEMMA CargoOfStages ==
    ASSUME NEW A, NEW B, NEW C, NEW D, NEW E
    PROVE  Cargo(StagesOf(A, B, C, D, E)) = Cargo(A) \cup Cargo(B) \cup Cargo(C) \cup Cargo(D) \cup Cargo(E)
<1> DEFINE S == A \cup B \cup C \cup D \cup E
<1>1. ~ BringsRow(None)
    BY DEF BringsRow, None
<1>2. Cargo(S \ {None}) = Cargo(S)
  <2> HIDE DEF S
  <2>1. {u \in S \ {None} : BringsRow(u)} = {u \in S : BringsRow(u)}
      BY <1>1
  <2> QED
      BY <2>1 DEF Cargo
<1>3. Cargo(S) = Cargo(A \cup B \cup C \cup D) \cup Cargo(E)
    BY ONLY CargoUnion DEF S
<1>4. Cargo(A \cup B \cup C \cup D) = Cargo(A \cup B \cup C) \cup Cargo(D)
    BY ONLY CargoUnion
<1>5. Cargo(A \cup B \cup C) = Cargo(A \cup B) \cup Cargo(C)
    BY ONLY CargoUnion
<1>6. Cargo(A \cup B) = Cargo(A) \cup Cargo(B)
    BY ONLY CargoUnion
<1>7. StagesOf(A, B, C, D, E) = S \ {None}
    BY DEF StagesOf
<1> HIDE DEF S
<1> QED
    BY ONLY <1>2, <1>3, <1>4, <1>5, <1>6, <1>7

LEMMA ComingBy ==
    /\ Coming = Cargo(ToSet(tasks)) \cup Cargo(reading) \cup Cargo(ToSet(rawQ)) \cup
         Cargo(combining) \cup Cargo(ToSet(combQ))
    /\ Coming' = Cargo(ToSet(tasks')) \cup Cargo(reading') \cup Cargo(ToSet(rawQ')) \cup
         Cargo(combining') \cup Cargo(ToSet(combQ'))
<1>1. /\ Coming = Cargo(StagesOf(ToSet(tasks), reading, ToSet(rawQ), combining, ToSet(combQ)))
      /\ Coming' = Cargo(StagesOf(ToSet(tasks'), reading', ToSet(rawQ'), combining', ToSet(combQ')))
    BY DEF Coming, Upstream, StagesOf
<1> QED
    BY ONLY <1>1, CargoOfStages

\* What a task brings down.
LEMMA CargoOfTask ==
    ASSUME NEW t \in Tasks
    PROVE  /\ Cargo({t}) = IF t.kind = "padding_source" THEN {} ELSE {t.cell}
           /\ t.kind = "regular" => Cargo({[t EXCEPT !.kind = "regular_cache_hit"]}) = {t.cell}
           /\ IsHit(t) => Cargo({t}) = {t.cell}
<1>1. t.kind \in Kinds
    BY DEF Tasks
<1>2. CASE t.kind = "padding_source"
    BY <1>2 DEF Cargo, BringsRow, IsHit
<1>3. CASE t.kind # "padding_source"
  <2>1. BringsRow(t)
      BY <1>1, <1>3 DEF Kinds, BringsRow
  <2>2. Cargo({t}) = {t.cell}
      BY <2>1 DEF Cargo
  <2>3. t.kind = "regular" => Cargo({[t EXCEPT !.kind = "regular_cache_hit"]}) = {t.cell}
    <3> DEFINE u == [t EXCEPT !.kind = "regular_cache_hit"]
    <3>1. u.kind = "regular_cache_hit" /\ u.cell = t.cell
        BY DEF Tasks
    <3> HIDE DEF u
    <3>2. Cargo({u}) = {t.cell}
        BY <3>1 DEF Cargo, BringsRow
    <3> QED
        BY <3>2 DEF u
  <2> QED
      BY <1>3, <2>2, <2>3
<1> QED
    BY <1>2, <1>3

\* The step drops no cell of a row but into lost, or because PS1 does not have it.
Accounted ==
    /\ Coming' \subseteq Coming
    /\ Collected \subseteq Collected' \cup lost'
    /\ Coming \subseteq Coming' \cup Collected' \cup lost' \cup (Cells \ archive)

\* Nothing moves in the front.
LEMMA BackMoves ==
    ASSUME OnceInv, UNCHANGED <<tasks, reading, rawQ, combining, combQ>>,
           Collected' \subseteq Collected, Collected \subseteq Collected' \cup lost'
    PROVE  OnceInv' /\ Accounted
<1>1. Coming' = Coming
    BY DEF Coming, Upstream
<1>2. OnceInv'
    BY DEF OnceInv, Begun, Read, Fetched, Combined
<1> QED
    BY <1>1, <1>2 DEF Accounted

LEMMA IngestMoves ==
    ASSUME mode = "rows", RowTypes, OnceInv, Ingest
    PROVE  OnceInv' /\ Accounted
<1>1. UNCHANGED <<combining, combQ, Collected, archive>>
    BY DEF Ingest, TakeTask, PutRaw, FindAbsent, FailFetch, back, main, past0, Collected
<1>2. tasks \in Seq(Tasks) /\ reading \subseteq Tasks /\ rawQ \in Seq(Bundles)
    BY DEF RowTypes
<1>3. /\ Coming = Cargo(ToSet(tasks)) \cup Cargo(reading) \cup Cargo(ToSet(rawQ)) \cup
           Cargo(combining) \cup Cargo(ToSet(combQ))
      /\ Coming' = Cargo(ToSet(tasks')) \cup Cargo(reading') \cup Cargo(ToSet(rawQ')) \cup
           Cargo(combining') \cup Cargo(ToSet(combQ'))
    BY ComingBy
<1>4. CASE TakeTask
  <2>1. tasks # <<>> /\ tasks' = Tail(tasks) /\ UNCHANGED rawQ
      BY <1>4 DEF TakeTask
  <2> DEFINE t == Head(tasks)
             hit == [t EXCEPT !.kind = "regular_cache_hit"]
  <2>2. t \in Tasks
      BY <1>2, <2>1, Taken
  <2>3. /\ SingleQ(tasks') /\ Cargo(ToSet(tasks)) = Cargo({t}) \cup Cargo(ToSet(tasks'))
        /\ Cargo({t}) \cap Cargo(ToSet(tasks')) = {}
      BY <1>2, <2>1, CargoTaken DEF OnceInv
  <2>4. PICK u : reading' = reading \cup {u} /\ Cargo({u}) = Cargo({t})
    <3>1. ~ AlreadyDone(t)
        BY DEF AlreadyDone
    <3>2. CASE StoreHit(t)
      <4>1. reading' = reading \cup {hit}
          BY <1>4, <3>1, <3>2 DEF TakeTask
      <4>2. t.kind = "regular"
          BY <3>2 DEF StoreHit
      <4>3. Cargo({hit}) = Cargo({t})
        <5> HIDE DEF t
        <5> QED
            BY <2>2, <4>2, CargoOfTask
      <4> HIDE DEF hit
      <4> QED
          BY <4>1, <4>3
    <3>3. CASE ~ StoreHit(t)
        BY <1>4, <3>1, <3>3 DEF TakeTask
    <3> QED
        BY <3>2, <3>3
  <2> HIDE DEF t, hit
  <2>5. Cargo({u}) \cap Cargo(reading) = {}
      BY <2>3, <2>4 DEF OnceInv, Begun
  <2>6. Single(reading') /\ Cargo(reading') = Cargo(reading) \cup Cargo({t})
      BY <2>4, <2>5, CargoAdded DEF OnceInv
  <2>7. OnceInv'
      BY <1>1, <2>1, <2>3, <2>6 DEF OnceInv, Begun, Read, Fetched, Combined
  <2>8. Coming' = Coming
      BY <1>1, <1>3, <2>1, <2>3, <2>6
  <2> QED
      BY <1>1, <2>7, <2>8 DEF Accounted
<1>5. ASSUME NEW t \in reading, PutRaw(t) PROVE OnceInv' /\ Accounted
  <2>1. reading' = reading \ {t} /\ rawQ' = Append(rawQ, t) /\ UNCHANGED tasks
      BY <1>5 DEF PutRaw
  <2>2. /\ Single(reading') /\ Cargo(reading) = Cargo({t}) \cup Cargo(reading')
        /\ Cargo({t}) \cap Cargo(reading') = {}
      BY <2>1, CargoRemoved DEF OnceInv
  <2>3. Cargo({t}) \cap Cargo(ToSet(rawQ)) = {} /\ t \in Bundles /\ rawQ \in Seq(Bundles)
      BY <1>2, <2>2 DEF OnceInv, Read, Bundles
  <2>4. SingleQ(rawQ') /\ Cargo(ToSet(rawQ')) = Cargo(ToSet(rawQ)) \cup Cargo({t})
    <3>1. SingleQ(rawQ)
        BY DEF OnceInv
    <3> QED
        BY ONLY <2>1, <2>3, <3>1, CargoAppended
  <2>5. OnceInv'
      BY <1>1, <2>1, <2>2, <2>4 DEF OnceInv, Begun, Read, Fetched, Combined
  <2>6. Coming' = Coming
      BY <1>1, <1>3, <2>1, <2>2, <2>4
  <2> QED
      BY <1>1, <2>5, <2>6 DEF Accounted
<1>6. ASSUME NEW t \in reading, FindAbsent(t) \/ FailFetch(t) PROVE OnceInv' /\ Accounted
  <2>1. reading' = reading \ {t} /\ UNCHANGED <<tasks, rawQ>> /\ (t.cell \in lost' \/ t.cell \notin archive)
      BY <1>6 DEF FindAbsent, FailFetch, Lose
  <2>2. /\ Single(reading') /\ Cargo(reading) = Cargo({t}) \cup Cargo(reading')
        /\ Cargo({t}) \cap Cargo(reading') = {}
      BY <2>1, CargoRemoved DEF OnceInv
  <2>3. t \in Tasks /\ t.cell \in Cells
      BY <1>2 DEF Tasks
  <2>4. Cargo({t}) \subseteq {t.cell}
      BY <2>3, CargoOfTask
  <2>5. OnceInv'
      BY <1>1, <2>1, <2>2 DEF OnceInv, Begun, Read, Fetched, Combined
  <2>6. Coming' \subseteq Coming /\ Coming \subseteq Coming' \cup {t.cell}
      BY <1>1, <1>3, <2>1, <2>2, <2>4
  <2>7. {t.cell} \subseteq lost' \cup (Cells \ archive)
      BY <2>1, <2>3
  <2> QED
      BY <1>1, <2>5, <2>6, <2>7 DEF Accounted
<1> QED
    BY <1>4, <1>5, <1>6 DEF Ingest

LEMMA CombineMoves ==
    ASSUME mode = "rows", RowTypes, OnceInv, Combine
    PROVE  OnceInv' /\ Accounted
<1>1. UNCHANGED <<tasks, reading, Collected, archive>>
    BY DEF Combine, TakeRaw, ForwardSentinel, PutCombined, FailCombine, back, main, past0, Collected
<1>2. rawQ \in Seq(Bundles) /\ combining \subseteq Tasks /\ combQ \in Seq(Bundles)
    BY DEF RowTypes
<1>3. /\ Coming = Cargo(ToSet(tasks)) \cup Cargo(reading) \cup Cargo(ToSet(rawQ)) \cup
           Cargo(combining) \cup Cargo(ToSet(combQ))
      /\ Coming' = Cargo(ToSet(tasks')) \cup Cargo(reading') \cup Cargo(ToSet(rawQ')) \cup
           Cargo(combining') \cup Cargo(ToSet(combQ'))
    BY ComingBy
<1>4. CASE TakeRaw
  <2>1. rawQ # <<>> /\ rawQ' = Tail(rawQ) /\ UNCHANGED combQ
      BY <1>4 DEF TakeRaw
  <2> DEFINE t == Head(rawQ)
  <2>2. /\ SingleQ(rawQ') /\ Cargo(ToSet(rawQ)) = Cargo({t}) \cup Cargo(ToSet(rawQ'))
        /\ Cargo({t}) \cap Cargo(ToSet(rawQ')) = {}
      BY <1>2, <2>1, CargoTaken DEF OnceInv
  <2>3. Single(combining') /\ Cargo(combining') = Cargo(combining) \cup Cargo({t})
    <3>1. CASE t = None
      <4>1. UNCHANGED combining /\ Cargo({t}) = {}
          BY <1>4, <3>1, SentinelCarriesNothing DEF TakeRaw
      <4> QED
          BY <4>1 DEF OnceInv
    <3>2. CASE t # None
      <4>1. combining' = combining \cup {t}
          BY <1>4, <3>2 DEF TakeRaw
      <4>2. Cargo({t}) \cap Cargo(combining) = {}
          BY <2>2 DEF OnceInv, Fetched
      <4> HIDE DEF t
      <4> QED
          BY <4>1, <4>2, CargoAdded DEF OnceInv
    <3> QED
        BY <3>1, <3>2
  <2> HIDE DEF t
  <2>4. OnceInv'
      BY <1>1, <2>1, <2>2, <2>3 DEF OnceInv, Begun, Read, Fetched, Combined
  <2>5. Coming' = Coming
      BY <1>1, <1>3, <2>1, <2>2, <2>3
  <2> QED
      BY <1>1, <2>4, <2>5 DEF Accounted
<1>5. CASE ForwardSentinel
  <2>1. combQ' = Append(combQ, None) /\ UNCHANGED <<rawQ, combining>>
      BY <1>5 DEF ForwardSentinel
  <2>2. SingleQ(combQ') /\ Cargo(ToSet(combQ')) = Cargo(ToSet(combQ)) \cup Cargo({None})
    <3>1. combQ \in Seq(Bundles) /\ None \in Bundles /\ Cargo({None}) \cap Cargo(ToSet(combQ)) = {}
        BY <1>2, SentinelCarriesNothing
    <3>2. SingleQ(combQ)
        BY DEF OnceInv
    <3> QED
        BY ONLY <2>1, <3>1, <3>2, CargoAppended, SMTT(30)
  <2>3. Cargo(ToSet(combQ')) = Cargo(ToSet(combQ))
      BY <2>2, SentinelCarriesNothing
  <2>4. OnceInv'
      BY <1>1, <2>1, <2>2, <2>3 DEF OnceInv, Begun, Read, Fetched, Combined
  <2>5. Coming' = Coming
      BY <1>1, <1>3, <2>1, <2>3
  <2> QED
      BY <1>1, <2>4, <2>5 DEF Accounted
<1>6. ASSUME NEW t \in combining, PutCombined(t) PROVE OnceInv' /\ Accounted
  <2>1. combining' = combining \ {t} /\ combQ' = Append(combQ, t) /\ UNCHANGED rawQ
      BY <1>6 DEF PutCombined
  <2>2. /\ Single(combining') /\ Cargo(combining) = Cargo({t}) \cup Cargo(combining')
        /\ Cargo({t}) \cap Cargo(combining') = {}
      BY <2>1, CargoRemoved DEF OnceInv
  <2>3. Cargo({t}) \cap Cargo(ToSet(combQ)) = {} /\ t \in Bundles /\ combQ \in Seq(Bundles)
      BY <1>2, <2>2 DEF OnceInv, Combined, Bundles
  <2>4. SingleQ(combQ') /\ Cargo(ToSet(combQ')) = Cargo(ToSet(combQ)) \cup Cargo({t})
    <3>1. SingleQ(combQ)
        BY DEF OnceInv
    <3> QED
        BY ONLY <2>1, <2>3, <3>1, CargoAppended
  <2>5. OnceInv'
      BY <1>1, <2>1, <2>2, <2>4 DEF OnceInv, Begun, Read, Fetched, Combined
  <2>6. Coming' = Coming
      BY <1>1, <1>3, <2>1, <2>2, <2>4
  <2> QED
      BY <1>1, <2>5, <2>6 DEF Accounted
<1>7. ASSUME NEW t \in combining, FailCombine(t) PROVE OnceInv' /\ Accounted
  <2>1. combining' = combining \ {t} /\ UNCHANGED <<rawQ, combQ>> /\ t.cell \in lost'
      BY <1>7 DEF FailCombine, Lose
  <2>2. /\ Single(combining') /\ Cargo(combining) = Cargo({t}) \cup Cargo(combining')
        /\ Cargo({t}) \cap Cargo(combining') = {}
      BY <2>1, CargoRemoved DEF OnceInv
  <2>3. Cargo({t}) \subseteq {t.cell}
      BY <1>2, CargoOfTask
  <2>4. OnceInv'
      BY <1>1, <2>1, <2>2 DEF OnceInv, Begun, Read, Fetched, Combined
  <2>5. Coming' \subseteq Coming /\ Coming \subseteq Coming' \cup {t.cell}
      BY <1>1, <1>3, <2>1, <2>2, <2>3
  <2> QED
      BY <1>1, <2>1, <2>4, <2>5 DEF Accounted
<1> QED
    BY <1>4, <1>5, <1>6, <1>7 DEF Combine

\* A bundle taken from the last queue of the front.
LEMMA LastMoves ==
    ASSUME RowTypes, OnceInv, UNCHANGED <<tasks, reading, rawQ, combining, archive>>,
           combQ # <<>>, combQ' = Tail(combQ),
           Collected \subseteq Collected', Collected' \subseteq Collected \cup Cargo({Head(combQ)}),
           Cargo({Head(combQ)}) \subseteq Collected' \cup lost'
    PROVE  OnceInv' /\ Accounted
<1> DEFINE X == Cargo({Head(combQ)})
<1>1. combQ \in Seq(Bundles)
    BY DEF RowTypes
<1>2. /\ SingleQ(combQ') /\ Cargo(ToSet(combQ)) = X \cup Cargo(ToSet(combQ'))
      /\ X \cap Cargo(ToSet(combQ')) = {}
    BY <1>1, CargoTaken DEF OnceInv
<1> HIDE DEF X
<1>3. /\ Collected \subseteq Collected' /\ Collected' \subseteq Collected \cup X
      /\ X \subseteq Collected' \cup lost'
    BY DEF X
<1>4. OnceInv'
  <2>1. SingleQ(tasks)' /\ Single(reading)' /\ SingleQ(rawQ)' /\ Single(combining)' /\ SingleQ(combQ)'
      BY <1>2 DEF OnceInv
  <2>2. Combined' \subseteq Combined
      BY <1>2, <1>3 DEF Combined
  <2>3. Cargo(ToSet(combQ')) \cap Collected' = {}
      BY <1>2, <1>3 DEF OnceInv
  <2>4. Fetched' \subseteq Fetched
      BY <2>2 DEF Fetched
  <2>5. Read' \subseteq Read
      BY <2>4 DEF Read
  <2>6. Begun' \subseteq Begun
      BY <2>5 DEF Begun
  <2> QED
      BY <2>1, <2>2, <2>3, <2>4, <2>5, <2>6 DEF OnceInv
<1>5. Coming' \subseteq Coming /\ Coming \subseteq Coming' \cup X
    BY ComingBy, <1>2
<1> QED
    BY <1>3, <1>4, <1>5 DEF Accounted

LEMMA CoordinateMoves ==
    ASSUME mode = "rows", RowTypes, OnceInv, Coordinate \/ BreakPool
    PROVE  OnceInv' /\ Accounted
<1>1. UNCHANGED <<tasks, reading, rawQ, combining, arrived, archive>> /\ lost \subseteq lost'
    BY DEF Coordinate, Flush, Collect, Publish, TakeCombined, GiveUpFuture, GiveUpResults,
       EndCoordinator, WriteBandCells, BreakPool, Fault, Lose, front, main, past0
<1>2. combQ \in Seq(Bundles) /\ active \subseteq Tasks /\ pending \in Seq(Cells) /\ outQ \in Seq(Cells)
    BY DEF RowTypes
<1>3. ASSUME NEW t \in Tasks, Keep(t)
      PROVE  ToSet(pending') = ToSet(pending) \cup Cargo({t})
  <2>1. t.cell \in Cells
      BY DEF Tasks
  <2>2. CASE t.kind = "padding_source"
    <3>1. pending' = pending /\ Cargo({t}) = {}
        BY <1>3, <2>2, CargoOfTask DEF Keep
    <3> QED
        BY <3>1
  <2>3. CASE t.kind # "padding_source"
    <3>1. pending' = Append(pending, t.cell) /\ Cargo({t}) = {t.cell}
        BY <1>3, <2>3, CargoOfTask DEF Keep
    <3>2. ToSet(Append(pending, t.cell)) = ToSet(pending) \cup {t.cell}
        BY <1>2, <2>1, Appended
    <3> QED
        BY <3>1, <3>2
  <2> QED
      BY <2>2, <2>3
<1>4. CASE Flush
  <2>1. /\ pending # <<>> /\ pending' = Tail(pending) /\ outQ' = Append(outQ, Head(pending))
        /\ UNCHANGED <<combQ, active, lost>>
      BY <1>4 DEF Flush, front
  <2>2. Head(pending) \in Cells /\ ToSet(pending) = {Head(pending)} \cup ToSet(pending')
      BY <1>2, <2>1, Taken
  <2>3. ToSet(outQ') = ToSet(outQ) \cup {Head(pending)}
      BY <1>2, <2>1, <2>2, Appended
  <2>4. Collected' = Collected
      BY <1>1, <2>1, <2>2, <2>3 DEF Collected
  <2> QED
      BY <1>1, <2>1, <2>4, BackMoves
<1>5. CASE TakeCombined
  <2>1. combQ # <<>> /\ combQ' = Tail(combQ) /\ UNCHANGED outQ
      BY <1>5 DEF TakeCombined
  <2> DEFINE t == Head(combQ)
  <2>2. t \in Bundles
      BY <1>2, <2>1, Taken
  <2>3. /\ Collected \subseteq Collected' /\ Collected' \subseteq Collected \cup Cargo({t})
        /\ Cargo({t}) \subseteq Collected' \cup lost'
    <3>1. CASE t = None
      <4>1. UNCHANGED <<active, pending>>
          BY <1>5, <3>1, SentinelCarriesNothing DEF TakeCombined
      <4>2. Collected' = Collected /\ Cargo({t}) = {}
          BY <1>1, <2>1, <3>1, <4>1, SentinelCarriesNothing DEF Collected
      <4> QED
          BY <4>2
    <3>2. CASE t # None
      <4>1. t \in Tasks
          BY <2>2, <3>2 DEF Bundles
      <4>2. \/ UNCHANGED active /\ Keep(t)
            \/ UNCHANGED <<active, pending>> /\ t.cell \in lost'
            \/ active' = active \cup {t} /\ UNCHANGED pending
          BY <1>5, <3>2 DEF TakeCombined, Lose
      <4>3. Cargo({t}) \subseteq {t.cell}
          BY <4>1, CargoOfTask
      <4> HIDE DEF t
      <4>4. CASE UNCHANGED active /\ Keep(t)
        <5>1. ToSet(pending') = ToSet(pending) \cup Cargo({t})
            BY <1>3, <4>1, <4>4
        <5>2. Collected' = Collected \cup Cargo({t})
            BY <1>1, <2>1, <4>4, <5>1 DEF Collected
        <5> QED
            BY <5>2
      <4>5. CASE UNCHANGED <<active, pending>> /\ t.cell \in lost'
        <5>1. Collected' = Collected
            BY <1>1, <2>1, <4>5 DEF Collected
        <5> QED
            BY <4>3, <4>5, <5>1
      <4>6. CASE active' = active \cup {t} /\ UNCHANGED pending
        <5>1. Cargo(active') = Cargo(active) \cup Cargo({t})
            BY <4>6, CargoUnion
        <5>2. Collected' = Collected \cup Cargo({t})
            BY <1>1, <2>1, <4>6, <5>1 DEF Collected
        <5> QED
            BY <5>2
      <4> QED
          BY <4>2, <4>4, <4>5, <4>6
    <3> QED
        BY <3>1, <3>2
  <2> QED
      BY <1>1, <2>1, <2>3, LastMoves
<1>6. ASSUME NEW t \in active, Collect(t) PROVE OnceInv' /\ Accounted
  <2>1. /\ UNCHANGED <<combQ, outQ>> /\ active' = active \ {t}
        /\ Keep(t) \/ (UNCHANGED pending /\ t.cell \in lost')
      BY <1>6 DEF Collect, front, Lose
  <2>2. t \in Tasks
      BY <1>2
  <2>3. active = {t} \cup active'
      BY <2>1
  <2>4. Cargo(active) = Cargo({t}) \cup Cargo(active')
      BY <2>3, CargoUnion
  <2>5. Cargo({t}) \subseteq {t.cell}
      BY <2>2, CargoOfTask
  <2>6. CASE Keep(t)
    <3>1. ToSet(pending') = ToSet(pending) \cup Cargo({t})
        BY <1>3, <2>2, <2>6
    <3>2. Collected' = Collected
        BY <1>1, <2>1, <2>4, <3>1 DEF Collected
    <3> QED
        BY <1>1, <2>1, <3>2, BackMoves
  <2>7. CASE UNCHANGED pending /\ t.cell \in lost'
    <3>1. Collected' \subseteq Collected /\ Collected \subseteq Collected' \cup lost'
        BY <1>1, <2>1, <2>4, <2>5, <2>7 DEF Collected
    <3> QED
        BY <1>1, <2>1, <3>1, BackMoves
  <2> QED
      BY <2>1, <2>6, <2>7
<1>7. CASE GiveUpResults
  <2>1. UNCHANGED <<combQ, active, outQ>> /\ lost' = lost \cup ToSet(pending) /\ pending' = <<>>
      BY <1>7 DEF GiveUpResults, front
  <2>2. Collected' \subseteq Collected /\ Collected \subseteq Collected' \cup lost'
      BY <1>1, <2>1, EmptyQueue DEF Collected
  <2> QED
      BY <1>1, <2>1, <2>2, BackMoves
<1>8. ASSUME NEW t \in active, GiveUpFuture(t) PROVE OnceInv' /\ Accounted
  <2>1. UNCHANGED <<combQ, pending, outQ>> /\ active' = active \ {t} /\ t.cell \in lost'
      BY <1>8 DEF GiveUpFuture, front, Lose
  <2>2. Cargo(active) = Cargo({t}) \cup Cargo(active')
    <3>1. active = {t} \cup active'
        BY <2>1
    <3> QED
        BY <3>1, CargoUnion
  <2>3. Cargo({t}) \subseteq {t.cell}
      BY <1>2, CargoOfTask
  <2>4. Collected' \subseteq Collected /\ Collected \subseteq Collected' \cup lost'
      BY <1>1, <2>1, <2>2, <2>3 DEF Collected
  <2> QED
      BY <1>1, <2>1, <2>4, BackMoves
<1>9. CASE EndCoordinator \/ BreakPool \/ \E c \in writing : WriteBandCells(c)
  <2>1. UNCHANGED <<combQ, active, pending, outQ>>
      BY <1>9 DEF EndCoordinator, BreakPool, WriteBandCells, front, back
  <2>2. Collected' = Collected
      BY <1>1, <2>1 DEF Collected
  <2> QED
      BY <1>1, <2>1, <2>2, BackMoves
<1> QED
    BY <1>4, <1>5, <1>6, <1>7, <1>8, <1>9 DEF Coordinate

LEMMA AssembleMoves ==
    ASSUME mode = "rows", RowTypes, OnceInv, AssembleRows
    PROVE  OnceInv' /\ Accounted
<1>1. UNCHANGED <<tasks, reading, rawQ, combining, combQ, active, pending, lost>>
    BY DEF AssembleRows, Receive, Gathered, GatherTimesOut, PaddingReady, PaddingTimesOut, FailRow,
       Emit, front, back
<1>2. ToSet(outQ') \cup arrived' = ToSet(outQ) \cup arrived
  <2>1. CASE Receive
    <3>1. outQ # <<>> /\ outQ' = Tail(outQ) /\ arrived' = arrived \cup {Head(outQ)} /\ outQ \in Seq(Cells)
        BY <2>1 DEF Receive, RowTypes
    <3>2. ToSet(outQ) = {Head(outQ)} \cup ToSet(outQ')
        BY <3>1, Taken
    <3> QED
        BY <3>1, <3>2
  <2>2. CASE GatherTimesOut
      BY <2>2, EmptyQueue DEF GatherTimesOut
  <2>3. CASE Gathered \/ PaddingReady \/ PaddingTimesOut \/ FailRow \/ Emit
      BY <2>3 DEF Gathered, PaddingReady, PaddingTimesOut, FailRow, Emit, back
  <2> QED
      BY <2>1, <2>2, <2>3 DEF AssembleRows
<1>3. Collected' = Collected
    BY <1>1, <1>2 DEF Collected
<1> QED
    BY <1>1, <1>3, BackMoves

LEMMA WindDownMoves ==
    ASSUME mode = "rows", RowTypes, OnceInv, WindDown \/ Save
    PROVE  OnceInv' /\ Accounted
<1>1. UNCHANGED <<tasks, reading, combining, combQ, active, pending, outQ, arrived>>
    BY DEF WindDown, AwaitThreads, SendSentinel, EndResults, Report, Save, OnlyPc, Goto, front, back,
       store, main
<1>2. rawQ \in Seq(Bundles) /\ (rawQ' = rawQ \/ rawQ' = Append(rawQ, None))
    BY DEF WindDown, AwaitThreads, SendSentinel, EndResults, Report, Save, Goto, OnlyPc, front, RowTypes
<1>3. Collected' = Collected
    BY <1>1 DEF Collected
<1>4. SingleQ(rawQ') /\ Cargo(ToSet(rawQ')) = Cargo(ToSet(rawQ))
  <2>1. /\ SingleQ(Append(rawQ, None))
        /\ Cargo(ToSet(Append(rawQ, None))) = Cargo(ToSet(rawQ)) \cup Cargo({None})
      BY <1>2, SentinelCarriesNothing, CargoAppended DEF OnceInv
  <2> QED
      BY <1>2, <2>1, SentinelCarriesNothing DEF OnceInv
<1>5. Coming' = Coming
    BY ComingBy, <1>1, <1>4
<1>6. OnceInv'
    BY <1>1, <1>3, <1>4 DEF OnceInv, Begun, Read, Fetched, Combined
<1> QED
    BY <1>3, <1>5, <1>6 DEF Accounted

LEMMA OnceStays ==
    ASSUME mode = "rows", RowTypes, OnceInv, [Next]_vars
    PROVE  OnceInv' /\ Accounted
<1>1. CASE UNCHANGED vars
  <2>1. UNCHANGED <<tasks, reading, rawQ, combining, combQ, active, pending, outQ, arrived>>
      BY <1>1 DEF vars, front, back, main
  <2>2. Collected' = Collected
      BY <2>1 DEF Collected
  <2> QED
      BY <2>1, <2>2, BackMoves
<1> QED
    BY <1>1, IngestMoves, CombineMoves, CoordinateMoves, AssembleMoves, WindDownMoves DEF Next, Work

\* What no step takes back.
LEMMA HistoryGrows ==
    ASSUME [Next]_vars
    PROVE  UNCHANGED <<mode, archive>> /\ past \subseteq past' /\ lost \subseteq lost'
<1>1. CASE Ingest \/ Combine \/ BreakPool \/ UNCHANGED vars
    BY <1>1 DEF Ingest, TakeTask, PutRaw, FindAbsent, FailFetch, Combine, TakeRaw, PutCombined,
       FailCombine, ForwardSentinel, BreakPool, Fault, Lose, past0, vars
<1>2. CASE Coordinate
    BY <1>2 DEF Coordinate, Flush, Collect, Publish, TakeCombined, GiveUpFuture, GiveUpResults,
       EndCoordinator, WriteBandCells, Fault, Lose, past0
<1>3. CASE AssembleRows
    BY <1>3 DEF AssembleRows, Receive, Gathered, GatherTimesOut, PaddingReady, PaddingTimesOut, FailRow,
       Emit, TimesOut, Fault, past0
<1>4. CASE WindDown \/ Save
    BY <1>4 DEF WindDown, AwaitThreads, SendSentinel, EndResults, Report, Save, OnlyPc, past0
<1> QED
    BY <1>1, <1>2, <1>3, <1>4 DEF Next, Work

LEMMA CalmBefore ==
    ASSUME [Next]_vars, Calm'
    PROVE  Calm /\ ~ Broken /\ "slow" \notin past'
BY HistoryGrows DEF Calm, Broken

\* No step puts main back into its loop.
LEMMA FlowStays ==
    ASSUME mode = "rows", RowTypes, FlowInv, [Next]_vars, Calm'
    PROVE  FlowInv'
<1>0. ~ Broken
    BY CalmBefore
<1>1. /\ rawQ \in Seq(Bundles) /\ combining \subseteq Tasks /\ combQ \in Seq(Bundles)
      /\ reading \subseteq Tasks
    BY DEF RowTypes
<1>2. CASE UNCHANGED <<pc, rawQ, combQ, coord, sentinels>>
    BY <1>2 DEF FlowInv, Looping
<1>3. CASE Ingest
  <2>1. UNCHANGED <<pc, combQ, coord, sentinels>>
      BY <1>3 DEF Ingest, TakeTask, PutRaw, FindAbsent, FailFetch, back, main
  <2>2. rawQ' = rawQ \/ \E t \in reading : rawQ' = Append(rawQ, t)
      BY <1>3 DEF Ingest, TakeTask, PutRaw, FindAbsent, FailFetch
  <2>3. ASSUME NEW t \in reading, rawQ' = Append(rawQ, t) PROVE FlowInv'
    <3>1. t \in Bundles /\ t # None
        BY <1>1, NoneIsNoTask
    <3>2. ToSet(rawQ') = ToSet(rawQ) \cup {t}
        BY <1>1, <2>3, <3>1, Appended
    <3> QED
        BY <2>1, <3>1, <3>2 DEF FlowInv, Looping
  <2> QED
      BY <1>2, <2>1, <2>2, <2>3
<1>4. CASE Combine
  <2>1. UNCHANGED <<pc, coord>>
      BY <1>4 DEF Combine, TakeRaw, PutCombined, FailCombine, ForwardSentinel, back, main
  <2>2. SUFFICES ASSUME Looping
                 PROVE  sentinels' = 0 /\ None \notin ToSet(rawQ') \cup ToSet(combQ')
      BY <2>1 DEF FlowInv, Looping
  <2>3. sentinels = 0 /\ None \notin ToSet(rawQ) /\ None \notin ToSet(combQ)
      BY <2>2 DEF FlowInv
  <2>4. CASE TakeRaw
    <3>1. rawQ # <<>> /\ rawQ' = Tail(rawQ) /\ UNCHANGED combQ
        BY <2>4 DEF TakeRaw
    <3>2. ToSet(rawQ) = {Head(rawQ)} \cup ToSet(rawQ')
        BY <1>1, <3>1, Taken
    <3>3. UNCHANGED sentinels
        BY <2>3, <2>4, <3>2 DEF TakeRaw
    <3> QED
        BY <2>3, <3>1, <3>2, <3>3
  <2>5. CASE ForwardSentinel
      BY <2>3, <2>5 DEF ForwardSentinel
  <2>6. ASSUME NEW t \in combining, PutCombined(t)
        PROVE  sentinels' = 0 /\ None \notin ToSet(rawQ') \cup ToSet(combQ')
    <3>1. UNCHANGED <<rawQ, sentinels>> /\ combQ' = Append(combQ, t)
        BY <2>6 DEF PutCombined
    <3>2. t \in Bundles /\ t # None
        BY <1>1, NoneIsNoTask
    <3>3. ToSet(combQ') = ToSet(combQ) \cup {t}
        BY <1>1, <3>1, <3>2, Appended
    <3> QED
        BY <2>3, <3>1, <3>2, <3>3
  <2>7. ASSUME NEW t \in combining, FailCombine(t)
        PROVE  sentinels' = 0 /\ None \notin ToSet(rawQ') \cup ToSet(combQ')
      BY <2>3, <2>7 DEF FailCombine
  <2> QED
      BY <1>4, <2>4, <2>5, <2>6, <2>7 DEF Combine
<1>5. CASE TakeCombined
  <2>1. UNCHANGED <<pc, rawQ, sentinels>> /\ combQ # <<>> /\ combQ' = Tail(combQ)
      BY <1>5 DEF TakeCombined, main
  <2>2. ToSet(combQ) = {Head(combQ)} \cup ToSet(combQ')
      BY <1>1, <2>1, Taken
  <2>3. Head(combQ) # None => UNCHANGED coord
      BY <1>0, <1>5 DEF TakeCombined
  <2> QED
      BY <2>1, <2>2, <2>3 DEF FlowInv, Looping
<1>6. CASE (Coordinate \/ BreakPool) /\ ~ TakeCombined /\ ~ EndCoordinator
  <2>1. UNCHANGED <<pc, rawQ, combQ, coord, sentinels>>
      BY <1>6 DEF Coordinate, Flush, Collect, GiveUpFuture, GiveUpResults, WriteBandCells, BreakPool,
         front, back, main
  <2> QED
      BY <1>2, <2>1
<1>7. CASE EndCoordinator
  <2>1. UNCHANGED pc /\ coord = "drain"
      BY <1>7 DEF EndCoordinator, main
  <2> QED
      BY <2>1 DEF FlowInv, Looping
<1>8. CASE AssembleRows
  <2>1. UNCHANGED <<rawQ, combQ, coord, sentinels>>
      BY <1>8 DEF AssembleRows, Receive, Gathered, GatherTimesOut, PaddingReady, PaddingTimesOut,
         FailRow, Emit, front, back
  <2>2. Looping
      BY <1>8 DEF AssembleRows, Receive, Drains, Gathering, Gathered, GatherTimesOut, PaddingReady,
         PaddingTimesOut, FailRow, Emit, Looping
  <2> QED
      BY <2>1, <2>2 DEF FlowInv
<1>9. CASE WindDown
  <2>1. ~ Looping /\ pc' \in {"sentinels", "exit", "saver", "done", "failed"}
      BY <1>9 DEF WindDown, AwaitThreads, SendSentinel, EndResults, Report, Goto, Looping, RowTypes
  <2> QED
      BY <2>1 DEF FlowInv, Looping
<1>10. CASE Save \/ UNCHANGED vars
    BY <1>2, <1>10 DEF Save, vars, front, back, main
<1> QED
    BY <1>3, <1>4, <1>5, <1>6, <1>7, <1>8, <1>9, <1>10 DEF Next, Work, Coordinate

(****************************************************************************)
(* What main has gathered does not come again                               *)
(****************************************************************************)
LEMMA ComingIsApart ==
    ASSUME OnceInv
    PROVE  Coming \cap Collected = {}
BY ComingBy DEF OnceInv, Begun, Read, Fetched, Combined

\* Whoever is on its way while main gathers is in flight.
LEMMA RowInFlight ==
    ASSUME FlowInv, Looping, NEW c, ~ InFlight(c, FALSE)
    PROVE  c \notin Coming /\ c \notin Cargo(active) /\ c \notin ToSet(outQ) /\ c \notin ToSet(pending)
<1>1. coord = "loop"
    BY DEF FlowInv
<1>2. \A t \in Upstream \cup active : t.cell = c => ~ BringsRow(t)
  <2> SUFFICES ASSUME NEW t \in Upstream \cup active, t.cell = c, BringsRow(t) PROVE FALSE
      OBVIOUS
  <2>1. (t.kind = "padding_source") = FALSE
      BY DEF BringsRow
  <2> QED
      BY <1>1, <2>1 DEF InFlight
<1>3. c \notin ToSet(outQ) /\ c \notin ToSet(pending)
    BY <1>1 DEF InFlight
<1>4. c \notin Coming /\ c \notin Cargo(active)
    BY <1>2 DEF Coming, Cargo
<1> QED
    BY <1>3, <1>4

LEMMA PaddingInFlight ==
    ASSUME FlowInv, Looping, NEW c, ~ InFlight(c, TRUE)
    PROVE  \A t \in Upstream \cup active : ~ (t.cell = c /\ t.kind = "padding_source")
<1>1. coord = "loop"
    BY DEF FlowInv
<1> SUFFICES ASSUME NEW t \in Upstream \cup active, t.cell = c, t.kind = "padding_source" PROVE FALSE
    OBVIOUS
<1>2. (t.kind = "padding_source") = TRUE
    OBVIOUS
<1> QED
    BY <1>1, <1>2 DEF InFlight

\* Without an early timeout main stops gathering when nothing it wants is on its way.
LEMMA GatheredWanted ==
    ASSUME OnceInv, FlowInv, "slow" \notin past', Gathered \/ GatherTimesOut
    PROVE  Wanted \cap Coming = {}
<1>1. arrived \cap Coming = {}
    BY ComingIsApart DEF Collected
<1>2. CASE Gathered
    BY <1>1, <1>2 DEF Gathered
<1>3. CASE GatherTimesOut
  <2>1. Looping
      BY <1>3 DEF GatherTimesOut, Gathering, Looping
  <2>2. TimesOut(Wanted \ arrived, FALSE)
      BY <1>3 DEF GatherTimesOut
  <2>3. \A c \in Wanted \ arrived : ~ InFlight(c, FALSE)
      BY <2>2 DEF TimesOut, Fault
  <2>4. \A c \in Wanted \ arrived : c \notin Coming
      BY <2>1, <2>3, RowInFlight
  <2> QED
      BY <1>1, <2>4
<1> QED
    BY <1>2, <1>3

LEMMA GatheredStays ==
    ASSUME mode = "rows", RowTypes, OnceInv, FlowInv, GatheredInv, [Next]_vars, Calm'
    PROVE  GatheredInv'
<1>1. Coming' \subseteq Coming
    BY OnceStays DEF Accounted
<1>2. "slow" \notin past'
    BY CalmBefore
<1>3. CASE UNCHANGED <<pc, step>>
  <2>1. Row' = Row /\ LastOfProj(step)' = LastOfProj(step)
      BY <1>3 DEF Row
  <2> QED
      BY <1>1, <1>3, <2>1 DEF GatheredInv
<1>4. CASE Gathered \/ GatherTimesOut
  <2>1. Wanted \cap Coming = {}
      BY <1>2, <1>4, GatheredWanted
  <2>2. UNCHANGED step /\ Gathering
      BY <1>4 DEF Gathered, GatherTimesOut
  <2>3. PICK cells : AssembleRow(cells)
      BY <1>4 DEF Gathered, GatherTimesOut
  <2>4. pc' = IF pc = "current" /\ ~LastOfProj(step) THEN "next" ELSE "padding"
      BY <2>3 DEF AssembleRow
  <2>5. Row' = Row
      BY <2>2 DEF Row
  <2>6. CASE pc = "current"
    <3>1. RowCells[Row] \cap Coming = {}
        BY <2>1, <2>6 DEF Wanted
    <3>2. pc' = "next" \/ (pc' = "padding" /\ LastOfProj(step))
        BY <2>4, <2>6
    <3> QED
        BY <1>1, <2>2, <2>5, <3>1, <3>2 DEF GatheredInv
  <2>7. CASE pc = "next"
    <3>1. RowCells[Row] \cap Coming = {} /\ RowCells[RowSeq[step + 1]] \cap Coming = {}
        BY <2>1, <2>7 DEF Wanted, GatheredInv
    <3> QED
        BY <1>1, <2>2, <2>5, <3>1 DEF GatheredInv
  <2> QED
      BY <2>2, <2>6, <2>7 DEF Gathering
<1>5. CASE PaddingReady \/ PaddingTimesOut
  <2>1. pc = "padding" /\ pc' = "emit" /\ UNCHANGED step
      BY <1>5 DEF PaddingReady, PaddingTimesOut, ApplyPadding
  <2>2. Row' = Row
      BY <2>1 DEF Row
  <2> QED
      BY <1>1, <2>1, <2>2 DEF GatheredInv
<1>6. CASE FailRow
    BY <1>6 DEF FailRow, GatheredInv
<1>7. CASE Emit
  <2>1. pc = "emit"
      BY <1>7 DEF Emit
  <2>2. CASE step = Len(RowSeq) \/ LastOfProj(step)
    <3>1. pc' \in {"end", "current"}
        BY <1>7, <2>2 DEF Emit
    <3> QED
        BY <3>1 DEF GatheredInv
  <2>3. CASE step # Len(RowSeq) /\ ~ LastOfProj(step)
    <3>1. step' = step + 1 /\ (pc' = "next" \/ (pc' = "padding" /\ LastOfProj(step + 1)))
      <4>1. CASE LastOfProj(step + 1)
          BY <1>7, <2>3, <4>1 DEF Emit
      <4>2. CASE ~ LastOfProj(step + 1)
          BY <1>7, <2>3, <4>2 DEF Emit
      <4> QED
          BY <4>1, <4>2
    <3>2. RowCells[RowSeq[step']] \cap Coming = {}
        BY <2>1, <2>3, <3>1 DEF GatheredInv
    <3>3. Row' = RowSeq[step']
        BY DEF Row
    <3>4. pc' = "padding" => LastOfProj(step')
        BY <3>1
    <3> QED
        BY <1>1, <3>1, <3>2, <3>3, <3>4 DEF GatheredInv
  <2> QED
      BY <2>2, <2>3
<1>8. CASE WindDown
  <2>1. pc' \in {"sentinels", "exit", "saver", "done", "failed"}
      BY <1>8 DEF WindDown, AwaitThreads, SendSentinel, EndResults, Report, Goto, RowTypes
  <2> QED
      BY <2>1 DEF GatheredInv
<1>9. CASE Ingest \/ Combine \/ Coordinate \/ BreakPool \/ Save \/ Receive \/ UNCHANGED vars
  <2>1. UNCHANGED <<pc, step>>
      BY <1>9 DEF Ingest, TakeTask, PutRaw, FindAbsent, FailFetch, Combine, TakeRaw, PutCombined,
         FailCombine, ForwardSentinel, Coordinate, Flush, Collect, TakeCombined, GiveUpFuture,
         GiveUpResults, EndCoordinator, WriteBandCells, BreakPool, Save, Receive, vars, main
  <2> QED
      BY <1>3, <2>1
<1> QED
    BY <1>4, <1>5, <1>6, <1>7, <1>8, <1>9 DEF Next, Work, AssembleRows

(****************************************************************************)
(* The use counts                                                           *)
(****************************************************************************)
\* A step whose cells are used up is not before main again.
LEMMA TodoShrinks ==
    ASSUME mode = "rows", RowTypes, [Next]_vars
    PROVE  Todo' \subseteq Todo
<1>1. CASE UNCHANGED <<pc, step>>
    BY <1>1 DEF Todo
<1>2. CASE Gathered \/ GatherTimesOut
  <2>1. UNCHANGED step /\ pc \in {"current", "next"}
      BY <1>2 DEF Gathered, GatherTimesOut, Gathering
  <2>2. PICK cells : AssembleRow(cells)
      BY <1>2 DEF Gathered, GatherTimesOut
  <2>3. pc' \in {"next", "padding"}
      BY <2>2 DEF AssembleRow
  <2> QED
      BY <2>1, <2>3 DEF Todo
<1>3. CASE PaddingReady \/ PaddingTimesOut
  <2>1. pc = "padding" /\ pc' = "emit" /\ UNCHANGED step /\ step \in Steps
      BY <1>3 DEF PaddingReady, PaddingTimesOut, ApplyPadding, RowTypes, Looping
  <2> QED
      BY <2>1, RowList DEF Todo
<1>4. CASE FailRow
  <2> DEFINE others == {i \in Steps : i > step /\ ~SameProj(i, step)}
  <2>1. \/ pc' \in {"end", "raise"}
        \/ others # {} /\ pc' = "current" /\ step' = CHOOSE i \in others : \A j \in others : i <= j
      BY <1>4 DEF FailRow
  <2>2. pc = "padding" /\ step \in Steps
      BY <1>4 DEF FailRow, RowTypes, Looping
  <2>3. others \in SUBSET Steps /\ \A i \in others : i > step
      OBVIOUS
  <2> HIDE DEF others
  <2>4. pc' \in {"end", "raise"} \/ (pc' = "current" /\ step' \in Steps /\ step' > step)
      BY <2>1, <2>3, NextProjection
  <2>5. CASE pc' \in {"end", "raise"}
      BY <2>5 DEF Todo
  <2>6. CASE pc' = "current" /\ step' \in Steps /\ step' > step
    <3>1. \A i \in Steps : i >= step' => i >= step
        BY <2>2, <2>6, RowList
    <3> QED
        BY <2>2, <2>6, <3>1 DEF Todo
  <2> QED
      BY <2>4, <2>5, <2>6
<1>5. CASE Emit
  <2>1. pc = "emit" /\ step \in Steps
      BY <1>5 DEF Emit, RowTypes, Looping
  <2>2. CASE step = Len(RowSeq)
      BY <1>5, <2>2 DEF Emit, Todo
  <2>3. CASE step # Len(RowSeq)
    <3>1. step' = step + 1 /\ pc' # "emit"
        BY <1>5, <2>3 DEF Emit
    <3>2. \A i \in Steps : i >= step' => i > step
        BY <2>1, <3>1, RowList
    <3> QED
        BY <2>1, <3>1, <3>2 DEF Todo
  <2> QED
      BY <2>2, <2>3
<1>6. CASE WindDown
  <2>1. pc' \in {"sentinels", "exit", "saver", "done", "failed"}
      BY <1>6 DEF WindDown, AwaitThreads, SendSentinel, EndResults, Report, Goto, RowTypes
  <2> QED
      BY <2>1 DEF Todo
<1>7. CASE Ingest \/ Combine \/ Coordinate \/ BreakPool \/ Save \/ Receive \/ UNCHANGED vars
  <2>1. UNCHANGED <<pc, step>>
      BY <1>7 DEF Ingest, TakeTask, PutRaw, FindAbsent, FailFetch, Combine, TakeRaw, PutCombined,
         FailCombine, ForwardSentinel, Coordinate, Flush, Collect, TakeCombined, GiveUpFuture,
         GiveUpResults, EndCoordinator, WriteBandCells, BreakPool, Save, Receive, vars, main
  <2> QED
      BY <1>1, <2>1
<1> QED
    BY <1>2, <1>3, <1>4, <1>5, <1>6, <1>7 DEF Next, Work, AssembleRows

\* The padding steps before main can be counted, and so can those after a step.
LEMMA PaddingStepsLeft ==
    ASSUME Todo' \subseteq Todo, NEW c
    PROVE  /\ IsFiniteSet(PaddingTodo(c)) /\ IsFiniteSet(PaddingTodo(c)')
           /\ PaddingTodo(c)' \subseteq PaddingTodo(c)
           /\ Cardinality(PaddingTodo(c)) \in Nat /\ Cardinality(PaddingTodo(c)') \in Nat
           /\ Cardinality(PaddingTodo(c)') <= Cardinality(PaddingTodo(c))
<1>1. IsFiniteSet(Steps)
    BY RowList, FS_Interval
<1>2. PaddingTodo(c) \subseteq Steps
    BY DEF PaddingTodo, Todo
<1>3. PaddingTodo(c)' \subseteq PaddingTodo(c)
    BY DEF PaddingTodo
<1>4. IsFiniteSet(PaddingTodo(c))
    BY <1>1, <1>2, FS_Subset
<1>5. IsFiniteSet(PaddingTodo(c)') /\ Cardinality(PaddingTodo(c)') <= Cardinality(PaddingTodo(c))
    BY <1>3, <1>4, FS_Subset
<1> QED
    BY <1>3, <1>4, <1>5, FS_CardinalityType

\* What is owed for its own row is not owed again.
LEMMA OwedOnce ==
    ASSUME Todo' \subseteq Todo, Coming' \subseteq Coming, NEW c
    PROVE  Owed(c) \in 0 .. 1 /\ Owed(c)' \in 0 .. 1 /\ Owed(c)' <= Owed(c)
<1>1. Owed(c)' = 1 => Owed(c) = 1
    BY DEF Owed
<1>2. Owed(c) \in {0, 1} /\ Owed(c)' \in {0, 1}
    BY DEF Owed
<1> QED
    BY <1>1, <1>2

LEMMA CountFrame ==
    ASSUME RowTypes, CountInv, Todo' \subseteq Todo, Coming' \subseteq Coming, UNCHANGED uses
    PROVE  CountInv'
<1> SUFFICES ASSUME NEW c \in Cells
             PROVE  /\ uses'[c] > 0 => PaddingSteps(c) # 0
                    /\ PaddingSteps(c) # 0 => uses'[c] >= Cardinality(PaddingTodo(c)') + Owed(c)'
    BY DEF CountInv
<1>1. uses[c] \in Nat /\ uses'[c] = uses[c]
    BY DEF RowTypes
<1>2. /\ uses[c] > 0 => PaddingSteps(c) # 0
      /\ PaddingSteps(c) # 0 => uses[c] >= Cardinality(PaddingTodo(c)) + Owed(c)
    BY DEF CountInv
<1>3. /\ Cardinality(PaddingTodo(c)) \in Nat /\ Cardinality(PaddingTodo(c)') \in Nat
      /\ Cardinality(PaddingTodo(c)') <= Cardinality(PaddingTodo(c))
    BY PaddingStepsLeft
<1>4. Owed(c) \in 0 .. 1 /\ Owed(c)' \in 0 .. 1 /\ Owed(c)' <= Owed(c)
    BY OwedOnce
<1> QED
    BY ONLY <1>1, <1>2, <1>3, <1>4

\* A step takes one use from each of its cells, and leaves all that later steps owe.
LEMMA CountAtPadding ==
    ASSUME RowTypes, GatheredInv, CountInv, Coming' \subseteq Coming, pc = "padding", UNCHANGED step,
           NEW cached, ApplyPadding(cached)
    PROVE  CountInv'
<1>0. step \in Steps /\ pc' = "emit" /\ Row = RowSeq[step]
    BY DEF RowTypes, Looping, ApplyPadding, Row
<1>1. Todo = {i \in Steps : i >= step} /\ Todo' = {i \in Steps : i > step}
    BY <1>0 DEF Todo
<1>2. step \in Todo /\ Todo' = Todo \ {step}
    BY <1>0, <1>1, RowList
<1>3. Todo' \subseteq Todo
    BY <1>2
<1> SUFFICES ASSUME NEW c \in Cells
             PROVE  /\ uses'[c] > 0 => PaddingSteps(c) # 0
                    /\ PaddingSteps(c) # 0 => uses'[c] >= Cardinality(PaddingTodo(c)') + Owed(c)'
    BY DEF CountInv
<1>4. uses[c] \in Nat /\ uses'[c] = IF c \in Consumed THEN uses[c] - 1 ELSE uses[c]
    BY DEF RowTypes, ApplyPadding
<1>5. /\ uses[c] > 0 => PaddingSteps(c) # 0
      /\ PaddingSteps(c) # 0 => uses[c] >= Cardinality(PaddingTodo(c)) + Owed(c)
    BY DEF CountInv
<1>6. /\ IsFiniteSet(PaddingTodo(c))
      /\ Cardinality(PaddingTodo(c)) \in Nat /\ Cardinality(PaddingTodo(c)') \in Nat
      /\ Cardinality(PaddingTodo(c)') <= Cardinality(PaddingTodo(c))
    BY <1>3, PaddingStepsLeft
<1>7. Owed(c) \in 0 .. 1 /\ Owed(c)' \in 0 .. 1 /\ Owed(c)' <= Owed(c)
    BY <1>3, OwedOnce
<1>8. CASE c \notin Consumed
    BY ONLY <1>4, <1>5, <1>6, <1>7, <1>8
<1>9. CASE c \in Consumed /\ c \in Padding[Row]
  <2>1. step \in PaddingTodo(c)
      BY <1>0, <1>2, <1>9 DEF PaddingTodo
  <2>2. PaddingTodo(c)' = PaddingTodo(c) \ {step}
      BY <1>2 DEF PaddingTodo
  <2>3. Cardinality(PaddingTodo(c)') = Cardinality(PaddingTodo(c)) - 1
      BY <1>6, <2>1, <2>2, FS_RemoveElement
  <2>4. uses[c] > 0
      BY <1>9 DEF Consumed
  <2> QED
      BY ONLY <1>4, <1>5, <1>6, <1>7, <1>9, <2>3, <2>4
<1>10. CASE c \in Consumed /\ c \in RowCells[Row]
  <2>1. Owed(c) = 1
      BY <1>0, <1>2, <1>10 DEF Owed
  <2>2. c \notin Coming'
      BY <1>10 DEF GatheredInv
  <2>3. \A i \in Todo' : c \notin RowCells[RowSeq[i]]
    <3> SUFFICES ASSUME NEW i \in Todo', c \in RowCells[RowSeq[i]] PROVE FALSE
        OBVIOUS
    <3>1. i \in Steps /\ i # step
        BY <1>1, <1>2
    <3>2. RowCells[RowSeq[i]] \cap RowCells[RowSeq[step]] = {}
        BY <1>0, <3>1, CellPipelineAssumption
    <3> QED
        BY <1>0, <1>10, <3>2
  <2>4. Owed(c)' = 0
      BY <2>2, <2>3 DEF Owed
  <2>5. uses[c] > 0
      BY <1>10 DEF Consumed
  <2> QED
      BY ONLY <1>4, <1>5, <1>6, <1>7, <1>10, <2>1, <2>4, <2>5
<1>11. c \in Consumed => c \in Padding[Row] \/ c \in RowCells[Row]
    BY DEF Consumed
<1> QED
    BY <1>8, <1>9, <1>10, <1>11

LEMMA CountStays ==
    ASSUME mode = "rows", RowTypes, OnceInv, GatheredInv, CountInv, [Next]_vars
    PROVE  CountInv'
<1>1. Todo' \subseteq Todo
    BY TodoShrinks
<1>2. Coming' \subseteq Coming
    BY OnceStays DEF Accounted
<1>3. CASE UNCHANGED uses
    BY <1>1, <1>2, <1>3, CountFrame
<1>4. CASE PaddingReady \/ PaddingTimesOut
  <2>1. pc = "padding" /\ UNCHANGED step /\ \E cached : ApplyPadding(cached)
      BY <1>4 DEF PaddingReady, PaddingTimesOut
  <2> QED
      BY <1>2, <2>1, CountAtPadding
<1>5. CASE Ingest \/ Combine \/ BreakPool \/ UNCHANGED vars
  <2>1. UNCHANGED uses
      BY <1>5 DEF Ingest, TakeTask, PutRaw, FindAbsent, FailFetch, Combine, TakeRaw, PutCombined,
         FailCombine, ForwardSentinel, BreakPool, vars, store
  <2> QED
      BY <1>3, <2>1
<1>6. CASE Coordinate
  <2>1. UNCHANGED uses
      BY <1>6 DEF Coordinate, Flush, Collect, TakeCombined, GiveUpFuture, GiveUpResults, EndCoordinator,
         WriteBandCells, store
  <2> QED
      BY <1>3, <2>1
<1>7. CASE WindDown \/ Save \/ Receive \/ Gathered \/ GatherTimesOut \/ FailRow \/ Emit
  <2>1. UNCHANGED uses
      BY <1>7 DEF WindDown, AwaitThreads, SendSentinel, EndResults, Report, OnlyPc, Save, Receive,
         Gathered, GatherTimesOut, FailRow, Emit, store
  <2> QED
      BY <1>3, <2>1
<1> QED
    BY <1>4, <1>5, <1>6, <1>7 DEF Next, Work, AssembleRows

\* What a step has put out of the cache is neither padding of a later one nor on its way.
LEMMA EvictedIsDone ==
    ASSUME RowTypes, CountInv, CountInv', Todo' \subseteq Todo, NEW cached, ApplyPadding(cached),
           NEW c \in Cells, c \in cached, c \notin cache'
    PROVE  PaddingTodo(c)' = {} /\ c \notin Coming'
<1>1. c \in Consumed /\ uses'[c] = 0
    BY DEF ApplyPadding
<1>2. PaddingSteps(c) # 0
    BY <1>1 DEF Consumed, CountInv
<1>3. 0 >= Cardinality(PaddingTodo(c)') + Owed(c)'
    BY <1>1, <1>2 DEF CountInv
<1>4. IsFiniteSet(PaddingTodo(c)') /\ Cardinality(PaddingTodo(c)') \in Nat
    BY PaddingStepsLeft
<1>5. Owed(c)' \in {0, 1}
    BY DEF Owed
<1>6. Cardinality(PaddingTodo(c)') = 0 /\ Owed(c)' = 0
    BY ONLY <1>3, <1>4, <1>5
<1>7. PaddingTodo(c)' = {}
    BY <1>4, <1>6, FS_EmptySet
<1> QED
    BY <1>6, <1>7 DEF Owed

(****************************************************************************)
(* Hits, padding and what main loads by itself                              *)
(****************************************************************************)
\* A hit is made of a cell in the cache, and padding ends up there unless it is lost.
Followed ==
    /\ \A t \in Upstream' : IsHit(t) => t \in Upstream \/ t.cell \in cache'
    /\ \A t \in Upstream \cup active :
        t.kind = "padding_source" =>
            t \in Upstream' \cup active' \/ t.cell \in cache' \cup lost' \/ t.cell \notin archive

LEMMA UpstreamIsTasks ==
    ASSUME RowTypes
    PROVE  Upstream \subseteq Tasks
<1>1. /\ tasks \in Seq(Tasks) /\ rawQ \in Seq(Bundles) /\ combQ \in Seq(Bundles)
      /\ reading \subseteq Tasks /\ combining \subseteq Tasks
    BY DEF RowTypes
<1>2. ToSet(tasks) \subseteq Tasks /\ ToSet(rawQ) \subseteq Bundles /\ ToSet(combQ) \subseteq Bundles
    BY <1>1 DEF ToSet
<1> QED
    BY <1>1, <1>2 DEF Upstream, Bundles

LEMMA FollowedFrame ==
    ASSUME UNCHANGED <<tasks, reading, rawQ, combining, combQ, active>>
    PROVE  Followed
BY DEF Followed, Upstream

LEMMA IngestFollows ==
    ASSUME mode = "rows", RowTypes, Ingest
    PROVE  Followed /\ cache \subseteq cache'
<1>1. tasks \in Seq(Tasks) /\ rawQ \in Seq(Bundles) /\ reading \subseteq Tasks
    BY DEF RowTypes
<1>2. UNCHANGED <<combining, combQ, active>>
    BY DEF Ingest, TakeTask, PutRaw, FindAbsent, FailFetch, back
<1>3. CASE TakeTask
  <2>1. tasks # <<>> /\ UNCHANGED rawQ
      BY <1>3 DEF TakeTask
  <2> DEFINE t == Head(tasks)
             h == [t EXCEPT !.kind = "regular_cache_hit"]
  <2>2. t \in Tasks /\ ToSet(tasks) = {t} \cup ToSet(tasks') /\ t # None
    <3>1. tasks' = Tail(tasks)
        BY <1>3 DEF TakeTask
    <3> QED
        BY <1>1, <2>1, <3>1, Taken, NoneIsNoTask
  <2>3. \/ StoreHit(t) /\ reading' = reading \cup {h} /\ cache' = cache \cup {t.cell}
        \/ ~ StoreHit(t) /\ reading' = reading \cup {t} /\ UNCHANGED cache
      BY <1>3 DEF TakeTask, AlreadyDone
  <2>4. t.kind = "padding_source" => ~ StoreHit(t)
      BY DEF StoreHit
  <2>5. h.cell = t.cell
      BY <2>2 DEF Tasks
  <2> HIDE DEF t, h
  <2> QED
      BY <1>2, <2>1, <2>2, <2>3, <2>4, <2>5 DEF Followed, Upstream
<1>4. ASSUME NEW t \in reading, PutRaw(t) PROVE Followed /\ cache \subseteq cache'
  <2>1. t \in Bundles /\ t # None
      BY <1>1, NoneIsNoTask
  <2>2. reading' = reading \ {t} /\ rawQ' = Append(rawQ, t) /\ UNCHANGED <<tasks, cache>>
      BY <1>4 DEF PutRaw, store
  <2>3. ToSet(rawQ') = ToSet(rawQ) \cup {t}
      BY <1>1, <2>1, <2>2, Appended
  <2> QED
      BY <1>2, <2>1, <2>2, <2>3 DEF Followed, Upstream
<1>5. ASSUME NEW t \in reading, FindAbsent(t) \/ FailFetch(t) PROVE Followed /\ cache \subseteq cache'
  <2>1. reading' = reading \ {t} /\ UNCHANGED <<tasks, rawQ, cache>>
      BY <1>5 DEF FindAbsent, FailFetch, store
  <2>2. t.cell \in lost' \/ t.cell \notin archive
      BY <1>5 DEF FindAbsent, FailFetch, Lose
  <2> QED
      BY <1>2, <2>1, <2>2 DEF Followed, Upstream
<1> QED
    BY <1>3, <1>4, <1>5 DEF Ingest

LEMMA CombineFollows ==
    ASSUME mode = "rows", RowTypes, Combine
    PROVE  Followed /\ cache \subseteq cache'
<1>1. combQ \in Seq(Bundles) /\ rawQ \in Seq(Bundles) /\ combining \subseteq Tasks
    BY DEF RowTypes
<1>2. UNCHANGED <<tasks, reading, active, cache>>
    BY DEF Combine, TakeRaw, PutCombined, FailCombine, ForwardSentinel, back, store
<1>3. CASE TakeRaw
  <2>1. rawQ # <<>> /\ rawQ' = Tail(rawQ) /\ UNCHANGED combQ
      BY <1>3 DEF TakeRaw
  <2>2. ToSet(rawQ) = {Head(rawQ)} \cup ToSet(rawQ')
      BY <1>1, <2>1, Taken
  <2>3. (Head(rawQ) = None /\ UNCHANGED combining) \/ combining' = combining \cup {Head(rawQ)}
      BY <1>3 DEF TakeRaw
  <2> QED
      BY <1>2, <2>1, <2>2, <2>3 DEF Followed, Upstream
<1>4. CASE ForwardSentinel
  <2>1. combQ' = Append(combQ, None) /\ UNCHANGED <<rawQ, combining>>
      BY <1>4 DEF ForwardSentinel
  <2>2. ToSet(combQ') = ToSet(combQ) \cup {None}
      BY <1>1, <2>1, SentinelCarriesNothing, Appended
  <2> QED
      BY <1>2, <2>1, <2>2 DEF Followed, Upstream
<1>5. ASSUME NEW t \in combining, PutCombined(t) PROVE Followed /\ cache \subseteq cache'
  <2>1. t \in Bundles /\ t # None
      BY <1>1, NoneIsNoTask
  <2>2. combining' = combining \ {t} /\ combQ' = Append(combQ, t) /\ UNCHANGED rawQ
      BY <1>5 DEF PutCombined
  <2>3. ToSet(combQ') = ToSet(combQ) \cup {t}
      BY <1>1, <2>1, <2>2, Appended
  <2> QED
      BY <1>2, <2>1, <2>2, <2>3 DEF Followed, Upstream
<1>6. ASSUME NEW t \in combining, FailCombine(t) PROVE Followed /\ cache \subseteq cache'
  <2>1. combining' = combining \ {t} /\ t.cell \in lost' /\ UNCHANGED <<rawQ, combQ>>
      BY <1>6 DEF FailCombine, Lose
  <2> QED
      BY <1>2, <2>1 DEF Followed, Upstream
<1> QED
    BY <1>3, <1>4, <1>5, <1>6 DEF Combine

LEMMA CoordinateFollows ==
    ASSUME mode = "rows", RowTypes, Coordinate \/ BreakPool
    PROVE  Followed /\ cache \subseteq cache'
<1>1. combQ \in Seq(Bundles)
    BY DEF RowTypes
<1>2. UNCHANGED <<tasks, reading, rawQ, combining>>
    BY DEF Coordinate, Flush, Collect, TakeCombined, GiveUpFuture, GiveUpResults, EndCoordinator,
       WriteBandCells, BreakPool, front
<1>3. CASE Flush \/ GiveUpResults \/ EndCoordinator \/ BreakPool \/ \E c \in writing : WriteBandCells(c)
  <2>1. UNCHANGED <<combQ, active, cache>>
      BY <1>3 DEF Flush, GiveUpResults, EndCoordinator, BreakPool, WriteBandCells, front, back, store
  <2> QED
      BY <1>2, <2>1, FollowedFrame
<1>4. ASSUME NEW t \in active, Collect(t) PROVE Followed /\ cache \subseteq cache'
  <2>1. active' = active \ {t} /\ UNCHANGED combQ
      BY <1>4 DEF Collect, front
  <2>2. cache \subseteq cache' /\ (t.kind = "padding_source" => t.cell \in cache' \cup lost')
    <3>1. CASE Keep(t)
        BY <3>1 DEF Keep
    <3>2. CASE Lose(t.cell) /\ UNCHANGED cache
        BY <3>2 DEF Lose
    <3> QED
        BY <1>4, <3>1, <3>2 DEF Collect
  <2> QED
      BY <1>2, <2>1, <2>2 DEF Followed, Upstream
<1>5. ASSUME NEW t \in active, GiveUpFuture(t) PROVE Followed /\ cache \subseteq cache'
  <2>1. active' = active \ {t} /\ t.cell \in lost' /\ UNCHANGED <<combQ, cache>>
      BY <1>5 DEF GiveUpFuture, Lose, front, store
  <2> QED
      BY <1>2, <2>1 DEF Followed, Upstream
<1>6. CASE TakeCombined
  <2> DEFINE t == Head(combQ)
  <2>1. combQ # <<>> /\ combQ' = Tail(combQ)
      BY <1>6 DEF TakeCombined
  <2>2. ToSet(combQ) = {t} \cup ToSet(combQ')
      BY <1>1, <2>1, Taken
  <2>3. cache \subseteq cache' /\ active \subseteq active'
      BY <1>6 DEF TakeCombined, Keep
  <2>4. t # None /\ t.kind = "padding_source" => t \in active' \/ t.cell \in lost'
    <3>1. t.kind = "padding_source" => ~ IsHit(t)
        BY DEF IsHit
    <3> QED
        BY <1>6, <3>1 DEF TakeCombined, Lose
  <2> HIDE DEF t
  <2> QED
      BY <1>2, <2>1, <2>2, <2>3, <2>4 DEF Followed, Upstream
<1> QED
    BY <1>3, <1>4, <1>5, <1>6 DEF Coordinate

LEMMA WindDownFollows ==
    ASSUME mode = "rows", RowTypes, WindDown \/ Save \/ UNCHANGED vars
    PROVE  Followed /\ UNCHANGED cache
<1>1. UNCHANGED <<tasks, reading, combining, combQ, active, cache>>
    BY DEF WindDown, AwaitThreads, SendSentinel, EndResults, Report, OnlyPc, Save, vars, front, back, store
<1>2. None \in Bundles /\ rawQ \in Seq(Bundles) /\ pc # "report"
    BY DEF Bundles, RowTypes
<1>3. rawQ' = rawQ \/ rawQ' = Append(rawQ, None)
    BY <1>2 DEF WindDown, AwaitThreads, SendSentinel, EndResults, Report, Save, Goto, OnlyPc, vars, front
<1>4. ToSet(rawQ') \subseteq ToSet(rawQ) \cup {None} /\ ToSet(rawQ) \subseteq ToSet(rawQ')
  <2>1. ToSet(Append(rawQ, None)) = ToSet(rawQ) \cup {None}
      BY <1>2, Appended
  <2> QED
      BY <1>3, <2>1
<1> QED
    BY <1>1, <1>4 DEF Followed, Upstream

LEMMA StepFollows ==
    ASSUME mode = "rows", RowTypes, [Next]_vars
    PROVE  Followed /\ (cache \subseteq cache' \/ PaddingReady \/ PaddingTimesOut)
<1>1. CASE AssembleRows
  <2>1. UNCHANGED <<tasks, reading, rawQ, combining, combQ, active>>
      BY <1>1 DEF AssembleRows, Receive, Gathered, GatherTimesOut, PaddingReady, PaddingTimesOut,
         FailRow, Emit, front, back
  <2>2. UNCHANGED cache \/ PaddingReady \/ PaddingTimesOut
      BY <1>1 DEF AssembleRows, Receive, Gathered, GatherTimesOut, FailRow, Emit, store
  <2> QED
      BY <2>1, <2>2, FollowedFrame
<1> QED
    BY <1>1, IngestFollows, CombineFollows, CoordinateFollows, WindDownFollows DEF Next, Work

\* The cell of a hit leaves the cache when its row is behind main, and never before.
LEMMA HitsStay ==
    ASSUME mode = "rows", RowTypes, OnceInv, GatheredInv, CountInv, HitInv, [Next]_vars
    PROVE  HitInv'
<1>1. Followed /\ (cache \subseteq cache' \/ PaddingReady \/ PaddingTimesOut)
    BY StepFollows
<1>2. CountInv' /\ Todo' \subseteq Todo
    BY CountStays, TodoShrinks
<1> SUFFICES ASSUME NEW t \in Upstream', IsHit(t), t.cell \notin cache' PROVE FALSE
    BY DEF HitInv, IsHit
<1>3. t \in Upstream /\ t.cell \in cache
    BY <1>1 DEF Followed, HitInv
<1>4. PICK cached : ApplyPadding(cached) /\ cache \subseteq cached
    BY <1>1, <1>3 DEF PaddingReady, PaddingTimesOut
<1>5. t.cell \in Cells
    BY <1>3, UpstreamIsTasks DEF Tasks
<1>6. t.cell \notin Coming'
    BY <1>2, <1>3, <1>4, <1>5, EvictedIsDone
<1>7. t.cell \in Coming'
    BY DEF Coming, Cargo, BringsRow, IsHit
<1> QED
    BY <1>6, <1>7

LEMMA RowKeeps ==
    ASSUME mode = "rows", RowTypes, OnceInv, RowKept, [Next]_vars
    PROVE  RowKept'
<1>1. Accounted
    BY OnceStays
<1>2. UNCHANGED archive /\ lost \subseteq lost'
    BY HistoryGrows
<1> SUFFICES ASSUME NEW c \in Regular, c \in archive
             PROVE  c \in Coming' \cup Collected' \cup lost'
    BY <1>2 DEF RowKept
<1>3. c \in Coming \cup Collected \cup lost
    BY DEF RowKept
<1> QED
    BY <1>1, <1>2, <1>3 DEF Accounted

\* A padding source main has still to use is under way or in the cache, or known to be lost.
LEMMA PaddingKeeps ==
    ASSUME mode = "rows", RowTypes, OnceInv, GatheredInv, CountInv, PaddingKept, [Next]_vars
    PROVE  PaddingKept'
<1>1. Followed /\ (cache \subseteq cache' \/ PaddingReady \/ PaddingTimesOut)
    BY StepFollows
<1>2. CountInv' /\ Todo' \subseteq Todo
    BY CountStays, TodoShrinks
<1>3. UNCHANGED archive /\ lost \subseteq lost'
    BY HistoryGrows
<1> SUFFICES ASSUME NEW i \in Todo', NEW c \in Padding[RowSeq[i]], c \in archive, c \notin cache' \cup lost'
             PROVE  \E t \in Upstream' \cup active' : t.cell = c /\ t.kind = "padding_source"
    BY <1>3 DEF PaddingKept
<1>4. i \in Todo /\ i \in Steps /\ c \in Cells
    BY <1>2, RowList DEF Todo, Cells
<1>5. c \notin cache
  <2> SUFFICES ASSUME c \in cache PROVE FALSE
      OBVIOUS
  <2>1. PICK cached : ApplyPadding(cached) /\ cache \subseteq cached
      BY <1>1 DEF PaddingReady, PaddingTimesOut
  <2>2. PaddingTodo(c)' = {}
      BY <1>2, <1>4, <2>1, EvictedIsDone
  <2> QED
      BY <2>2 DEF PaddingTodo
<1>6. PICK t \in Upstream \cup active : t.cell = c /\ t.kind = "padding_source"
    BY <1>3, <1>4, <1>5 DEF PaddingKept
<1> QED
    BY <1>1, <1>6 DEF Followed

\* What main loads of a row is neither on its way nor gathered.
LEMMA RowLoaded ==
    ASSUME RowTypes, FlowInv, RowKept, ManualInv, GatherTimesOut, "slow" \notin past'
    PROVE  ManualInv'
<1>1. UNCHANGED <<archive, lost>> /\ Looping /\ step \in Steps
    BY DEF GatherTimesOut, Gathering, Looping, RowTypes, past0
<1>2. arrived' = arrived \cup ToSet(outQ) /\ TimesOut(Wanted \ arrived, FALSE)
    BY DEF GatherTimesOut
<1>3. manual' = manual \cup (Wanted \ arrived')
    BY DEF GatherTimesOut, LoadManually
<1>4. \A c \in Wanted \ arrived : ~ InFlight(c, FALSE)
    BY <1>2 DEF TimesOut, Fault
<1>5. Wanted \subseteq Regular
  <2>1. RowSeq[step] \in Rows /\ (pc = "next" => RowSeq[step + 1] \in Rows)
      BY <1>1, RowList DEF RowTypes, LastOfProj
  <2> QED
      BY <2>1 DEF Wanted, Row, Regular
<1>6. Regular \subseteq Cells
    BY DEF Regular, Cells
<1>7. ASSUME NEW c \in Wanted \ arrived' PROVE c \in lost \/ c \in Cells \ archive
  <2>1. c \notin arrived /\ ~ InFlight(c, FALSE)
      BY <1>2, <1>4, <1>7
  <2>2. c \notin Coming /\ c \notin Collected
      BY <1>1, <2>1, RowInFlight DEF Collected
  <2> QED
      BY <1>5, <1>6, <2>2 DEF RowKept
<1> QED
    BY <1>1, <1>3, <1>7 DEF ManualInv

LEMMA PaddingLoaded ==
    ASSUME RowTypes, FlowInv, PaddingKept, ManualInv, PaddingTimesOut, "slow" \notin past'
    PROVE  ManualInv'
<1>1. UNCHANGED <<archive, lost>> /\ pc = "padding" /\ Looping /\ step \in Steps
    BY DEF PaddingTimesOut, Looping, RowTypes, past0
<1>2. manual' = manual \cup (Padding[Row] \ cache) /\ TimesOut(Padding[Row] \ cache, TRUE)
    BY DEF PaddingTimesOut, LoadManually
<1>3. \A c \in Padding[Row] \ cache : ~ InFlight(c, TRUE)
    BY <1>2 DEF TimesOut, Fault
<1>4. step \in Todo /\ Row = RowSeq[step] /\ Padding[Row] \subseteq Cells
    BY <1>1, RowList DEF Todo, Row, Cells
<1>5. ASSUME NEW c \in Padding[Row] \ cache PROVE c \in lost \/ c \in Cells \ archive
  <2>1. \A t \in Upstream \cup active : ~ (t.cell = c /\ t.kind = "padding_source")
      BY <1>1, <1>3, PaddingInFlight
  <2> QED
      BY <1>4, <2>1 DEF PaddingKept
<1> QED
    BY <1>1, <1>2, <1>5 DEF ManualInv

LEMMA ManualStays ==
    ASSUME mode = "rows", RowTypes, FlowInv, RowKept, PaddingKept, ManualInv, [Next]_vars, Calm'
    PROVE  ManualInv'
<1>1. UNCHANGED archive /\ lost \subseteq lost' /\ "slow" \notin past'
    BY HistoryGrows, CalmBefore
<1>2. CASE UNCHANGED manual
    BY <1>1, <1>2 DEF ManualInv
<1>3. UNCHANGED manual \/ GatherTimesOut \/ PaddingTimesOut
  <2>1. CASE Ingest \/ Combine \/ BreakPool \/ UNCHANGED vars
      BY <2>1 DEF Ingest, TakeTask, PutRaw, FindAbsent, FailFetch, Combine, TakeRaw, PutCombined,
         FailCombine, ForwardSentinel, BreakPool, vars, main
  <2>2. CASE Coordinate
      BY <2>2 DEF Coordinate, Flush, Collect, TakeCombined, GiveUpFuture, GiveUpResults, EndCoordinator,
         WriteBandCells, main
  <2>3. CASE WindDown \/ Save \/ Receive \/ Gathered \/ PaddingReady \/ FailRow \/ Emit
      BY <2>3 DEF WindDown, AwaitThreads, SendSentinel, EndResults, Report, OnlyPc, Save, Receive,
         Gathered, PaddingReady, FailRow, Emit, main
  <2> QED
      BY <2>1, <2>2, <2>3 DEF Next, Work, AssembleRows
<1> QED
    BY <1>1, <1>2, <1>3, RowLoaded, PaddingLoaded

(****************************************************************************)
(* The list of tasks of a run that assembles rows                           *)
(****************************************************************************)
\* A set that brings no cell twice is listed as a sequence that brings none twice.
LEMMA ListedOnce ==
    ASSUME NEW S, IsFiniteSet(S), Single(S)
    PROVE  SingleQ(SetToSeq(S))
<1> DEFINE N == 1 .. Cardinality(S)
           s == SetToSeq(S)
<1>1. Cardinality(S) \in Nat /\ s \in [N -> S] /\ IsInjective(s)
    BY ListedInjectively
<1>2. Len(s) = Cardinality(S)
    BY <1>1
<1> HIDE DEF s
<1>3. \A i, j \in N : s[i] \in S /\ s[j] \in S /\ (s[i] = s[j] => i = j)
    BY <1>1 DEF IsInjective
<1>4. SingleQ(s)
  <2> SUFFICES ASSUME NEW i \in N, NEW j \in N,
                      BringsRow(s[i]) /\ BringsRow(s[j]) /\ s[i].cell = s[j].cell
               PROVE  i = j
      BY <1>2 DEF SingleQ
  <2>1. s[i] = s[j]
      BY <1>3 DEF Single
  <2> QED
      BY <1>3, <2>1
<1> QED
    BY <1>4 DEF s

\* Sequences that bring no cell twice, and none of another, are so when put together.
LEMMA FlattenedOnce ==
    ASSUME NEW S, NEW seqs \in Seq(Seq(S)),
           \A i \in 1 .. Len(seqs) : SingleQ(seqs[i]),
           \A i, j \in 1 .. Len(seqs) : i # j => Cargo(ToSet(seqs[i])) \cap Cargo(ToSet(seqs[j])) = {}
    PROVE  SingleQ(FlattenSeq(seqs))
<1>1. CASE Len(seqs) = 0
  <2>1. seqs = <<>>
      BY <1>1
  <2>2. FlattenSeq(seqs) = <<>>
      BY <1>1, <2>1 DEF FlattenSeq
  <2> QED
      BY <2>2, NothingCarried
<1>2. CASE Len(seqs) # 0
  <2>1. PICK f : Flattens(f, seqs, Len(seqs)) /\ FlattenSeq(seqs) = f[Len(seqs)]
      BY <1>2, FlattenedBy
  <2>2. Collects(f, seqs, S)
      BY ONLY <2>1, seqs \in Seq(Seq(S)), FlattenedSoFar
  <2>3. /\ Len(seqs) \in Nat /\ \A i \in 1 .. Len(seqs) : seqs[i] \in Seq(S)
        /\ \A i \in 1 .. Len(seqs) : f[i] = IF i = 1 THEN seqs[i] ELSE f[i - 1] \o seqs[i]
    <3>1. Len(seqs) \in Nat /\ \A i \in 1 .. Len(seqs) : seqs[i] \in Seq(S)
        OBVIOUS
    <3>2. f = [i \in 1 .. Len(seqs) |-> IF i = 1 THEN seqs[i] ELSE f[i - 1] \o seqs[i]]
        BY <2>1 DEF Flattens
    <3> QED
        BY <3>1, <3>2
  <2> DEFINE P == {n \in Nat : n \in 1 .. Len(seqs) => SingleQ(f[n])}
  <2>4. 0 \in P
      OBVIOUS
  <2>5. ASSUME NEW n \in Nat, n \in P, n + 1 \in 1 .. Len(seqs) PROVE SingleQ(f[n + 1])
    <3>1. CASE n = 0
      <4>1. n + 1 = 1 /\ 1 \in 1 .. Len(seqs) /\ f[1] = seqs[1]
          BY <2>3, <2>5, <3>1
      <4> QED
          BY <4>1
    <3>2. CASE n # 0
      <4>1. n \in 1 .. Len(seqs) /\ n + 1 # 1 /\ (n + 1) - 1 = n
          BY <2>3, <2>5, <3>2
      <4>2. /\ f[n + 1] = f[n] \o seqs[n + 1] /\ seqs[n + 1] \in Seq(S) /\ SingleQ(f[n])
            /\ SingleQ(seqs[n + 1])
          BY <2>3, <2>5, <4>1
      <4>3. f[n] \in Seq(S) /\ ToSet(f[n]) = UNION {ToSet(seqs[i]) : i \in 1 .. n}
          BY <2>2, <4>1 DEF Collects
      <4>4. Cargo(ToSet(f[n])) \cap Cargo(ToSet(seqs[n + 1])) = {}
        <5> SUFFICES ASSUME NEW c \in Cargo(ToSet(f[n])), c \in Cargo(ToSet(seqs[n + 1])) PROVE FALSE
            OBVIOUS
        <5>1. PICK t \in ToSet(f[n]) : BringsRow(t) /\ t.cell = c
            BY DEF Cargo
        <5>2. PICK i \in 1 .. n : t \in ToSet(seqs[i])
            BY <4>3
        <5>3. c \in Cargo(ToSet(seqs[i]))
            BY <5>1, <5>2 DEF Cargo
        <5>4. i \in 1 .. Len(seqs) /\ i # n + 1
            BY <2>3, <4>1
        <5> QED
            BY <2>5, <5>3, <5>4
      <4>5. SingleQ(f[n] \o seqs[n + 1])
        <5> DEFINE p == f[n]
                   q == seqs[n + 1]
        <5>1. /\ p \in Seq(S) /\ q \in Seq(S) /\ SingleQ(p) /\ SingleQ(q)
              /\ Cargo(ToSet(p)) \cap Cargo(ToSet(q)) = {}
            BY ONLY <4>2, <4>3, <4>4
        <5> HIDE DEF p, q
        <5>2. SingleQ(p \o q)
            BY ONLY <5>1, CargoJoined
        <5> QED
            BY ONLY <5>2 DEF p, q
      <4> QED
          BY ONLY <4>2, <4>5
    <3> QED
        BY <3>1, <3>2
  <2>6. \A n \in Nat : n \in P => n + 1 \in P
      BY <2>5, SMTT(30)
  <2> HIDE DEF P
  <2>7. Nat \subseteq P
      BY <2>4, <2>6, Induction
  <2>8. Len(seqs) \in P /\ Len(seqs) \in 1 .. Len(seqs)
      BY <1>2, <2>3, <2>7
  <2> QED
      BY <2>1, <2>8 DEF P
<1> QED
    BY <1>1, <1>2

\* What main puts on the list for step i.
StepTasks(i) ==
    SetToSeq(RegularTasks(i))
    \o (IF i > 1 /\ SameProj(i, i - 1) THEN SetToSeq(PaddingTasks(i - 1)) ELSE <<>>)
    \o (IF LastOfProj(i) THEN SetToSeq(PaddingTasks(i)) ELSE <<>>)

LEMMA PaddingListed ==
    ASSUME NEW i \in Steps
    PROVE  /\ SetToSeq(PaddingTasks(i)) \in Seq(Tasks) /\ SingleQ(SetToSeq(PaddingTasks(i)))
           /\ ToSet(SetToSeq(PaddingTasks(i))) = PaddingTasks(i) /\ Cargo(PaddingTasks(i)) = {}
           /\ \A t \in PaddingTasks(i) : t.kind = "padding_source"
<1> DEFINE C == Padding[RowSeq[i]] \ UNION {Padding[RowSeq[j]] : j \in {j \in 1 .. i - 1 : SameProj(i, j)}}
<1>1. PaddingTasks(i) = {Task(c, i, "padding_source") : c \in C}
    BY DEF PaddingTasks
<1>2. C \in SUBSET Cells
    BY RowList DEF Cells
<1> HIDE DEF C
<1>3. PaddingTasks(i) \subseteq Tasks /\ IsFiniteSet(PaddingTasks(i))
    BY <1>1, <1>2, TasksOfAStep DEF Kinds
<1>4. \A t \in PaddingTasks(i) : t.kind = "padding_source"
    BY <1>1 DEF Task
<1>5. Cargo(PaddingTasks(i)) = {} /\ Single(PaddingTasks(i))
    BY <1>4 DEF Cargo, Single, BringsRow
<1>6. /\ SetToSeq(PaddingTasks(i)) \in Seq(PaddingTasks(i))
      /\ ToSet(SetToSeq(PaddingTasks(i))) = PaddingTasks(i)
    BY <1>3, Listed
<1>7. Seq(PaddingTasks(i)) \subseteq Seq(Tasks)
    BY <1>3
<1> QED
    BY <1>3, <1>4, <1>5, <1>6, <1>7, ListedOnce

LEMMA RegularListed ==
    ASSUME NEW i \in Steps
    PROVE  /\ SetToSeq(RegularTasks(i)) \in Seq(Tasks) /\ SingleQ(SetToSeq(RegularTasks(i)))
           /\ ToSet(SetToSeq(RegularTasks(i))) = RegularTasks(i)
           /\ Cargo(RegularTasks(i)) = RowCells[RowSeq[i]]
           /\ \A t \in RegularTasks(i) : t.kind = "regular"
<1>1. RegularTasks(i) = {Task(c, i, "regular") : c \in RowCells[RowSeq[i]]}
    BY DEF RegularTasks
<1>2. RowCells[RowSeq[i]] \in SUBSET Cells
    BY RowList DEF Cells
<1>3. RegularTasks(i) \subseteq Tasks /\ IsFiniteSet(RegularTasks(i))
    BY <1>1, <1>2, TasksOfAStep DEF Kinds
<1>4. \A t \in RegularTasks(i) : t = Task(t.cell, i, "regular") /\ t.kind = "regular"
    BY <1>1 DEF Task
<1>5. Single(RegularTasks(i))
    BY <1>4 DEF Single
<1>6. Cargo(RegularTasks(i)) = RowCells[RowSeq[i]]
  <2>1. \A c \in RowCells[RowSeq[i]] : Task(c, i, "regular") \in RegularTasks(i) /\
          Task(c, i, "regular").cell = c
      BY <1>1 DEF Task
  <2>2. \A t \in RegularTasks(i) : BringsRow(t) /\ t.cell \in RowCells[RowSeq[i]]
      BY <1>1 DEF Task, BringsRow
  <2> QED
      BY <2>1, <2>2 DEF Cargo
<1>7. /\ SetToSeq(RegularTasks(i)) \in Seq(RegularTasks(i))
      /\ ToSet(SetToSeq(RegularTasks(i))) = RegularTasks(i)
    BY <1>3, Listed
<1>8. Seq(RegularTasks(i)) \subseteq Seq(Tasks)
    BY <1>3
<1> QED
    BY <1>3, <1>4, <1>5, <1>6, <1>7, <1>8, ListedOnce

LEMMA StepListed ==
    ASSUME NEW i \in Steps
    PROVE  /\ StepTasks(i) \in Seq(Tasks) /\ SingleQ(StepTasks(i))
           /\ Cargo(ToSet(StepTasks(i))) = RowCells[RowSeq[i]]
           /\ \A t \in ToSet(StepTasks(i)) : ~ IsHit(t)
           /\ LastOfProj(i) => PaddingTasks(i) \subseteq ToSet(StepTasks(i))
           /\ i > 1 /\ SameProj(i, i - 1) => PaddingTasks(i - 1) \subseteq ToSet(StepTasks(i))
<1> DEFINE before == i > 1 /\ SameProj(i, i - 1)
           p == SetToSeq(RegularTasks(i))
           q == IF before THEN SetToSeq(PaddingTasks(i - 1)) ELSE <<>>
           r == IF LastOfProj(i) THEN SetToSeq(PaddingTasks(i)) ELSE <<>>
<1>1. before => i - 1 \in Steps
    BY RowList
<1>2. /\ p \in Seq(Tasks) /\ SingleQ(p) /\ Cargo(ToSet(p)) = RowCells[RowSeq[i]]
      /\ \A t \in ToSet(p) : ~ IsHit(t)
    BY RegularListed DEF IsHit
<1>3. /\ q \in Seq(Tasks) /\ SingleQ(q) /\ Cargo(ToSet(q)) = {}
      /\ \A t \in ToSet(q) : ~ IsHit(t)
      /\ before => ToSet(q) = PaddingTasks(i - 1)
  <2>1. CASE before
      BY <1>1, <2>1, PaddingListed DEF IsHit
  <2>2. CASE ~ before
    <3>1. q = <<>>
        BY <2>2
    <3> HIDE DEF q, before
    <3> QED
        BY <2>2, <3>1, EmptyQueue, NothingCarried
  <2> QED
      BY <2>1, <2>2
<1>4. /\ r \in Seq(Tasks) /\ SingleQ(r) /\ Cargo(ToSet(r)) = {}
      /\ \A t \in ToSet(r) : ~ IsHit(t)
      /\ LastOfProj(i) => ToSet(r) = PaddingTasks(i)
  <2>1. CASE LastOfProj(i)
      BY <2>1, PaddingListed DEF IsHit
  <2>2. CASE ~ LastOfProj(i)
    <3>1. r = <<>>
        BY <2>2
    <3> HIDE DEF r
    <3> QED
        BY <2>2, <3>1, EmptyQueue, NothingCarried
  <2> QED
      BY <2>1, <2>2
<1>5. StepTasks(i) = p \o q \o r
    BY DEF StepTasks
<1> HIDE DEF p, q, r
<1>6. p \o q \in Seq(Tasks) /\ ToSet(p \o q) = ToSet(p) \cup ToSet(q)
    BY ONLY <1>2, <1>3, Concatenated
<1>7. SingleQ(p \o q) /\ Cargo(ToSet(p \o q)) = Cargo(ToSet(p)) \cup Cargo(ToSet(q))
  <2>1. p \in Seq(Tasks) /\ q \in Seq(Tasks) /\ Cargo(ToSet(p)) \cap Cargo(ToSet(q)) = {}
      BY ONLY <1>2, <1>3
  <2>2. SingleQ(p) /\ SingleQ(q)
      BY ONLY <1>2, <1>3
  <2> QED
      BY ONLY <2>1, <2>2, CargoJoined
<1>8. Cargo(ToSet(p \o q)) = RowCells[RowSeq[i]]
    BY ONLY <1>2, <1>3, <1>7
<1> DEFINE s == p \o q
<1>9. s \in Seq(Tasks) /\ Cargo(ToSet(s)) = RowCells[RowSeq[i]] /\ ToSet(s) = ToSet(p) \cup ToSet(q)
    BY <1>6, <1>8
<1>10. SingleQ(s)
    BY <1>7
<1>11. StepTasks(i) = s \o r
    BY <1>5
<1> HIDE DEF s
<1>12. s \o r \in Seq(Tasks) /\ ToSet(s \o r) = ToSet(s) \cup ToSet(r)
    BY ONLY <1>4, <1>9, Concatenated
<1>13. SingleQ(s \o r) /\ Cargo(ToSet(s \o r)) = Cargo(ToSet(s)) \cup Cargo(ToSet(r))
  <2>1. s \in Seq(Tasks) /\ r \in Seq(Tasks) /\ Cargo(ToSet(s)) \cap Cargo(ToSet(r)) = {}
      BY ONLY <1>4, <1>9
  <2>2. SingleQ(s) /\ SingleQ(r)
      BY ONLY <1>4, <1>10
  <2> QED
      BY ONLY <2>1, <2>2, CargoJoined
<1>14. StepTasks(i) \in Seq(Tasks) /\ ToSet(StepTasks(i)) = ToSet(p) \cup ToSet(q) \cup ToSet(r)
    BY ONLY <1>9, <1>11, <1>12
<1>15. Cargo(ToSet(StepTasks(i))) = RowCells[RowSeq[i]]
    BY ONLY <1>4, <1>9, <1>11, <1>13
<1>16. SingleQ(StepTasks(i))
    BY ONLY <1>11, <1>13
<1>17. \A t \in ToSet(StepTasks(i)) : ~ IsHit(t)
    BY ONLY <1>2, <1>3, <1>4, <1>14
<1> QED
    BY <1>3, <1>4, <1>14, <1>15, <1>16, <1>17

\* The list brings every cell of a row once, and the padding of every step.
LEMMA InterleavedTasksCover ==
    /\ InterleavedTasks \in Seq(Tasks) /\ SingleQ(InterleavedTasks)
    /\ Cargo(ToSet(InterleavedTasks)) = Regular
    /\ \A t \in ToSet(InterleavedTasks) : ~ IsHit(t)
    /\ \A i \in Steps : \A c \in Padding[RowSeq[i]] :
        \E t \in ToSet(InterleavedTasks) : t.cell = c /\ t.kind = "padding_source"
<1> DEFINE seqs == [i \in Steps |-> StepTasks(i)]
<1>1. InterleavedTasks = FlattenSeq(seqs)
    BY DEF InterleavedTasks, StepTasks
<1>2. /\ Len(RowSeq) \in Nat /\ Steps = 1 .. Len(RowSeq) /\ \A i \in Steps : RowSeq[i] \in Rows
      /\ \A r \in Rows : \E i \in Steps : r = RowSeq[i]
    BY RowList
<1>3. \A i \in Steps : seqs[i] = StepTasks(i)
    OBVIOUS
<1>4. seqs \in Seq(Seq(Tasks)) /\ DOMAIN seqs = Steps /\ Len(seqs) = Len(RowSeq)
    BY <1>2, StepListed
<1> HIDE DEF seqs
<1>5. /\ FlattenSeq(seqs) \in Seq(Tasks)
      /\ ToSet(FlattenSeq(seqs)) = UNION {ToSet(StepTasks(i)) : i \in Steps}
  <2>1. /\ FlattenSeq(seqs) \in Seq(Tasks)
        /\ ToSet(FlattenSeq(seqs)) = UNION {ToSet(seqs[i]) : i \in DOMAIN seqs}
      BY ONLY <1>4, Flattened
  <2> QED
      BY ONLY <1>3, <1>4, <2>1
<1>6. SingleQ(FlattenSeq(seqs))
  <2>1. \A i \in 1 .. Len(seqs) : SingleQ(seqs[i])
      BY <1>2, <1>3, <1>4, StepListed
  <2>2. ASSUME NEW i \in 1 .. Len(seqs), NEW j \in 1 .. Len(seqs), i # j
        PROVE  Cargo(ToSet(seqs[i])) \cap Cargo(ToSet(seqs[j])) = {}
    <3>1. i \in Steps /\ j \in Steps
        BY <1>2, <1>4
    <3>2. RowCells[RowSeq[i]] \cap RowCells[RowSeq[j]] = {}
        BY <2>2, <3>1, CellPipelineAssumption
    <3> QED
        BY <1>3, <3>1, <3>2, StepListed
  <2> QED
      BY ONLY <1>4, <2>1, <2>2, FlattenedOnce
<1>7. Cargo(ToSet(FlattenSeq(seqs))) = Regular
  <2>1. ASSUME NEW c \in Cargo(ToSet(FlattenSeq(seqs))) PROVE c \in Regular
    <3>1. PICK t \in ToSet(FlattenSeq(seqs)) : BringsRow(t) /\ t.cell = c
        BY DEF Cargo
    <3>2. PICK i \in Steps : t \in ToSet(StepTasks(i))
        BY <1>5
    <3>3. c \in Cargo(ToSet(StepTasks(i)))
        BY <3>1, <3>2 DEF Cargo
    <3>4. c \in RowCells[RowSeq[i]]
        BY <3>3, StepListed
    <3> QED
        BY <1>2, <3>4 DEF Regular
  <2>2. ASSUME NEW c \in Regular PROVE c \in Cargo(ToSet(FlattenSeq(seqs)))
    <3>1. PICK r \in Rows : c \in RowCells[r]
        BY DEF Regular
    <3>2. PICK i \in Steps : r = RowSeq[i]
        BY ONLY <1>2, r \in Rows
    <3>3. c \in Cargo(ToSet(StepTasks(i)))
        BY <3>1, <3>2, StepListed
    <3>4. PICK t \in ToSet(StepTasks(i)) : BringsRow(t) /\ t.cell = c
        BY <3>3 DEF Cargo
    <3> QED
        BY <1>5, <3>4 DEF Cargo
  <2> QED
      BY <2>1, <2>2
<1>8. \A t \in ToSet(FlattenSeq(seqs)) : ~ IsHit(t)
    BY <1>5, StepListed
<1>9. ASSUME NEW i \in Steps, NEW c \in Padding[RowSeq[i]]
      PROVE  \E t \in ToSet(FlattenSeq(seqs)) : t.cell = c /\ t.kind = "padding_source"
  \* The first step of the projection that c pads.
  <2> DEFINE T == {j \in Steps : SameProj(i, j) /\ c \in Padding[RowSeq[j]]}
  <2>1. T \in SUBSET Nat /\ i \in T
      BY <1>2 DEF SameProj
  <2>2. PICK m \in T : \A n \in T : m <= n
    <3> HIDE DEF T
    <3> QED
        BY <2>1, LeastNumber
  <2>3. m \in Steps /\ SameProj(i, m) /\ c \in Padding[RowSeq[m]]
      OBVIOUS
  <2>4. \A j \in 1 .. m - 1 : SameProj(m, j) => c \notin Padding[RowSeq[j]]
    <3> SUFFICES ASSUME NEW j \in 1 .. m - 1, SameProj(m, j), c \in Padding[RowSeq[j]] PROVE FALSE
        OBVIOUS
    <3>1. j \in Steps /\ j < m /\ j \in Int /\ m \in Int
        BY <1>2, <2>3
    <3>2. SameProj(i, j)
        BY <2>3 DEF SameProj
    <3>3. j \in T
        BY <3>1, <3>2
    <3> QED
        BY ONLY <2>2, <3>1, <3>3
  <2> HIDE DEF T
  <2>5. Task(c, m, "padding_source") \in PaddingTasks(m)
      BY <2>3, <2>4 DEF PaddingTasks
  <2>6. \E k \in Steps : PaddingTasks(m) \subseteq ToSet(StepTasks(k))
    <3>1. CASE LastOfProj(m)
        BY <2>3, <3>1, StepListed
    <3>2. CASE ~ LastOfProj(m)
      <4>1. m # Len(RowSeq) /\ SameProj(m, m + 1)
          BY <3>2 DEF LastOfProj
      <4>2. m + 1 \in Steps /\ m + 1 > 1 /\ (m + 1) - 1 = m
          BY <1>2, <2>3, <4>1
      <4>3. SameProj(m + 1, (m + 1) - 1)
          BY <4>1, <4>2 DEF SameProj
      <4>4. PaddingTasks((m + 1) - 1) \subseteq ToSet(StepTasks(m + 1))
          BY <4>2, <4>3, StepListed
      <4> QED
          BY <4>2, <4>4
    <3> QED
        BY <3>1, <3>2
  <2>7. Task(c, m, "padding_source") \in ToSet(FlattenSeq(seqs))
      BY <1>5, <2>5, <2>6
  <2>8. Task(c, m, "padding_source").cell = c /\ Task(c, m, "padding_source").kind = "padding_source"
      BY DEF Task
  <2> QED
      BY <2>7, <2>8
<1> QED
    BY <1>1, <1>5, <1>6, <1>7, <1>8, <1>9

(****************************************************************************)
(* The whole invariant                                                      *)
(****************************************************************************)
CalmInv == FlowInv /\ GatheredInv /\ CountInv /\ HitInv /\ PaddingKept /\ ManualInv

CacheInv == mode = "rows" => RowTypes /\ OnceInv /\ RowKept /\ (Calm => CalmInv)

\* Every use a cell is counted for is one main makes: its padding steps and its own row.
LEMMA CountAtStart ==
    ASSUME uses = [c \in Cells |-> CacheUses(c)], Coming \subseteq Regular
    PROVE  uses \in [Cells -> Nat] /\ CountInv
<1>1. \A c : Cardinality({i \in Steps : c \in Padding[RowSeq[i]]}) \in Nat
          /\ IsFiniteSet({i \in Steps : c \in Padding[RowSeq[i]]})
  <2> TAKE c
  <2>1. IsFiniteSet(Steps)
      BY RowList, FS_Interval
  <2>2. IsFiniteSet({i \in Steps : c \in Padding[RowSeq[i]]})
    <3>1. {i \in Steps : c \in Padding[RowSeq[i]]} \subseteq Steps
        OBVIOUS
    <3> QED
        BY ONLY <2>1, <3>1, FS_Subset
  <2> QED
      BY <2>2, FS_CardinalityType
<1>2. \A c : PaddingSteps(c) \in Nat /\ DualRole(c) \in {0, 1}
    BY <1>1 DEF PaddingSteps, DualRole
<1>3. uses \in [Cells -> Nat]
    BY <1>2 DEF CacheUses
<1>4. ASSUME NEW c \in Cells
      PROVE  /\ uses[c] > 0 => PaddingSteps(c) # 0
             /\ PaddingSteps(c) # 0 => uses[c] >= Cardinality(PaddingTodo(c)) + Owed(c)
  <2>1. uses[c] = IF PaddingSteps(c) = 0 THEN 0 ELSE PaddingSteps(c) + DualRole(c)
      BY DEF CacheUses
  <2>2. PaddingTodo(c) \subseteq {i \in Steps : c \in Padding[RowSeq[i]]}
      BY DEF PaddingTodo, Todo
  <2>3. Cardinality(PaddingTodo(c)) <= PaddingSteps(c)
      BY <1>1, <2>2, FS_Subset DEF PaddingSteps
  <2>4. Cardinality(PaddingTodo(c)) \in Nat
      BY <1>1, <2>2, FS_Subset, FS_CardinalityType
  <2>5. Owed(c) = 1 => DualRole(c) = 1
    <3>1. (\E i \in Todo : c \in RowCells[RowSeq[i]]) => c \in Regular
        BY RowList DEF Todo, Regular
    <3> QED
        BY <3>1 DEF Owed, DualRole
  <2>6. Owed(c) \in {0, 1}
      BY DEF Owed
  <2> QED
      BY ONLY <1>2, <2>1, <2>3, <2>4, <2>5, <2>6
<1> QED
    BY <1>3, <1>4 DEF CountInv

LEMMA InitCache == Init => CacheInv
<1> SUFFICES ASSUME Init, mode = "rows" PROVE RowTypes /\ OnceInv /\ RowKept /\ CalmInv
    BY DEF CacheInv
<1>1. /\ tasks = InterleavedTasks /\ reading = {} /\ rawQ = <<>> /\ combining = {} /\ combQ = <<>>
      /\ coord = "loop" /\ sentinels = 0 /\ active = {} /\ pending = <<>> /\ outQ = <<>>
      /\ uses = [c \in Cells |-> CacheUses(c)] /\ arrived = {} /\ manual = {} /\ step = 1
    BY DEF Init
<1>2. pc \in {"current", "end"} /\ (pc = "current" => RowSeq # <<>>)
  <2>1. CASE RowSeq # <<>>
      BY <2>1 DEF Init
  <2>2. CASE RowSeq = <<>>
      BY <2>2 DEF Init
  <2> QED
      BY <2>1, <2>2
<1>3. RowSeq # <<>> => 1 \in Steps
  <2>1. RowSeq \in Seq(Rows)
      BY CellPipelineAssumption
  <2> QED
      BY <2>1 DEF Steps
<1>4. /\ tasks \in Seq(Tasks) /\ SingleQ(tasks) /\ Cargo(ToSet(tasks)) = Regular
      /\ \A t \in ToSet(tasks) : ~ IsHit(t)
      /\ \A i \in Steps : \A c \in Padding[RowSeq[i]] :
            \E t \in ToSet(tasks) : t.cell = c /\ t.kind = "padding_source"
    BY <1>1, InterleavedTasksCover
<1>5. ToSet(rawQ) = {} /\ ToSet(combQ) = {} /\ ToSet(pending) = {} /\ ToSet(outQ) = {}
    BY <1>1, EmptyQueue
<1>6. ToSet(tasks) \subseteq Tasks
    BY <1>4 DEF ToSet
<1>7. Upstream = ToSet(tasks)
    BY <1>1, <1>5, <1>6, NoneIsNoTask DEF Upstream
<1>8. Coming = Regular
    BY <1>4, <1>7 DEF Coming
<1>9. uses \in [Cells -> Nat] /\ CountInv
    BY <1>1, <1>8, CountAtStart
<1>10. RowTypes
  <2>1. Looping => step \in Steps
      BY <1>1, <1>2, <1>3 DEF Looping
  <2>2. rawQ \in Seq(Bundles) /\ combQ \in Seq(Bundles) /\ pending \in Seq(Cells) /\ outQ \in Seq(Cells)
      BY <1>1, EmptyQueue
  <2> QED
      BY <1>1, <1>2, <1>4, <1>9, <2>1, <2>2 DEF RowTypes
<1>11. OnceInv
  <2>1. /\ Cargo(reading) = {} /\ Cargo(ToSet(rawQ)) = {} /\ Cargo(combining) = {} /\
             Cargo(ToSet(combQ)) = {}
        /\ Cargo(active) = {}
      BY <1>1, <1>5, NothingCarried
  <2>2. Single(reading) /\ SingleQ(rawQ) /\ Single(combining) /\ SingleQ(combQ)
      BY <1>1, NothingCarried
  <2>3. Begun = {}
      BY <1>1, <1>5, <2>1 DEF Begun, Read, Fetched, Combined, Collected
  <2> QED
      BY <1>4, <2>1, <2>2, <2>3 DEF OnceInv
<1>12. RowKept
    BY <1>8 DEF RowKept
<1>13. FlowInv
    BY <1>1, <1>5 DEF FlowInv
<1>14. GatheredInv
    BY <1>2 DEF GatheredInv
<1>15. HitInv
    BY <1>4, <1>7 DEF HitInv
<1>16. PaddingKept
  <2>1. Todo \subseteq Steps
      BY DEF Todo
  <2> QED
      BY <1>4, <1>7, <2>1 DEF PaddingKept
<1>17. ManualInv
    BY <1>1 DEF ManualInv
<1> QED
    BY <1>9, <1>10, <1>11, <1>12, <1>13, <1>14, <1>15, <1>16, <1>17 DEF CalmInv

LEMMA NextCache == CacheInv /\ [Next]_vars => CacheInv'
<1> SUFFICES ASSUME CacheInv, [Next]_vars, mode' = "rows"
             PROVE  RowTypes' /\ OnceInv' /\ RowKept' /\ (Calm' => CalmInv')
    BY DEF CacheInv
<1>1. mode = "rows"
    BY ModeStays
<1>2. RowTypes /\ OnceInv /\ RowKept /\ (Calm => CalmInv)
    BY <1>1 DEF CacheInv
<1>3. RowTypes' /\ OnceInv' /\ RowKept'
    BY <1>1, <1>2, TypesStay, OnceStays, RowKeeps
<1>4. ASSUME Calm' PROVE CalmInv'
  <2>1. Calm
      BY <1>4, CalmBefore
  <2>2. FlowInv /\ GatheredInv /\ CountInv /\ HitInv /\ PaddingKept /\ ManualInv
      BY <1>2, <2>1 DEF CalmInv
  <2>3. FlowInv' /\ GatheredInv'
      BY <1>1, <1>2, <1>4, <2>2, FlowStays, GatheredStays
  <2>4. CountInv' /\ HitInv' /\ PaddingKept'
      BY <1>1, <1>2, <2>2, CountStays, HitsStay, PaddingKeeps
  <2>5. ManualInv'
      BY <1>1, <1>2, <1>4, <2>2, ManualStays
  <2> QED
      BY <2>3, <2>4, <2>5 DEF CalmInv
<1> QED
    BY <1>3, <1>4

\* A run that only publishes has no hits, and main loads nothing by itself.
NoShortcuts == mode = "publish" => (\A t \in Upstream : ~ IsHit(t)) /\ manual = {}

LEMMA InitShortcuts == Init => NoShortcuts
<1> SUFFICES ASSUME Init, mode = "publish" PROVE (\A t \in Upstream : ~ IsHit(t)) /\ manual = {}
    BY DEF NoShortcuts
<1>1. tasks = PublishTasks /\ reading = {} /\ rawQ = <<>> /\ combining = {} /\ combQ = <<>> /\ manual = {}
    BY DEF Init
<1>2. Upstream \subseteq ToSet(PublishTasks)
    BY <1>1, EmptyQueue DEF Upstream
<1> QED
    BY <1>1, <1>2, PublishTasksCover

LEMMA NextShortcuts == ChainInv /\ NoShortcuts /\ [Next]_vars => NoShortcuts'
<1> SUFFICES ASSUME ChainInv, NoShortcuts, [Next]_vars, mode' = "publish"
             PROVE  (\A t \in Upstream' : ~ IsHit(t)) /\ manual' = {}
    BY DEF NoShortcuts, IsHit
<1>1. mode = "publish"
    BY ModeStays
<1>2. ChainBody
    BY <1>1 DEF ChainInv, ChainBody
<1>3. ~ AssembleRows
    BY <1>2, OnlyPublishes
<1>4. (\A t \in Upstream : ~ IsHit(t)) /\ manual = {}
    BY <1>1 DEF NoShortcuts
<1>5. /\ tasks \in Seq(Tasks) /\ rawQ \in Seq(Bundles) /\ combQ \in Seq(Bundles)
      /\ reading \subseteq Tasks /\ combining \subseteq Tasks
    BY <1>2 DEF ChainBody, QueueTypes
<1>6. UNCHANGED manual
  <2>1. CASE Coordinate
      BY <2>1 DEF Coordinate, Flush, Collect, TakeCombined, GiveUpFuture, GiveUpResults, EndCoordinator,
         WriteBandCells, main
  <2> QED
      BY <1>3, <2>1 DEF Next, Work, Ingest, TakeTask, PutRaw, FindAbsent, FailFetch, Combine, TakeRaw,
         PutCombined, FailCombine, ForwardSentinel, WindDown, AwaitThreads, SendSentinel, EndResults,
         Report, OnlyPc, Save, BreakPool, vars, main
<1>7. Upstream' \subseteq Upstream
  <2>1. CASE UNCHANGED <<tasks, reading, rawQ, combining, combQ>>
      BY <2>1 DEF Upstream
  <2>2. CASE TakeTask
    <3>1. tasks # <<>> /\ tasks' = Tail(tasks) /\ UNCHANGED <<rawQ, combining, combQ>>
        BY <2>2 DEF TakeTask
    <3>2. ToSet(tasks) = {Head(tasks)} \cup ToSet(tasks')
        BY <1>5, <3>1, Taken
    <3>3. reading' \subseteq reading \cup {Head(tasks)}
        BY <1>1, <2>2 DEF TakeTask, StoreHit
    <3> QED
        BY <3>1, <3>2, <3>3 DEF Upstream
  <2>3. ASSUME NEW t \in reading, PutRaw(t) \/ FindAbsent(t) \/ FailFetch(t)
        PROVE  Upstream' \subseteq Upstream
    <3>1. /\ reading' = reading \ {t} /\ UNCHANGED <<tasks, combining, combQ>>
          /\ rawQ' \in {rawQ, Append(rawQ, t)}
        BY <2>3 DEF PutRaw, FindAbsent, FailFetch
    <3>2. t \in Bundles
        BY <1>5, NoneIsNoTask
    <3>3. ToSet(Append(rawQ, t)) = ToSet(rawQ) \cup {t}
        BY <1>5, <3>2, Appended
    <3>4. ToSet(rawQ') \subseteq ToSet(rawQ) \cup {t}
        BY <3>1, <3>3
    <3> QED
        BY ONLY <2>3, <3>1, <3>4 DEF Upstream
  <2>4. CASE TakeRaw
    <3>1. rawQ # <<>> /\ rawQ' = Tail(rawQ) /\ UNCHANGED <<tasks, reading, combQ>>
        BY <2>4 DEF TakeRaw
    <3>2. ToSet(rawQ) = {Head(rawQ)} \cup ToSet(rawQ')
        BY <1>5, <3>1, Taken
    <3>3. combining' \subseteq combining \cup {Head(rawQ)}
        BY <2>4 DEF TakeRaw
    <3> QED
        BY <3>1, <3>2, <3>3 DEF Upstream
  <2>5. ASSUME NEW t \in combining, PutCombined(t) \/ FailCombine(t) PROVE Upstream' \subseteq Upstream
    <3>1. /\ combining' = combining \ {t} /\ UNCHANGED <<tasks, reading, rawQ>>
          /\ combQ' \in {combQ, Append(combQ, t)}
        BY <2>5 DEF PutCombined, FailCombine
    <3>2. t \in Bundles
        BY <1>5, NoneIsNoTask
    <3>3. ToSet(Append(combQ, t)) = ToSet(combQ) \cup {t}
        BY <1>5, <3>2, Appended
    <3>4. ToSet(combQ') \subseteq ToSet(combQ) \cup {t}
        BY <3>1, <3>3
    <3> QED
        BY ONLY <2>5, <3>1, <3>4 DEF Upstream
  <2>6. CASE ForwardSentinel
    <3>1. combQ' = Append(combQ, None) /\ UNCHANGED <<tasks, reading, rawQ, combining>>
        BY <2>6 DEF ForwardSentinel
    <3>2. ToSet(Append(combQ, None)) = ToSet(combQ) \cup {None}
        BY <1>5, SentinelCarriesNothing, Appended
    <3> QED
        BY <3>1, <3>2 DEF Upstream
  <2>7. CASE TakeCombined
    <3>1. combQ # <<>> /\ combQ' = Tail(combQ) /\ UNCHANGED <<tasks, reading, rawQ, combining>>
        BY <2>7 DEF TakeCombined
    <3>2. ToSet(combQ) = {Head(combQ)} \cup ToSet(combQ')
        BY <1>5, <3>1, Taken
    <3> QED
        BY <3>1, <3>2 DEF Upstream
  <2>8. CASE (Coordinate \/ BreakPool) /\ ~ TakeCombined
    <3>1. UNCHANGED <<tasks, reading, rawQ, combining, combQ>>
        BY <2>8 DEF Coordinate, Flush, Collect, GiveUpFuture, GiveUpResults, EndCoordinator,
           WriteBandCells, BreakPool, front
    <3> QED
        BY <2>1, <3>1
  <2>9. CASE WindDown
    <3>1. UNCHANGED <<tasks, reading, combining, combQ>>
        BY <2>9 DEF WindDown, AwaitThreads, SendSentinel, EndResults, Report, OnlyPc, front
    <3>2. ToSet(rawQ') \subseteq ToSet(rawQ) \cup {None}
      <4>1. CASE Report
        <5>1. rawQ' = rawQ \/ rawQ' = rawQ \o [i \in 1 .. Combiners |-> None]
            BY <4>1 DEF Report
        <5>2. /\ [i \in 1 .. Combiners |-> None] \in Seq(Bundles)
              /\ ToSet([i \in 1 .. Combiners |-> None]) \subseteq {None}
          <6>1. Combiners \in Nat /\ None \in Bundles
              BY CountsAreNat, SentinelCarriesNothing
          <6> QED
              BY <6>1 DEF ToSet
        <5>3. ToSet(rawQ \o [i \in 1 .. Combiners |-> None]) =
                ToSet(rawQ) \cup ToSet([i \in 1 .. Combiners |-> None])
            BY <1>5, <5>2, Concatenated
        <5> QED
            BY <5>1, <5>2, <5>3
      <4>2. CASE SendSentinel
        <5>1. rawQ' = Append(rawQ, None)
            BY <4>2 DEF SendSentinel
        <5> QED
            BY <1>5, <5>1, SentinelCarriesNothing, Appended
      <4>3. CASE AwaitThreads \/ EndResults
          BY <4>3 DEF AwaitThreads, EndResults, OnlyPc, front
      <4> QED
          BY <2>9, <4>1, <4>2, <4>3 DEF WindDown
    <3> QED
        BY <3>1, <3>2 DEF Upstream
  <2>10. CASE Save \/ UNCHANGED vars
    <3>1. UNCHANGED <<tasks, reading, rawQ, combining, combQ>>
        BY <2>10 DEF Save, vars, front
    <3> QED
        BY <2>1, <3>1
  <2> QED
      BY <1>3, <2>2, <2>3, <2>4, <2>5, <2>6, <2>7, <2>8, <2>9, <2>10 DEF Next, Work, Ingest, Combine
<1> QED
    BY <1>4, <1>6, <1>7

ModeKnown == mode \in {"publish", "rows"}

LEMMA ModesKnown == Spec => []ModeKnown
<1>1. Init => ModeKnown
    BY CellPipelineAssumption DEF Init, ModeKnown
<1>2. ModeKnown /\ [Next]_vars => ModeKnown'
    BY ModeStays DEF ModeKnown
<1> QED
    BY <1>1, <1>2, PTL DEF Spec

\* A bundle sent as a cache hit finds its cell in the band cache: a step evicts a cell
\* only when its row and every row it pads are behind main, for any rows and paddings.
THEOREM HitsStayInCache == Spec => []HitsStayCached
<1>1. CacheInv /\ NoShortcuts /\ ModeKnown => HitsStayCached
    BY DEF ModeKnown, CacheInv, NoShortcuts, CalmInv, HitInv, Calm, HitsStayCached
<1> QED
    BY <1>1, InitCache, NextCache, InitShortcuts, NextShortcuts, InitChain, NextChain, ModesKnown, PTL
       DEF Spec

\* Main loads by itself only what was lost on the way or does not exist: no result it has
\* still to use is overlooked, whatever the order the threads deliver them in.
THEOREM ManualKeepsItsCause == Spec => []ManualHasCause
<1>1. CacheInv /\ NoShortcuts /\ ModeKnown => ManualHasCause
    BY DEF ModeKnown, CacheInv, NoShortcuts, CalmInv, ManualInv, Calm, ManualHasCause
<1> QED
    BY <1>1, InitCache, NextCache, InitShortcuts, NextShortcuts, InitChain, NextChain, ModesKnown, PTL
       DEF Spec

(****************************************************************************)
(* Types and bounds                                                         *)
(****************************************************************************)
\* What main puts into the results queue.
Sent == {"row", "end"}

LEMMA SentTo == "row" \in Sent /\ "end" \in Sent
BY DEF Sent

\* The bounds of what hands can hold and queues can keep.
SizesInv ==
    /\ IsFiniteSet(reading) /\ Cardinality(reading) <= Readers
    /\ IsFiniteSet(combining)
    /\ IsFiniteSet(writing) /\ Cardinality(writing) <= WriteCap
    /\ Len(rawQ) <= RawCap
    /\ Len(combQ) <= CombCap
    /\ results \in Seq(Sent) /\ Len(results) <= ResCap

\* A publishing run that ends sends its sentinels again, into a queue that is empty.
SpentInv ==
    mode = "publish" /\ alive = 0 /\ pc \in {"combiners", "coordinator", "end", "report"} => rawQ = <<>>

\* Every combiner ends once and answers with one sentinel at most.
CountsInv ==
    /\ alive \in Nat /\ sentinels \in Nat /\ alive + sentinels <= Combiners
    /\ sent \in 0 .. Combiners
    /\ pc \in {"ingest", "current", "next", "padding", "emit"} => sent = 0
    /\ mode = "rows" /\ pc = "end" => sent = 0
    /\ pc = "sentinels" => sent < Combiners
    /\ coord \in {"loop", "drain", "done"}
    /\ saver \in {"open", "gone", "done"}

\* What the threads and main know of cells.
CellsInv ==
    /\ mode \in Modes /\ archive \subseteq Cells /\ past \subseteq FaultKinds
    /\ writing \subseteq Cells /\ lost \subseteq Cells
    /\ published \subseteq Cells /\ absent \subseteq Cells /\ cache \subseteq Cells
    /\ uses \in [Cells -> Nat]
    /\ placed \subseteq Regular /\ manual \subseteq Cells /\ assembled \subseteq Rows
    /\ step \in Steps \cup {1}

\* What comes to main is of a row.
ArrivalsInv ==
    /\ mode = "rows" => Coming \cup Cargo(active) \subseteq Regular
    /\ pending \in Seq(Regular)
    /\ outQ \in Seq(Regular) /\ Len(outQ) <= OutCap
    /\ arrived \subseteq Regular

TypeInv == SizesInv /\ SpentInv /\ CountsInv /\ CellsInv /\ ArrivalsInv

\* What the invariants of the two modes say of the hands and queues.
QueuesTyped ==
    /\ tasks \in Seq(Tasks) /\ reading \subseteq Tasks
    /\ rawQ \in Seq(Bundles)
    /\ combining \subseteq Tasks
    /\ combQ \in Seq(Bundles)
    /\ active \subseteq Tasks

LEMMA QueuesAreTyped == ModeKnown /\ ChainInv /\ CacheInv => QueuesTyped
BY DEF ModeKnown, ChainInv, CacheInv, QueueTypes, RowTypes, QueuesTyped

LEMMA RegularAreCells ==
    /\ Regular \subseteq Cells
    /\ \A r \in Rows : RowCells[r] \subseteq Regular /\ Padding[r] \subseteq Cells
BY DEF Regular, Cells

LEMMA SetStaysSmall ==
    ASSUME NEW S, IsFiniteSet(S), NEW x
    PROVE  /\ IsFiniteSet(S \cup {x}) /\ IsFiniteSet(S \ {x})
           /\ Cardinality(S \ {x}) <= Cardinality(S)
           /\ \A n \in Nat : Cardinality(S) < n => Cardinality(S \cup {x}) <= n
<1>1. Cardinality(S) \in Nat
    BY FS_CardinalityType
<1>2. IsFiniteSet(S \cup {x}) /\ Cardinality(S \cup {x}) \in {Cardinality(S), Cardinality(S) + 1}
    BY FS_AddElement
<1>3. IsFiniteSet(S \ {x}) /\ Cardinality(S \ {x}) <= Cardinality(S)
    BY FS_Subset
<1> QED
    BY <1>1, <1>2, <1>3

LEMMA BoundsAreNat ==
    {Readers, RawCap, CombCap, OutCap, ResCap, Throttle, WriteCap} \subseteq Nat \ {0}
BY CellPipelineAssumption

LEMMA PastKept == past \subseteq FaultKinds /\ (UNCHANGED past \/ \E k : Fault(k)) => past' \subseteq FaultKinds
BY DEF Fault

\* The sizes, stage by stage.
LEMMA IngestSizes ==
    ASSUME SizesInv, QueuesTyped, Ingest
    PROVE  SizesInv'
<1> USE DEF SizesInv
<1>1. UNCHANGED <<writing, combining, combQ, results>>
    BY DEF Ingest, TakeTask, PutRaw, FindAbsent, FailFetch, back, tail
<1>2. CASE TakeTask
  <2>1. /\ Cardinality(reading) < Readers /\ UNCHANGED rawQ
        /\ reading' = reading \/ \E t : reading' = reading \cup {t}
    <3> DEFINE t == Head(tasks)
    <3>1. AlreadyDone(t) => ~ StoreHit(t)
        BY DEF AlreadyDone, StoreHit
    <3>2. /\ Cardinality(reading) < Readers /\ UNCHANGED rawQ
          /\ AlreadyDone(t) => reading' = reading
          /\ StoreHit(t) => reading' = reading \cup {[t EXCEPT !.kind = "regular_cache_hit"]}
          /\ ~ AlreadyDone(t) /\ ~ StoreHit(t) => reading' = reading \cup {t}
      <4> HIDE DEF t
      <4>1. /\ Cardinality(reading) < Readers /\ UNCHANGED rawQ
            /\ reading' = CASE AlreadyDone(t) -> reading
                            [] StoreHit(t) -> reading \cup {[t EXCEPT !.kind = "regular_cache_hit"]}
                            [] OTHER -> reading \cup {t}
          BY <1>2 DEF TakeTask, t
      <4> QED
          BY <3>1, <4>1
    <3> QED
        BY <3>2
  <2>2. IsFiniteSet(reading') /\ Cardinality(reading') <= Readers
      BY <2>1, SetStaysSmall, BoundsAreNat
  <2> QED
      BY <1>1, <2>1, <2>2
<1>3. ASSUME NEW t \in reading, PutRaw(t) \/ FindAbsent(t) \/ FailFetch(t) PROVE SizesInv'
  <2>1. reading' = reading \ {t}
      BY <1>3 DEF PutRaw, FindAbsent, FailFetch
  <2>2. IsFiniteSet(reading') /\ Cardinality(reading') <= Readers
    <3>1. Cardinality(reading) \in Nat /\ Cardinality(reading') \in Nat /\ IsFiniteSet(reading')
            /\ Cardinality(reading') <= Cardinality(reading)
        BY <2>1, SetStaysSmall, FS_CardinalityType
    <3> QED
        BY <3>1, BoundsAreNat
  <2>3. Len(rawQ') <= RawCap
    <3>1. rawQ' = rawQ \/ (Len(rawQ) < RawCap /\ rawQ' = Append(rawQ, t))
        BY <1>3 DEF PutRaw, FindAbsent, FailFetch
    <3>2. rawQ \in Seq(Bundles) /\ t \in Bundles
        BY NoneIsNoTask DEF QueuesTyped
    <3> QED
        BY <3>1, <3>2, Appended, BoundsAreNat
  <2> QED
      BY <1>1, <2>2, <2>3
<1> QED
    BY <1>2, <1>3 DEF Ingest

LEMMA CombineSizes ==
    ASSUME SizesInv, QueuesTyped, Combine
    PROVE  SizesInv'
<1>1. UNCHANGED <<reading, writing, results>>
    BY DEF Combine, TakeRaw, PutCombined, FailCombine, ForwardSentinel, back, tail
<1>2. rawQ \in Seq(Bundles) /\ combQ \in Seq(Bundles) /\ Len(rawQ) <= RawCap /\ Len(combQ) <= CombCap
    BY DEF QueuesTyped, SizesInv
<1>3. Len(rawQ') <= RawCap
  <2>1. rawQ' = rawQ \/ (rawQ # <<>> /\ rawQ' = Tail(rawQ))
      BY DEF Combine, TakeRaw, PutCombined, FailCombine, ForwardSentinel
  <2> QED
      BY <1>2, <2>1, Taken, BoundsAreNat
<1>4. Len(combQ') <= CombCap
  <2>1. \/ combQ' = combQ
        \/ Len(combQ) < CombCap /\ \E t \in Bundles : combQ' = Append(combQ, t)
    <3>1. None \in Bundles /\ \A t \in combining : t \in Bundles
        BY NoneIsNoTask, SentinelCarriesNothing DEF QueuesTyped
    <3> QED
        BY <3>1 DEF Combine, TakeRaw, PutCombined, FailCombine, ForwardSentinel
  <2> QED
      BY <1>2, <2>1, Appended, BoundsAreNat
<1>5. IsFiniteSet(combining')
  <2>1. combining' = combining \/ (\E t : combining' = combining \cup {t}) \/ (\E t : combining' = combining \ {t})
      BY DEF Combine, TakeRaw, PutCombined, FailCombine, ForwardSentinel
  <2>2. IsFiniteSet(combining) /\ \A t : IsFiniteSet(combining \cup {t}) /\ IsFiniteSet(combining \ {t})
      BY SetStaysSmall DEF SizesInv
  <2> QED
      BY ONLY <2>1, <2>2
<1> QED
    BY <1>1, <1>3, <1>4, <1>5 DEF SizesInv

LEMMA CoordinateSizes ==
    ASSUME SizesInv, QueuesTyped, Coordinate \/ BreakPool
    PROVE  SizesInv'
<1>1. UNCHANGED <<reading, rawQ, combining, results>>
    BY DEF Coordinate, Flush, Collect, TakeCombined, GiveUpFuture, GiveUpResults, EndCoordinator,
       WriteBandCells, BreakPool, front, tail
<1>2. combQ \in Seq(Bundles) /\ Len(combQ) <= CombCap /\ IsFiniteSet(writing) /\ Cardinality(writing) <= WriteCap
    BY DEF QueuesTyped, SizesInv
<1>3. Len(combQ') <= CombCap
  <2>1. combQ' = combQ \/ (combQ # <<>> /\ combQ' = Tail(combQ))
      BY DEF Coordinate, Flush, Collect, TakeCombined, GiveUpFuture, GiveUpResults, EndCoordinator,
         WriteBandCells, BreakPool, front
  <2> QED
      BY <1>2, <2>1, Taken, BoundsAreNat
<1>4. IsFiniteSet(writing') /\ Cardinality(writing') <= WriteCap
  <2>1. \/ writing' = writing
        \/ \E c : Cardinality(writing) < WriteCap /\ writing' = writing \cup {c}
        \/ \E c : writing' = writing \ {c}
    <3>1. ASSUME NEW c, Publish(c) PROVE writing' = writing \/ (Cardinality(writing) < WriteCap /\ writing' = writing \cup {c})
        BY <3>1 DEF Publish
    <3>2. CASE TakeCombined
      <4>1. writing' = writing \/ \E c : Publish(c)
          BY <3>2 DEF TakeCombined
      <4> QED
          BY <3>1, <4>1
    <3>3. ASSUME NEW t, Collect(t) PROVE writing' = writing \/ \E c : Publish(c)
        BY <3>3 DEF Collect
    <3>4. ASSUME NEW c, WriteBandCells(c) PROVE writing' = writing \ {c}
        BY <3>4 DEF WriteBandCells
    <3>5. CASE BreakPool \/ Flush \/ GiveUpResults \/ EndCoordinator \/ \E t \in active : GiveUpFuture(t)
        BY <3>5 DEF BreakPool, Flush, GiveUpResults, EndCoordinator, GiveUpFuture, back
    <3> QED
        BY <3>1, <3>2, <3>3, <3>4, <3>5 DEF Coordinate
  <2>2. WriteCap \in Nat /\ Cardinality(writing) \in Nat
      BY <1>2, BoundsAreNat, FS_CardinalityType
  <2>3. ASSUME NEW c, writing' = writing \ {c} PROVE IsFiniteSet(writing') /\ Cardinality(writing') <= WriteCap
    <3>1. IsFiniteSet(writing') /\ Cardinality(writing') <= Cardinality(writing)
        BY <1>2, <2>3, SetStaysSmall
    <3>2. Cardinality(writing') \in Nat
        BY <3>1, FS_CardinalityType
    <3> QED
        BY <1>2, <2>2, <3>1, <3>2
  <2>4. ASSUME NEW c, Cardinality(writing) < WriteCap, writing' = writing \cup {c}
        PROVE  IsFiniteSet(writing') /\ Cardinality(writing') <= WriteCap
      BY <1>2, <2>2, <2>4, SetStaysSmall
  <2> QED
      BY <1>2, <2>1, <2>3, <2>4
<1> QED
    BY <1>1, <1>3, <1>4 DEF SizesInv

LEMMA AssembleSizes ==
    ASSUME SizesInv, AssembleRows
    PROVE  SizesInv'
<1>1. UNCHANGED <<reading, writing, rawQ, combining, combQ>>
    BY DEF AssembleRows, Receive, Gathered, GatherTimesOut, PaddingReady, PaddingTimesOut, FailRow,
       Emit, front, back
<1>2. results' = results \/ (Len(results) < ResCap /\ results' = Append(results, "row"))
    BY DEF AssembleRows, Receive, Gathered, GatherTimesOut, PaddingReady, PaddingTimesOut, FailRow,
       Emit, tail
<1>3. results' \in Seq(Sent) /\ Len(results') <= ResCap
  <2>1. results \in Seq(Sent) /\ Len(results) <= ResCap
      BY DEF SizesInv
  <2>2. /\ Append(results, "row") \in Seq(Sent) /\ Len(Append(results, "row")) = Len(results) + 1
        /\ Len(results) \in Nat
      BY ONLY <2>1, SentTo, Appended
  <2>3. ResCap \in Nat
      BY BoundsAreNat
  <2> QED
      BY ONLY <1>2, <2>1, <2>2, <2>3
<1> QED
    BY <1>1, <1>3 DEF SizesInv

LEMMA WindDownSizes ==
    ASSUME SizesInv, SpentInv, QueuesTyped, ModeKnown, ChainInv, CacheInv, WindDown \/ Save
    PROVE  SizesInv'
<1>1. UNCHANGED <<reading, writing, combining, combQ>>
    BY DEF WindDown, AwaitThreads, SendSentinel, EndResults, Report, OnlyPc, Save, front, back
<1>2. results' \in Seq(Sent) /\ Len(results') <= ResCap
  <2>1. \/ results' = results
        \/ Len(results) < ResCap /\ results' = Append(results, "end")
        \/ results # <<>> /\ results' = Tail(results)
      BY DEF WindDown, AwaitThreads, SendSentinel, EndResults, Report, OnlyPc, Save, tail
  <2>2. results \in Seq(Sent) /\ Len(results) <= ResCap
      BY DEF SizesInv
  <2>3. ResCap \in Nat /\ Len(results) \in Nat
      BY <2>2, BoundsAreNat
  <2>4. CASE Len(results) < ResCap /\ results' = Append(results, "end")
    <3>1. Append(results, "end") \in Seq(Sent) /\ Len(Append(results, "end")) = Len(results) + 1
        BY ONLY <2>2, SentTo, Appended
    <3> QED
        BY ONLY <2>3, <2>4, <3>1
  <2>5. CASE results # <<>> /\ results' = Tail(results)
    <3>1. Tail(results) \in Seq(Sent) /\ Len(Tail(results)) = Len(results) - 1
        BY ONLY <2>2, <2>5, Taken
    <3> QED
        BY ONLY <2>2, <2>3, <2>5, <3>1
  <2> QED
      BY ONLY <2>1, <2>2, <2>4, <2>5
<1>3. Len(rawQ') <= RawCap
  <2>1. rawQ \in Seq(Bundles) /\ None \in Bundles /\ Len(rawQ) <= RawCap
      BY SentinelCarriesNothing DEF QueuesTyped, SizesInv
  <2>2. CASE Report
    <3>1. mode = "publish" /\ alive = 0
        BY <2>2 DEF Report, Goto, ModeKnown, CacheInv, RowTypes, ChainInv, MainInv
    <3>2. rawQ = <<>>
        BY <2>2, <3>1 DEF SpentInv, Report, Goto
    <3>3. Combiners \in Nat /\ Combiners <= RawCap /\ RawCap \in Nat
        BY CellPipelineAssumption
    <3>4. PICK q : q = [i \in 1 .. Combiners |-> None] /\ (rawQ' = rawQ \/ rawQ' = rawQ \o q)
        BY <2>2 DEF Report
    <3>5. q \in Seq(Bundles) /\ Len(q) = Combiners
        BY <2>1, <3>3, <3>4
    <3>6. Len(rawQ \o q) = Len(rawQ) + Len(q)
        BY ONLY <2>1, <3>5
    <3> QED
        BY ONLY <2>1, <3>2, <3>3, <3>4, <3>5, <3>6, EmptyQueue
  <2>3. CASE (WindDown /\ ~ Report) \/ Save
    <3>1. rawQ' = rawQ \/ (Len(rawQ) < RawCap /\ rawQ' = Append(rawQ, None))
        BY <2>3 DEF WindDown, AwaitThreads, SendSentinel, EndResults, OnlyPc, Save, front
    <3> QED
        BY <2>1, <3>1, Appended, BoundsAreNat
  <2> QED
      BY <2>2, <2>3 DEF WindDown
<1> QED
    BY <1>1, <1>2, <1>3 DEF SizesInv

LEMMA SizesStay ==
    ASSUME SizesInv, SpentInv, ModeKnown, ChainInv, CacheInv, [Next]_vars
    PROVE  SizesInv'
<1>1. QueuesTyped
    BY QueuesAreTyped
<1>2. CASE UNCHANGED vars
    BY <1>2 DEF SizesInv, vars, front, back, tail
<1> QED
    BY <1>1, <1>2, IngestSizes, CombineSizes, CoordinateSizes, AssembleSizes, WindDownSizes DEF Next, Work

\* The counts.
LEMMA CountsStayInBounds ==
    ASSUME CountsInv, SizesInv, ModeKnown, ChainInv, CacheInv, [Next]_vars
    PROVE  CountsInv'
<1> USE DEF CountsInv
<1>1. Combiners \in Nat \ {0} /\ mode' = mode
    BY CountsAreNat, ModeStays
<1>2. CASE Ingest
  <2>1. UNCHANGED <<alive, sentinels, sent, pc, coord, saver>>
      BY <1>2 DEF Ingest, TakeTask, PutRaw, FindAbsent, FailFetch, back, main, tail
  <2> QED
      BY <1>1, <2>1
<1>3. CASE Combine
  <2>1. UNCHANGED <<sent, pc, coord, saver>>
      BY <1>3 DEF Combine, TakeRaw, PutCombined, FailCombine, ForwardSentinel, back, main, tail
  <2>2. alive' \in Nat /\ sentinels' \in Nat /\ alive' + sentinels' <= Combiners
    <3>1. CASE TakeRaw
      <4>1. alive > 0
        <5>1. Cardinality(combining) \in Nat
            BY FS_CardinalityType DEF SizesInv
        <5> QED
            BY <3>1, <5>1 DEF TakeRaw
      <4>2. \/ UNCHANGED <<alive, sentinels>>
            \/ alive' = alive - 1 /\ \E f \in {0, 1} : sentinels' = sentinels + f
          BY <3>1 DEF TakeRaw, Forwards
      <4> QED
          BY <1>1, <4>1, <4>2
    <3>2. CASE ForwardSentinel
        BY <1>1, <3>2 DEF ForwardSentinel
    <3>3. CASE \E t \in combining : PutCombined(t) \/ FailCombine(t)
        BY <3>3 DEF PutCombined, FailCombine
    <3> QED
        BY <1>3, <3>1, <3>2, <3>3 DEF Combine
  <2> QED
      BY <1>1, <2>1, <2>2
<1>4. CASE Coordinate \/ BreakPool
  <2>1. UNCHANGED <<alive, sentinels, sent, pc, saver>>
      BY <1>4 DEF Coordinate, Flush, Collect, TakeCombined, GiveUpFuture, GiveUpResults, EndCoordinator,
         WriteBandCells, BreakPool, front, main, tail
  <2>2. coord' \in {"loop", "drain", "done"}
      BY <1>4 DEF Coordinate, Flush, Collect, TakeCombined, GiveUpFuture, GiveUpResults, EndCoordinator,
         WriteBandCells, BreakPool, back
  <2> QED
      BY <1>1, <2>1, <2>2
<1>5. CASE AssembleRows
  <2>1. UNCHANGED <<alive, sentinels, sent, coord, saver>>
      BY <1>5 DEF AssembleRows, Receive, Gathered, GatherTimesOut, PaddingReady, PaddingTimesOut, FailRow,
         Emit, front, back, tail
  <2>2. pc \in {"current", "next", "padding", "emit"}
      BY <1>5 DEF AssembleRows, Receive, Drains, Gathering, Gathered, GatherTimesOut, PaddingReady,
         PaddingTimesOut, FailRow, Emit
  <2>3. mode = "rows"
      BY <2>2 DEF ModeKnown, ChainInv, MainInv
  <2>4. pc' # "sentinels"
      BY <1>5, <2>2 DEF AssembleRows, Receive, Gathered, GatherTimesOut, AssembleRow, PaddingReady,
         PaddingTimesOut, ApplyPadding, FailRow, Emit
  <2> QED
      BY <1>1, <2>1, <2>2, <2>3, <2>4
<1>6. CASE WindDown
  <2>1. UNCHANGED <<alive, sentinels, coord, saver>>
      BY <1>6 DEF WindDown, AwaitThreads, SendSentinel, EndResults, Report, OnlyPc, front, back, tail
  <2>2. CASE SendSentinel
    <3>1. /\ pc = "sentinels" /\ sent' = sent + 1
          /\ pc' = IF sent' < Combiners THEN pc ELSE IF mode = "publish" THEN "combiners" ELSE "exit"
        BY <2>2 DEF SendSentinel
    <3> QED
        BY <1>1, <2>1, <3>1
  <2>3. CASE AwaitThreads
    <3>1. UNCHANGED sent
        BY <2>3 DEF AwaitThreads, OnlyPc
    <3>2. \/ pc = "ingest" /\ pc' = "sentinels"
          \/ mode = "publish" /\ pc' = "end"
          \/ pc' \in {"coordinator", "saver", "done", "failed"}
        BY <2>3 DEF AwaitThreads, Goto, ModeKnown, CacheInv, RowTypes
    <3> QED
        BY <1>1, <2>1, <3>1, <3>2
  <2>4. CASE EndResults
    <3>1. UNCHANGED sent /\ pc = "end" /\ pc' = IF mode = "publish" THEN "report" ELSE "sentinels"
        BY <2>4 DEF EndResults, Goto
    <3> QED
        BY <1>1, <2>1, <3>1 DEF ModeKnown
  <2>5. CASE Report
    <3>1. UNCHANGED sent /\ pc' \in {"exit", "failed"}
        BY <2>5 DEF Report, Goto
    <3> QED
        BY <1>1, <2>1, <3>1
  <2> QED
      BY <1>6, <2>2, <2>3, <2>4, <2>5 DEF WindDown
<1>7. CASE Save
    BY <1>1, <1>7 DEF Save, front, back, main
<1>8. CASE UNCHANGED vars
    BY <1>1, <1>8 DEF vars, front, back, main, tail
<1> QED
    BY <1>2, <1>3, <1>4, <1>5, <1>6, <1>7, <1>8 DEF Next, Work

\* The last combiner to end takes the last sentinel out of the raw queue.
LEMMA SpentStays ==
    ASSUME SpentInv, SizesInv, ChainInv, [Next]_vars
    PROVE  SpentInv'
<1> DEFINE Rest == {"combiners", "coordinator", "end", "report"}
<1> SUFFICES ASSUME mode' = "publish", alive' = 0, pc' \in Rest PROVE rawQ' = <<>>
    BY DEF SpentInv
<1>1. ChainBody /\ mode = "publish"
    BY ModeStays DEF ChainInv, ChainBody
<1>2. alive = 0 /\ pc \in Rest => rawQ = <<>>
    BY <1>1 DEF SpentInv
<1>3. CASE Ingest
  <2>1. UNCHANGED pc /\ (tasks # <<>> \/ reading # {})
      BY <1>3 DEF Ingest, TakeTask, PutRaw, FindAbsent, FailFetch, main
  <2> QED
      BY <1>1, <2>1 DEF ChainBody, MainInv
<1>4. CASE TakeRaw
  <2>1. rawQ \in Seq(Bundles) /\ rawQ # <<>> /\ rawQ' = Tail(rawQ) /\ Cardinality(combining) \in Nat
      BY <1>1, <1>4, FS_CardinalityType DEF TakeRaw, ChainBody, QueueTypes
  <2>2. alive > 0 /\ alive \in Nat
      BY <1>1, <1>4, <2>1, CountsAreNat DEF TakeRaw, ChainBody, QueueTypes
  <2>3. alive = 1 /\ Head(rawQ) = None
      BY <1>4, <2>2 DEF TakeRaw
  <2>4. /\ Len(rawQ) \in Nat \ {0} /\ Len(rawQ') = Len(rawQ) - 1 /\ Head(rawQ) = rawQ[1] /\ rawQ' \in Seq(Bundles)
      BY <2>1, Taken
  <2>5. /\ Queued \in Nat /\ Queued <= Len(rawQ)
        /\ rawQ[1] = None <=> 1 > Len(rawQ) - Queued
      BY <1>1, <2>2, <2>4, CountsAreNat DEF ChainBody, SentinelInv
  <2>6. Queued <= 1
      BY <1>1, <2>3, CountsAreNat DEF Queued, ChainBody, QueueTypes
  <2>7. Len(rawQ') = 0
      BY ONLY <2>3, <2>4, <2>5, <2>6
  <2> QED
      BY ONLY <2>4, <2>7
<1>5. CASE UNCHANGED <<rawQ, alive, pc>>
    BY <1>2, <1>5
<1>6. CASE (Combine /\ ~ TakeRaw) \/ Coordinate \/ BreakPool \/ Save \/ UNCHANGED vars
  <2>1. UNCHANGED <<rawQ, alive, pc>>
      BY <1>6 DEF Combine, PutCombined, FailCombine, ForwardSentinel, Coordinate, Flush, Collect, TakeCombined,
         GiveUpFuture, GiveUpResults, EndCoordinator, WriteBandCells, BreakPool, Save, vars, front, main
  <2> QED
      BY <1>5, <2>1
<1>7. CASE SendSentinel
  <2>1. pc = "sentinels" /\ UNCHANGED alive
      BY <1>7 DEF SendSentinel
  <2> QED
      BY <1>1, <2>1, CountsAreNat DEF ChainBody, MainInv, QueueTypes
<1>8. CASE AwaitThreads \/ EndResults \/ Report
  <2>1. UNCHANGED alive /\ pc \in Rest /\ UNCHANGED rawQ
      BY <1>8 DEF AwaitThreads, EndResults, Report, Goto, OnlyPc, front
  <2> QED
      BY <1>2, <2>1
<1> QED
    BY <1>1, <1>3, <1>4, <1>6, <1>7, <1>8, OnlyPublishes DEF Next, Work, WindDown

\* The cells, stage by stage.
LEMMA IngestCells ==
    ASSUME CellsInv, QueuesTyped, Ingest
    PROVE  CellsInv'
<1>1. UNCHANGED <<mode, archive, writing, published, uses, placed, manual, assembled, step>>
    BY DEF Ingest, TakeTask, PutRaw, FindAbsent, FailFetch, back, store, main, past0
<1>2. \A t \in Tasks : t.cell \in Cells
    BY DEF Tasks
<1>3. CASE TakeTask
  <2>1. Head(tasks) \in Tasks
      BY <1>3, Taken DEF TakeTask, QueuesTyped
  <2>2. cache' \subseteq cache \cup {Head(tasks).cell} /\ UNCHANGED <<absent, lost, past>>
      BY <1>3 DEF TakeTask
  <2> QED
      BY <1>1, <1>2, <2>1, <2>2 DEF CellsInv
<1>4. ASSUME NEW t \in reading, PutRaw(t) \/ FindAbsent(t) \/ FailFetch(t) PROVE CellsInv'
  <2>1. t \in Tasks
      BY DEF QueuesTyped
  <2>2. absent' \subseteq absent \cup {t.cell} /\ UNCHANGED cache /\ lost' \subseteq lost \cup {t.cell}
      BY <1>4 DEF PutRaw, FindAbsent, FailFetch, Lose, store
  <2>3. past' \subseteq FaultKinds
      BY <1>4, PastKept DEF PutRaw, FindAbsent, FailFetch, CellsInv
  <2> QED
      BY <1>1, <1>2, <2>1, <2>2, <2>3 DEF CellsInv
<1> QED
    BY <1>3, <1>4 DEF Ingest

LEMMA CombineCells ==
    ASSUME CellsInv, QueuesTyped, Combine
    PROVE  CellsInv'
<1>1. UNCHANGED <<mode, archive, writing, published, absent, cache, uses, placed, manual, assembled, step>>
    BY DEF Combine, TakeRaw, PutCombined, FailCombine, ForwardSentinel, back, store, main, past0
<1>2. lost' \subseteq Cells
  <2>1. lost' = lost \/ \E t \in combining : lost' = lost \cup {t.cell}
      BY DEF Combine, TakeRaw, PutCombined, FailCombine, ForwardSentinel, Lose
  <2> QED
      BY <2>1 DEF QueuesTyped, Tasks, CellsInv
<1>3. past' \subseteq FaultKinds
    BY PastKept DEF Combine, TakeRaw, PutCombined, FailCombine, ForwardSentinel, CellsInv
<1> QED
    BY <1>1, <1>2, <1>3 DEF CellsInv

\* What the coordinator publishes and keeps is a cell.
LEMMA PublishedCells ==
    ASSUME CellsInv, NEW c \in Cells, Publish(c)
    PROVE  /\ writing' \subseteq Cells /\ published' \subseteq Cells /\ lost' \subseteq Cells
           /\ past' \subseteq FaultKinds
<1>1. writing' \subseteq writing \cup {c} /\ published' \subseteq published \cup {c} /\ lost' \subseteq lost \cup {c}
    BY DEF Publish
<1>2. UNCHANGED past \/ \E k : Fault(k)
    BY DEF Publish
<1> QED
    BY <1>1, <1>2, PastKept DEF CellsInv

LEMMA CoordinateCells ==
    ASSUME CellsInv, ArrivalsInv, QueuesTyped, Coordinate \/ BreakPool
    PROVE  CellsInv'
<1>1. UNCHANGED <<mode, archive, absent, uses, placed, manual, assembled, step>>
    BY DEF Coordinate, Flush, Collect, TakeCombined, GiveUpFuture, GiveUpResults, EndCoordinator,
       WriteBandCells, BreakPool, store, main, past0
<1> DEFINE Good == /\ writing' \subseteq Cells /\ published' \subseteq Cells /\ lost' \subseteq Cells
                   /\ cache' \subseteq Cells /\ past' \subseteq FaultKinds
<1> SUFFICES Good
    BY <1>1 DEF CellsInv
<1>2. \A t \in Tasks : t.cell \in Cells
    BY DEF Tasks
<1>3. ASSUME NEW c \in Cells, Publish(c), cache' \subseteq cache \cup {c} PROVE Good
    BY <1>3, PublishedCells DEF CellsInv
<1>4. ASSUME NEW c \in Cells, lost' \subseteq lost \cup {c}, UNCHANGED <<writing, published, cache>>,
             UNCHANGED past \/ \E k : Fault(k)
      PROVE  Good
    BY <1>4, PastKept DEF CellsInv
<1>5. CASE TakeCombined
  <2>1. Head(combQ) \in Bundles
      BY <1>5, Taken DEF TakeCombined, QueuesTyped
  <2>2. CASE Head(combQ) = None
    <3>1. UNCHANGED <<published, lost, past, writing, cache>>
        BY <1>5, <2>2, SentinelCarriesNothing DEF TakeCombined
    <3> QED
        BY <3>1 DEF CellsInv
  <2>3. CASE Head(combQ) # None
    <3> DEFINE t == Head(combQ)
    <3>1. t \in Tasks /\ t.cell \in Cells
        BY <1>2, <2>1, <2>3 DEF Bundles
    <3>2. \/ Publish(t.cell) /\ Keep(t)
          \/ (lost' = lost \cup {t.cell} \/ UNCHANGED lost) /\ UNCHANGED <<published, past, writing, cache>>
        BY <1>5, <2>3 DEF TakeCombined, Lose
    <3> HIDE DEF t
    <3>3. Keep(t) => cache' \subseteq cache \cup {t.cell}
        BY DEF Keep
    <3> QED
        BY <1>3, <1>4, <3>1, <3>2, <3>3
  <2> QED
      BY <2>2, <2>3
<1>6. ASSUME NEW t \in active, Collect(t) PROVE Good
  <2>1. t.cell \in Cells
      BY <1>2 DEF QueuesTyped
  <2>2. Keep(t) => cache' \subseteq cache \cup {t.cell}
      BY DEF Keep
  <2>3. \/ Publish(t.cell) /\ Keep(t)
        \/ /\ lost' = lost \cup {t.cell} /\ UNCHANGED <<published, writing, cache>>
           /\ UNCHANGED past \/ \E k : Fault(k)
      BY <1>6 DEF Collect, Lose
  <2> QED
      BY <1>3, <1>4, <2>1, <2>2, <2>3
<1>7. ASSUME NEW t \in active, GiveUpFuture(t) PROVE Good
  <2>1. t.cell \in Cells
      BY <1>2 DEF QueuesTyped
  <2> QED
      BY <1>4, <1>7, <2>1 DEF GiveUpFuture, Lose, store
<1>8. ASSUME NEW c \in writing, WriteBandCells(c) PROVE Good
  <2>1. /\ writing' \subseteq writing /\ published' \subseteq published \cup {c} /\ lost' \subseteq lost \cup {c}
        /\ UNCHANGED cache
      BY <1>8 DEF WriteBandCells, Lose
  <2>2. UNCHANGED past \/ \E k : Fault(k)
      BY <1>8 DEF WriteBandCells
  <2>3. past' \subseteq FaultKinds
      BY <2>2, PastKept DEF CellsInv
  <2>4. c \in Cells
      BY DEF CellsInv
  <2> QED
      BY <2>1, <2>3, <2>4 DEF CellsInv
<1>9. CASE GiveUpResults
  <2>1. lost' = lost \cup ToSet(pending) /\ UNCHANGED <<writing, published, cache, past>>
      BY <1>9 DEF GiveUpResults, store
  <2>2. ToSet(pending) \subseteq Cells
      BY RegularAreCells DEF ArrivalsInv, ToSet
  <2> QED
      BY <2>1, <2>2 DEF CellsInv
<1>10. CASE Flush \/ EndCoordinator
    BY <1>10 DEF Flush, EndCoordinator, store, CellsInv
<1>11. CASE BreakPool
  <2>1. UNCHANGED <<writing, published, lost, cache>> /\ past' \subseteq FaultKinds
      BY <1>11, PastKept DEF BreakPool, back, store, CellsInv
  <2> QED
      BY <2>1 DEF CellsInv
<1> QED
    BY <1>5, <1>6, <1>7, <1>8, <1>9, <1>10, <1>11 DEF Coordinate

\* Main is at a row of the list.
LEMMA AtARow ==
    ASSUME ModeKnown, ChainInv, CacheInv, AssembleRows
    PROVE  /\ mode = "rows" /\ RowTypes /\ Looping /\ step \in Steps
           /\ Row \in Rows
           /\ pc = "next" => RowSeq[step + 1] \in Rows
<1>1. Looping
    BY DEF AssembleRows, Receive, Drains, Gathering, Gathered, GatherTimesOut, PaddingReady,
       PaddingTimesOut, FailRow, Emit, Looping
<1>2. mode = "rows"
    BY <1>1 DEF ModeKnown, ChainInv, MainInv, Looping
<1>3. RowTypes /\ step \in Steps /\ (pc = "next" => ~ LastOfProj(step))
    BY <1>1, <1>2 DEF CacheInv, RowTypes
<1>4. pc = "next" => step + 1 \in Steps
    BY <1>3, RowList DEF LastOfProj
<1> QED
    BY <1>1, <1>2, <1>3, <1>4, RowList DEF Row

LEMMA AssembleCells ==
    ASSUME CellsInv, ArrivalsInv, ModeKnown, ChainInv, CacheInv, CacheInv', AssembleRows
    PROVE  CellsInv'
<1>1. /\ mode = "rows" /\ RowTypes /\ step \in Steps /\ Row \in Rows
      /\ pc = "next" => RowSeq[step + 1] \in Rows
    BY AtARow
<1>2. /\ UNCHANGED <<mode, archive, writing, lost, published, absent>>
    BY DEF AssembleRows, Receive, Gathered, GatherTimesOut, PaddingReady, PaddingTimesOut, FailRow,
       Emit, back, store, past0
<1>3. uses' \in [Cells -> Nat]
    BY <1>1, <1>2 DEF CacheInv, RowTypes
<1>4. Wanted \subseteq Regular /\ Wanted \subseteq Cells /\ Padding[Row] \subseteq Cells
    BY <1>1, RegularAreCells DEF Wanted
<1>5. past' \subseteq FaultKinds
  <2>1. UNCHANGED past \/ \E k : Fault(k)
      BY DEF AssembleRows, Receive, Gathered, GatherTimesOut, TimesOut, PaddingReady, PaddingTimesOut,
         FailRow, Emit
  <2> QED
      BY <2>1, PastKept DEF CellsInv
<1>6. manual' \subseteq Cells
  <2>1. \/ UNCHANGED manual
        \/ manual' \subseteq manual \cup Wanted
        \/ manual' \subseteq manual \cup Padding[Row]
      BY DEF AssembleRows, Receive, Gathered, GatherTimesOut, LoadManually, PaddingReady, PaddingTimesOut,
         FailRow, Emit
  <2> QED
      BY <1>4, <2>1 DEF CellsInv
<1>7. cache' \subseteq Cells
  <2>1. UNCHANGED cache \/ \E S \in SUBSET Padding[Row] : cache' \subseteq cache \cup S
    <3>1. CASE PaddingReady
        BY <3>1 DEF PaddingReady, ApplyPadding
    <3>2. CASE PaddingTimesOut
      <4>1. PICK loaded \in SUBSET Padding[Row] : ApplyPadding(cache \cup loaded)
          BY <3>2 DEF PaddingTimesOut
      <4> QED
          BY <4>1 DEF ApplyPadding
    <3>3. CASE Receive \/ Gathered \/ GatherTimesOut \/ FailRow \/ Emit
        BY <3>3 DEF Receive, Gathered, GatherTimesOut, FailRow, Emit, store
    <3> QED
        BY <3>1, <3>2, <3>3 DEF AssembleRows
  <2> QED
      BY <1>4, <2>1 DEF CellsInv
<1>8. placed' \subseteq Regular /\ assembled' \subseteq Rows
  <2>1. ASSUME NEW S \in SUBSET Wanted, AssembleRow(S) PROVE placed' \subseteq Regular /\ assembled' \subseteq Rows
    <3>1. /\ placed' = placed \cup S
          /\ assembled' = assembled \cup {IF pc = "next" THEN RowSeq[step + 1] ELSE Row}
        BY <2>1 DEF AssembleRow
    <3> QED
        BY <1>1, <1>4, <3>1 DEF CellsInv
  <2>2. CASE Gathered
      BY <2>1, <2>2 DEF Gathered
  <2>3. CASE GatherTimesOut
    <3>1. PICK loaded \in SUBSET Wanted : AssembleRow((Wanted \cap arrived') \cup loaded)
        BY <2>3 DEF GatherTimesOut
    <3> QED
        BY <2>1, <3>1
  <2>4. CASE Receive \/ PaddingReady \/ PaddingTimesOut \/ FailRow \/ Emit
      BY <2>4 DEF Receive, PaddingReady, PaddingTimesOut, FailRow, Emit, CellsInv
  <2> QED
      BY <2>2, <2>3, <2>4 DEF AssembleRows
<1>9. step' \in Steps \cup {1}
  <2>1. CASE Looping'
      BY <1>1, <1>2, <2>1 DEF CacheInv, RowTypes
  <2>2. CASE UNCHANGED step
      BY <1>1, <2>2
  <2>3. CASE FailRow
      BY <2>1, <2>2, <2>3 DEF FailRow, Looping
  <2>4. CASE Emit
    <3>1. UNCHANGED step \/ Looping'
      <4>1. CASE step = Len(RowSeq)
          BY <2>4, <4>1 DEF Emit
      <4>2. CASE step # Len(RowSeq)
        <5>1. pc' = CASE LastOfProj(step) -> "current"
                      [] ~LastOfProj(step) /\ LastOfProj(step + 1) -> "padding"
                      [] OTHER -> "next"
            BY <2>4, <4>2 DEF Emit
        <5> QED
            BY <5>1 DEF Looping
      <4> QED
          BY <4>1, <4>2
    <3> QED
        BY <2>1, <2>2, <3>1
  <2>5. CASE Receive \/ Gathered \/ GatherTimesOut \/ PaddingReady \/ PaddingTimesOut
      BY <2>2, <2>5 DEF Receive, Gathered, GatherTimesOut, PaddingReady, PaddingTimesOut
  <2> QED
      BY <2>3, <2>4, <2>5 DEF AssembleRows
<1> QED
    BY <1>2, <1>3, <1>5, <1>6, <1>7, <1>8, <1>9 DEF CellsInv

LEMMA CellsStay ==
    ASSUME CellsInv, ArrivalsInv, ModeKnown, ChainInv, CacheInv, CacheInv', [Next]_vars
    PROVE  CellsInv'
<1>1. QueuesTyped
    BY QueuesAreTyped
<1>2. CASE WindDown \/ Save \/ UNCHANGED vars
  <2>1. UNCHANGED <<mode, archive, past, writing, lost, published, absent, cache, uses, placed, manual,
                    assembled, step>>
      BY <1>2 DEF WindDown, AwaitThreads, SendSentinel, EndResults, Report, OnlyPc, Save, vars, back,
         store, main, past0
  <2> QED
      BY <2>1 DEF CellsInv
<1> QED
    BY <1>1, <1>2, IngestCells, CombineCells, CoordinateCells, AssembleCells DEF Next, Work

\* What comes to main.
LEMMA ArrivalsStay ==
    ASSUME ArrivalsInv, ModeKnown, ChainInv, CacheInv, [Next]_vars
    PROVE  ArrivalsInv'
<1>1. QueuesTyped /\ mode' = mode
    BY QueuesAreTyped, ModeStays
<1> DEFINE Queues == /\ pending' \in Seq(Regular)
                     /\ outQ' \in Seq(Regular) /\ Len(outQ') <= OutCap
                     /\ arrived' \subseteq Regular
<1>2. pending \in Seq(Regular) /\ outQ \in Seq(Regular) /\ Len(outQ) <= OutCap /\ arrived \subseteq Regular
    BY DEF ArrivalsInv
<1>3. ASSUME mode = "rows" PROVE Coming' \cup Cargo(active') \subseteq Regular
  <2>1. Coming \cup Cargo(active) \subseteq Regular
      BY <1>3 DEF ArrivalsInv
  <2>2. Coming' \subseteq Coming
      BY <1>3, OnceStays DEF CacheInv, Accounted
  <2>3. active' \subseteq active \cup (Upstream)
    <3>1. CASE TakeCombined
      <4>1. Head(combQ) \in ToSet(combQ)
          BY <1>1, <3>1, Taken DEF TakeCombined, QueuesTyped
      <4>2. CASE Head(combQ) = None
        <5>1. UNCHANGED active
            BY <3>1, <4>2, SentinelCarriesNothing DEF TakeCombined
        <5> QED
            BY <5>1
      <4>3. CASE Head(combQ) # None
        <5>1. UNCHANGED active \/ active' = active \cup {Head(combQ)}
            BY <3>1, <4>3 DEF TakeCombined
        <5> QED
            BY <4>1, <4>3, <5>1 DEF Upstream
      <4> QED
          BY <4>2, <4>3
    <3>2. CASE ~ TakeCombined
      <4>1. active' \subseteq active
          BY <3>2 DEF Next, Work, Ingest, TakeTask, PutRaw, FindAbsent, FailFetch, Combine, TakeRaw,
             PutCombined, FailCombine, ForwardSentinel, BreakPool, Coordinate, Flush, Collect, GiveUpFuture,
             GiveUpResults, EndCoordinator, WriteBandCells, WindDown, AwaitThreads, SendSentinel, EndResults,
             Report, OnlyPc, Save, AssembleRows, Receive, Gathered, GatherTimesOut, PaddingReady,
             PaddingTimesOut, FailRow, Emit, vars, back
      <4> QED
          BY <4>1
    <3> QED
        BY <3>1, <3>2
  <2>4. Cargo(active') \subseteq Cargo(active) \cup Coming
      BY <2>3 DEF Cargo, Coming
  <2> QED
      BY <2>1, <2>2, <2>4
<1>4. ASSUME NEW t \in active \cup Upstream, t \in Tasks, Keep(t) PROVE pending' \in Seq(Regular)
  <2>1. CASE mode = "rows" /\ t.kind # "padding_source"
    <3>1. pending' = Append(pending, t.cell)
        BY <1>4, <2>1 DEF Keep
    <3>2. BringsRow(t)
        BY <1>4, <2>1 DEF Tasks, Kinds, BringsRow
    <3>3. t.cell \in Cargo(active) \cup Coming
        BY <3>2 DEF Cargo, Coming
    <3>4. t.cell \in Regular
        BY <2>1, <3>3 DEF ArrivalsInv
    <3> QED
        BY <1>2, <3>1, <3>4, Appended
  <2>2. CASE ~ (mode = "rows" /\ t.kind # "padding_source")
      BY <1>2, <1>4, <2>2 DEF Keep
  <2> QED
      BY <2>1, <2>2
<1>5. Queues
  <2>1. CASE UNCHANGED <<pending, outQ, arrived>>
      BY <1>2, <2>1
  <2>2. CASE Flush
    <3>1. /\ pending # <<>> /\ pending' = Tail(pending) /\ outQ' = Append(outQ, Head(pending))
          /\ Len(outQ) < OutCap /\ UNCHANGED arrived
        BY <2>2 DEF Flush, main
    <3>2. pending' \in Seq(Regular) /\ Head(pending) \in Regular
        BY <1>2, <3>1, Taken
    <3> QED
        BY <1>2, <3>1, <3>2, Appended, BoundsAreNat
  <2>3. CASE TakeCombined
    <3>1. combQ # <<>> /\ UNCHANGED <<outQ, arrived>>
        BY <2>3 DEF TakeCombined, main
    <3>2. Head(combQ) \in Bundles /\ Head(combQ) \in ToSet(combQ)
        BY <1>1, <3>1, Taken DEF QueuesTyped
    <3>3. CASE Head(combQ) = None
      <4>1. UNCHANGED pending
          BY <2>3, <3>3, SentinelCarriesNothing DEF TakeCombined
      <4> QED
          BY <2>1, <3>1, <4>1
    <3>4. CASE Head(combQ) # None
      <4>1. Head(combQ) \in Tasks /\ Head(combQ) \in Upstream
          BY <3>2, <3>4 DEF Bundles, Upstream
      <4>2. UNCHANGED pending \/ Keep(Head(combQ))
          BY <2>3, <3>4 DEF TakeCombined
      <4> QED
          BY <1>2, <1>4, <3>1, <4>1, <4>2
    <3> QED
        BY <3>3, <3>4
  <2>4. ASSUME NEW t \in active, Collect(t) PROVE Queues
    <3>1. UNCHANGED <<outQ, arrived>> /\ (UNCHANGED pending \/ Keep(t))
        BY <2>4 DEF Collect, main
    <3>2. t \in Tasks
        BY <1>1 DEF QueuesTyped
    <3> QED
        BY <1>2, <1>4, <3>1, <3>2
  <2>5. CASE GiveUpResults
      BY <1>2, <2>5, EmptyQueue DEF GiveUpResults, main
  <2>6. CASE EndCoordinator \/ BreakPool \/ (\E t \in active : GiveUpFuture(t)) \/ \E c \in writing : WriteBandCells(c)
      BY <2>1, <2>6 DEF EndCoordinator, BreakPool, GiveUpFuture, WriteBandCells, back, main
  <2>7. CASE Receive
    <3>1. outQ # <<>> /\ arrived' = arrived \cup {Head(outQ)} /\ outQ' = Tail(outQ) /\ UNCHANGED pending
        BY <2>7 DEF Receive
    <3> QED
        BY <1>2, <3>1, Taken, BoundsAreNat
  <2>8. CASE GatherTimesOut
    <3>1. arrived' = arrived \cup ToSet(outQ) /\ outQ' = <<>> /\ UNCHANGED pending
        BY <2>8 DEF GatherTimesOut
    <3>2. ToSet(outQ) \subseteq Regular
        BY <1>2 DEF ToSet
    <3> QED
        BY <1>2, <3>1, <3>2, EmptyQueue, BoundsAreNat
  <2>9. CASE Ingest \/ Combine \/ WindDown \/ Save \/ UNCHANGED vars \/ Gathered \/ PaddingReady
             \/ PaddingTimesOut \/ FailRow \/ Emit
    <3>1. UNCHANGED <<pending, outQ, arrived>>
        BY <2>9 DEF Ingest, TakeTask, PutRaw, FindAbsent, FailFetch, Combine, TakeRaw, PutCombined,
           FailCombine, ForwardSentinel, WindDown, AwaitThreads, SendSentinel, EndResults, Report, OnlyPc,
           Save, vars, Gathered, PaddingReady, PaddingTimesOut, FailRow, Emit, back, main
    <3> QED
        BY <2>1, <3>1
  <2> QED
      BY <2>2, <2>3, <2>4, <2>5, <2>6, <2>7, <2>8, <2>9 DEF Next, Work, Coordinate, AssembleRows
<1> QED
    BY <1>1, <1>3, <1>5 DEF ArrivalsInv

LEMMA InitTypes == Init => TypeInv
<1> SUFFICES ASSUME Init PROVE TypeInv
    OBVIOUS
<1>1. /\ reading = {} /\ rawQ = <<>> /\ combining = {} /\ alive = Combiners /\ sentinels = 0 /\ combQ = <<>>
      /\ coord = "loop" /\ active = {} /\ pending = <<>> /\ outQ = <<>> /\ writing = {} /\ absent = {}
      /\ cache = {} /\ arrived = {} /\ placed = {} /\ manual = {} /\ assembled = {} /\ step = 1 /\ sent = 0
      /\ results = <<>> /\ lost = {} /\ uses = [c \in Cells |-> CacheUses(c)] /\ mode \in Modes
    BY DEF Init
<1>2. SizesInv
  <2>1. IsFiniteSet({}) /\ Cardinality({}) = 0
      BY FS_EmptySet
  <2> QED
      BY <1>1, <2>1, EmptyQueue, BoundsAreNat DEF SizesInv
<1>3. SpentInv
    BY <1>1 DEF SpentInv
<1>4. CountsInv
  <2>1. pc \in {"ingest", "current", "end"}
    <3>1. CASE mode = "publish"
        BY <3>1 DEF Init
    <3>2. CASE mode = "rows" /\ RowSeq # <<>>
        BY <3>2 DEF Init
    <3>3. CASE mode = "rows" /\ RowSeq = <<>>
        BY <3>3 DEF Init
    <3> QED
        BY <1>1, <3>1, <3>2, <3>3, CellPipelineAssumption
  <2>2. saver \in {"open", "gone", "done"}
      BY DEF Init
  <2> QED
      BY <1>1, <2>1, <2>2, CountsAreNat DEF CountsInv
<1>5. CellsInv
  <2>1. archive \subseteq Cells /\ published \subseteq Cells
      BY DEF Init
  <2>2. past \subseteq FaultKinds
      BY DEF Init
  <2>3. uses \in [Cells -> Nat]
    <3>1. \A c \in Cells : CacheUses(c) \in Nat
      <4> TAKE c \in Cells
      <4>1. IsFiniteSet(Steps)
          BY RowList, FS_Interval
      <4>2. PaddingSteps(c) \in Nat
          BY <4>1, FS_Subset, FS_CardinalityType DEF PaddingSteps
      <4> QED
          BY <4>2 DEF CacheUses, DualRole
    <3> QED
        BY <1>1, <3>1
  <2> QED
      BY <1>1, <2>1, <2>2, <2>3 DEF CellsInv
<1>6. ArrivalsInv
  <2>1. ASSUME mode = "rows" PROVE Coming \cup Cargo(active) \subseteq Regular
    <3>1. Cargo(ToSet(tasks)) = Regular
        BY <2>1, InterleavedTasksCover DEF Init
    <3>2. ToSet(rawQ) = {} /\ ToSet(combQ) = {}
        BY <1>1, EmptyQueue
    <3>3. Upstream \subseteq ToSet(tasks) /\ Cargo(active) = {}
        BY <1>1, <3>2, NothingCarried DEF Upstream
    <3>4. Coming \subseteq Cargo(ToSet(tasks))
        BY <3>3, CargoSubset DEF Coming
    <3> QED
        BY <3>1, <3>3, <3>4
  <2> QED
      BY <1>1, <2>1, EmptyQueue, BoundsAreNat DEF ArrivalsInv
<1> QED
    BY <1>2, <1>3, <1>4, <1>5, <1>6 DEF TypeInv

LEMMA NextTypes ==
    TypeInv /\ ModeKnown /\ ChainInv /\ CacheInv /\ CacheInv' /\ [Next]_vars => TypeInv'
BY SizesStay, SpentStays, CountsStayInBounds, CellsStay, ArrivalsStay DEF TypeInv

\* Every state is well typed and every bound of the code is kept: no queue, no kind of
\* thread and not the pool of writes holds more than it may, for any rows and faults.
THEOREM TypeCorrect == Spec => []TypeOK
<1>1. TypeInv /\ ModeKnown /\ ChainInv /\ CacheInv => TypeOK
  <2> SUFFICES ASSUME TypeInv, ModeKnown, ChainInv, CacheInv PROVE TypeOK
      OBVIOUS
  <2>1. QueuesTyped
      BY QueuesAreTyped
  <2>2. pc \in {"ingest", "sentinels", "combiners", "coordinator", "report", "current", "next", "padding",
               "emit", "end", "exit", "saver", "raise", "done", "failed"}
      BY DEF ModeKnown, ChainInv, CacheInv, MainInv, RowTypes
  <2>3. alive \in 0 .. Combiners /\ sentinels \in 0 .. Combiners /\ sent \in 0 .. Combiners
      BY CountsAreNat DEF TypeInv, CountsInv
  <2> QED
      BY <2>1, <2>2, <2>3 DEF TypeInv, QueuesTyped, SizesInv, CountsInv, CellsInv, ArrivalsInv, Bundles,
         Sent, TypeOK
<1> QED
    BY <1>1, InitTypes, NextTypes, InitCache, NextCache, InitChain, NextChain, ModesKnown, PTL DEF Spec
=============================================================================
