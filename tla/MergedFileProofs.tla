--------------------------- MODULE MergedFileProofs ---------------------------
(***************************************************************************)
(* What merging does to lines, for any devices, lines, timestamps and      *)
(* order of bytes: the sort and the loop of MergeJSONL, then what pushes   *)
(* and pulls make of the copies.  A fold is the last of the sets its loop  *)
(* goes through, and what holds of them all is shown by the least of those *)
(* it would not hold of.                                                   *)
(***************************************************************************)
EXTENDS MergedFile, FiniteSetTheorems, WellFoundedInduction, TLAPS

\* A set of numbers that is not empty has a least one: where a proof would go by
\* induction, the least counterexample is contradictory.
LEMMA LeastNatural ==
  ASSUME NEW T \in SUBSET Nat, T # {}
  PROVE  \E m \in T : \A k \in T : m <= k
<1> DEFINE R == {ss \in Nat \X Nat : ss[1] < ss[2]}
<1>1. IsWellFoundedOn(R, Nat)
  BY NatLessThanWellFounded, Zenon DEF OpToRel
<1>2. PICK m \in T : \A k \in T : <<k, m>> \notin R
  BY <1>1, WFMin
<1>3. ASSUME NEW k \in T PROVE m <= k
  <2>1. k \in Nat /\ m \in Nat /\ <<k, m>> \notin R
    BY <1>2
  <2>2. ~(k < m)
    BY <2>1
  <2> QED
    BY <2>1, <2>2
<1> QED
  BY <1>3

-----------------------------------------------------------------------------
(* Sorting *)

\* R is a strict total order of T.
Ranks(R, T) ==
    /\ \A a \in T : <<a, a>> \notin R
    /\ \A a, b, c \in T : <<a, b>> \in R /\ <<b, c>> \in R => <<a, c>> \in R
    /\ \A a, b \in T : a = b \/ <<a, b>> \in R \/ <<b, a>> \in R

Below(R, T, l) == {k \in T : <<k, l>> \in R}

LEMMA BelowGrows ==
  ASSUME NEW T, IsFiniteSet(T), NEW R, Ranks(R, T), NEW a \in T, NEW b \in T, <<a, b>> \in R
  PROVE  Cardinality(Below(R, T, a)) < Cardinality(Below(R, T, b))
<1>1. IsFiniteSet(Below(R, T, b)) /\ Cardinality(Below(R, T, b)) \in Nat
  BY FS_Subset, FS_CardinalityType DEF Below
<1>2. Below(R, T, a) \subseteq Below(R, T, b)
  BY DEF Below, Ranks
<1>3. Below(R, T, a) # Below(R, T, b)
  BY DEF Below, Ranks
<1>4. IsFiniteSet(Below(R, T, a)) /\ Cardinality(Below(R, T, a)) \in Nat
  BY FS_Subset, FS_CardinalityType DEF Below
<1>5. Cardinality(Below(R, T, a)) <= Cardinality(Below(R, T, b))
        /\ Cardinality(Below(R, T, b)) # Cardinality(Below(R, T, a))
  BY <1>1, <1>2, <1>3, FS_Subset
<1> QED
  BY <1>1, <1>4, <1>5

LEMMA EveryRank ==
  ASSUME NEW T, IsFiniteSet(T), NEW R, Ranks(R, T)
  PROVE  /\ Cardinality(T) \in Nat
         /\ \A n \in 1..Cardinality(T) : \E l \in T : Cardinality(Below(R, T, l)) = n - 1
         /\ \A l \in T : Cardinality(Below(R, T, l)) + 1 \in 1..Cardinality(T)
         /\ \A a, b \in T : Cardinality(Below(R, T, a)) = Cardinality(Below(R, T, b)) => a = b
<1> DEFINE N == Cardinality(T)
           rank == [l \in T |-> Cardinality(Below(R, T, l)) + 1]
<1>1. N \in Nat
  BY FS_CardinalityType
<1>2. ASSUME NEW l \in T PROVE Cardinality(Below(R, T, l)) \in Nat /\ rank[l] \in 1..N
  <2>1. IsFiniteSet(T \ {l}) /\ Cardinality(T \ {l}) = N - 1
    BY FS_RemoveElement
  <2>2. Below(R, T, l) \subseteq T \ {l}
    BY DEF Below, Ranks
  <2>3. IsFiniteSet(Below(R, T, l)) /\ Cardinality(Below(R, T, l)) <= N - 1
    BY <2>1, <2>2, FS_Subset
  <2>4. Cardinality(Below(R, T, l)) \in Nat
    BY <2>3, FS_CardinalityType
  <2> QED
    BY <1>1, <2>3, <2>4
<1>3. ASSUME NEW a \in T, NEW b \in T, Cardinality(Below(R, T, a)) = Cardinality(Below(R, T, b))
      PROVE  a = b
  <2>1. CASE <<a, b>> \in R
    BY <1>2, <1>3, <2>1, BelowGrows
  <2>2. CASE <<b, a>> \in R
    BY <1>2, <1>3, <2>2, BelowGrows
  <2> QED
    BY <2>1, <2>2 DEF Ranks
<1>4. rank \in Injection(T, 1..N)
  <2>1. rank \in [T -> 1..N]
    BY <1>2
  <2>2. \A a, b \in T : rank[a] = rank[b] => a = b
    BY <1>2, <1>3
  <2> QED
    BY <2>1, <2>2 DEF Injection, IsInjective
<1>5. IsFiniteSet(1..N) /\ Cardinality(1..N) = N
  BY <1>1, FS_Interval
<1>6. rank \in Surjection(T, 1..N)
  BY <1>4, <1>5, FS_Injection
<1>7. ASSUME NEW n \in 1..N PROVE \E l \in T : Cardinality(Below(R, T, l)) = n - 1
  <2>1. PICK l \in T : rank[l] = n
    BY <1>6 DEF Surjection
  <2> QED
    BY <1>1, <1>2, <2>1
<1>8. \A l \in T : Cardinality(Below(R, T, l)) + 1 \in 1..N
  BY <1>2
<1> HIDE DEF N
<1> QED
  BY <1>1, <1>3, <1>7, <1>8 DEF N

\* What stands in order holds every element, once.
LEMMA Arranging ==
  ASSUME NEW T, IsFiniteSet(T), NEW R, Ranks(R, T), NEW s \in [1..Cardinality(T) -> T],
         \A n \in 1..Cardinality(T) : Cardinality(Below(R, T, s[n])) = n - 1
  PROVE  s \in Seq(T) /\ ToSet(s) = T /\ IsInjective(s)
<1> DEFINE N == Cardinality(T)
<1>1. N \in Nat
  BY EveryRank
<1>2. DOMAIN s = 1..N /\ s \in Seq(T)
  BY <1>1
<1>3. ASSUME NEW l \in T PROVE \E n \in 1..N : s[n] = l
  <2> DEFINE n == Cardinality(Below(R, T, l)) + 1
  <2>1. n \in 1..N
    BY EveryRank
  <2>2. Cardinality(Below(R, T, s[n])) = n - 1 /\ s[n] \in T
    BY <2>1
  <2>3. Cardinality(Below(R, T, l)) \in Nat
    BY FS_Subset, FS_CardinalityType DEF Below
  <2>4. Cardinality(Below(R, T, s[n])) = Cardinality(Below(R, T, l))
    BY <2>2, <2>3
  <2>5. s[n] = l
    BY <2>2, <2>4, EveryRank
  <2> QED
    BY <2>1, <2>5
<1>4. ToSet(s) = T
  BY <1>2, <1>3 DEF ToSet
<1>5. IsInjective(s)
  BY <1>1, <1>2 DEF IsInjective
<1> QED
  BY <1>2, <1>4, <1>5

-----------------------------------------------------------------------------
(* The orders of lines *)

\* What a timestamp says depends on how it is written alone.
Dated(X) == \A a, b \in X : a.time.str = b.time.str => a.time = b.time

\* The timestamps of entries do not go round in a circle.
Comparable(X) ==
    \A a, b, c \in X : Later(a.time, c.time) => Later(a.time, b.time) \/ Later(b.time, c.time)

OneEach(X) == \A a, b \in X : a.id = b.id => a = b

SameKind(X) == \A a, b \in X : a.object = b.object

LEMMA TimesCompare ==
  ASSUME NEW a \in Time, NEW b \in Time
  PROVE  /\ ~Later(a, a)
         /\ Later(a, b) => ~Later(b, a)
  BY DEF Later, Time

LEMMA OrderType ==
  /\ \A t \in DOMAIN ByteOrder : ByteOrder[t] \in Nat
  /\ \A t, u \in DOMAIN ByteOrder : ByteOrder[t] = ByteOrder[u] => t = u
  BY MergeAssumption DEF MergeAssumption, Injection, IsInjective

LEMMA BytesOrder ==
  ASSUME NEW X \in SUBSET Line, Dated(X), SameKind(X)
  PROVE  Ranks({ab \in X \X X : BytesLess(ab[1], ab[2])}, X)
<1> DEFINE R == {ab \in X \X X : BytesLess(ab[1], ab[2])}
<1>0. ASSUME NEW a \in X, NEW b \in X PROVE <<a, b>> \in R <=> BytesLess(a, b)
  OBVIOUS
<1>1. ASSUME NEW a \in X
      PROVE  /\ a = [object |-> a.object, id |-> a.id, time |-> a.time, text |-> a.text]
             /\ a.id \in Nat /\ a.time.str \in Nat /\ a.text \in DOMAIN ByteOrder
             /\ ByteOrder[a.text] \in Nat
  BY OrderType DEF Line, Time
<1>2. ASSUME NEW a \in X PROVE <<a, a>> \notin R
  BY <1>0, <1>1 DEF BytesLess
<1>3. ASSUME NEW a \in X, NEW b \in X, NEW c \in X, <<a, b>> \in R, <<b, c>> \in R
      PROVE  <<a, c>> \in R
  <2>1. BytesLess(a, b) /\ BytesLess(b, c)
    BY <1>0, <1>3
  <2>2. BytesLess(a, c)
    BY <1>1, <2>1 DEF BytesLess
  <2> QED
    BY <1>0, <2>2
<1>4. ASSUME NEW a \in X, NEW b \in X, <<a, b>> \notin R, <<b, a>> \notin R PROVE a = b
  <2>1. ~BytesLess(a, b) /\ ~BytesLess(b, a)
    BY <1>0, <1>4
  <2>2. ByteOrder[a.text] = ByteOrder[b.text]
    BY <1>1, <2>1 DEF BytesLess
  <2>3. a.text = b.text
    BY <1>1, <2>2, OrderType
  <2>4. a.id = b.id /\ a.time.str = b.time.str
    BY <1>1, <2>1, <2>3 DEF BytesLess
  <2>5. a.time = b.time /\ a.object = b.object
    BY <2>4 DEF Dated, SameKind
  <2> QED
    BY <1>1, <2>3, <2>4, <2>5
<1> HIDE DEF R
<1>5. Ranks(R, X)
  BY <1>2, <1>3, <1>4 DEF Ranks
<1> QED
  BY <1>5 DEF R

LEMMA HistoryOrder ==
  ASSUME NEW X \in SUBSET Line, Dated(X), SameKind(X)
  PROVE  Ranks({ab \in X \X X : HistoryBefore(ab[1], ab[2])}, X)
<1> DEFINE R == {ab \in X \X X : HistoryBefore(ab[1], ab[2])}
           B == {ab \in X \X X : BytesLess(ab[1], ab[2])}
<1>0. ASSUME NEW a \in X, NEW b \in X
      PROVE  (<<a, b>> \in R <=> HistoryBefore(a, b)) /\ (<<a, b>> \in B <=> BytesLess(a, b))
  OBVIOUS
<1>1. ASSUME NEW a \in X PROVE a.time.parses \in BOOLEAN /\ a.time.at \in Nat
  BY DEF Line, Time
<1> HIDE DEF R, B
<1>2. Ranks(B, X)
  BY BytesOrder DEF B
<1>3. ASSUME NEW a \in X PROVE <<a, a>> \notin R
  BY <1>0, <1>1, <1>2 DEF HistoryBefore, Ranks
<1>4. ASSUME NEW a \in X, NEW b \in X, NEW c \in X, <<a, b>> \in R, <<b, c>> \in R
      PROVE  <<a, c>> \in R
  <2>1. HistoryBefore(a, b) /\ HistoryBefore(b, c)
    BY <1>0, <1>4
  <2>2. BytesLess(a, b) /\ BytesLess(b, c) => BytesLess(a, c)
    BY <1>0, <1>2 DEF Ranks
  <2>3. HistoryBefore(a, c)
    BY <1>1, <2>1, <2>2 DEF HistoryBefore
  <2> QED
    BY <1>0, <2>3
<1>5. ASSUME NEW a \in X, NEW b \in X, <<a, b>> \notin R, <<b, a>> \notin R PROVE a = b
  <2>1. ~HistoryBefore(a, b) /\ ~HistoryBefore(b, a)
    BY <1>0, <1>5
  <2>2. ~BytesLess(a, b) /\ ~BytesLess(b, a)
    BY <1>1, <2>1 DEF HistoryBefore
  <2> QED
    BY <1>0, <1>2, <2>2 DEF Ranks
<1>6. Ranks(R, X)
  BY <1>3, <1>4, <1>5 DEF Ranks
<1> QED
  BY <1>6 DEF R

LEMMA IndexOrder ==
  ASSUME NEW X \in SUBSET Line, OneEach(X), Comparable(X)
  PROVE  Ranks({ab \in X \X X : IndexBefore(ab[1], ab[2])}, X)
<1> DEFINE R == {ab \in X \X X : IndexBefore(ab[1], ab[2])}
<1>0. ASSUME NEW a \in X, NEW b \in X PROVE <<a, b>> \in R <=> IndexBefore(a, b)
  OBVIOUS
<1>1. ASSUME NEW a \in X, NEW b \in X
      PROVE  a.id \in Nat /\ ~Later(a.time, a.time) /\ (Later(a.time, b.time) => ~Later(b.time, a.time))
  BY TimesCompare DEF Line
<1>2. ASSUME NEW a \in X PROVE <<a, a>> \notin R
  BY <1>0, <1>1 DEF IndexBefore
<1>3. ASSUME NEW a \in X, NEW b \in X, NEW c \in X, <<a, b>> \in R, <<b, c>> \in R
      PROVE  <<a, c>> \in R
  <2>1. IndexBefore(a, b) /\ IndexBefore(b, c)
    BY <1>0, <1>3
  <2>2. IndexBefore(a, c)
    BY <1>1, <2>1 DEF IndexBefore, Comparable
  <2> QED
    BY <1>0, <2>2
<1>4. ASSUME NEW a \in X, NEW b \in X, <<a, b>> \notin R, <<b, a>> \notin R PROVE a = b
  <2>1. ~IndexBefore(a, b) /\ ~IndexBefore(b, a)
    BY <1>0, <1>4
  <2>2. a.id = b.id
    BY <1>1, <2>1 DEF IndexBefore
  <2> QED
    BY <2>2 DEF OneEach
<1> HIDE DEF R
<1>5. Ranks(R, X)
  BY <1>2, <1>3, <1>4 DEF Ranks
<1> QED
  BY <1>5 DEF R

\* So sorting keeps every line, once.
LEMMA Sorting ==
  ASSUME NEW T, IsFiniteSet(T), NEW R, Ranks(R, T)
  PROVE  Sorted(T, R) \in Seq(T) /\ ToSet(Sorted(T, R)) = T /\ IsInjective(Sorted(T, R))
<1> DEFINE s == Sorted(T, R)
<1>1. s = [n \in 1..Cardinality(T) |-> CHOOSE l \in T : Cardinality(Below(R, T, l)) = n - 1]
  BY DEF Sorted, Below
<1> HIDE DEF s
<1>2. ASSUME NEW n \in 1..Cardinality(T)
      PROVE  s[n] \in T /\ Cardinality(Below(R, T, s[n])) = n - 1
  <2>1. \E l \in T : Cardinality(Below(R, T, l)) = n - 1
    BY EveryRank
  <2> QED
    BY <1>1, <2>1
<1>3. s \in [1..Cardinality(T) -> T]
  BY <1>1, <1>2
<1>4. s \in Seq(T) /\ ToSet(s) = T /\ IsInjective(s)
  BY <1>2, <1>3, Arranging
<1> QED
  BY <1>4 DEF s

LEMMA BytesSort ==
  ASSUME NEW X \in SUBSET Line, IsFiniteSet(X), Dated(X), SameKind(X)
  PROVE  LET s == sortedLines[X] IN s \in Seq(X) /\ ToSet(s) = X /\ IsInjective(s)
<1>1. sortedLines[X] = Sorted(X, {ab \in X \X X : BytesLess(ab[1], ab[2])})
  BY DEF sortedLines
<1> QED
  BY <1>1, BytesOrder, Sorting

LEMMA HistorySort ==
  ASSUME NEW X \in SUBSET Line, IsFiniteSet(X), Dated(X), SameKind(X)
  PROVE  LET s == sortedHistory[X] IN s \in Seq(X) /\ ToSet(s) = X /\ IsInjective(s)
<1>1. sortedHistory[X] = Sorted(X, {ab \in X \X X : HistoryBefore(ab[1], ab[2])})
  BY DEF sortedHistory
<1> QED
  BY <1>1, HistoryOrder, Sorting

LEMMA IndexSort ==
  ASSUME NEW X \in SUBSET Line, IsFiniteSet(X), OneEach(X), Comparable(X)
  PROVE  LET s == sortedEntries[X] IN s \in Seq(X) /\ ToSet(s) = X /\ IsInjective(s)
<1>1. sortedEntries[X] = Sorted(X, {ab \in X \X X : IndexBefore(ab[1], ab[2])})
  BY DEF sortedEntries
<1> QED
  BY <1>1, IndexOrder, Sorting

-----------------------------------------------------------------------------
(* The loop over the lines of the session index *)

LEMMA CollectType ==
  ASSUME NEW E \in SUBSET Line, NEW l \in Line
  PROVE  Collect(E, l) \in SUBSET Line
  BY DEF Collect

LEMMA MaxOf ==
  ASSUME NEW n \in Nat, NEW s \in SUBSET (1..n), n \in s
  PROVE  Max(s) = n
<1>1. \A y \in s : n >= y
  OBVIOUS
<1>2. \A x \in s : (\A y \in s : x >= y) => x = n
  OBVIOUS
<1> QED
  BY <1>1, <1>2 DEF Max

\* What FoldLeft iterates, as far as the n-th line.
Iterates(lines, n) ==
    {it \in [SUBSET (1..n) -> SUBSET Line] :
        \A s \in SUBSET (1..n) :
            it[s] = IF s = {} THEN {} ELSE Collect(it[s \ {Max(s)}], lines[Max(s)])}

LEMMA NextIterate ==
  ASSUME NEW lines \in Seq(Line), NEW n \in Nat, n + 1 <= Len(lines), Iterates(lines, n) # {}
  PROVE  Iterates(lines, n + 1) # {}
<1> DEFINE D == SUBSET (1..n)
           D1 == SUBSET (1..(n + 1))
<1>1. PICK it \in Iterates(lines, n) : TRUE
  OBVIOUS
<1>2. it \in [D -> SUBSET Line]
      /\ \A s \in D : it[s] = IF s = {} THEN {} ELSE Collect(it[s \ {Max(s)}], lines[Max(s)])
  BY <1>1 DEF Iterates
<1> DEFINE it1 == [s \in D1 |-> IF n + 1 \in s THEN Collect(it[s \ {n + 1}], lines[n + 1]) ELSE it[s]]
<1>3. ASSUME NEW s \in D1
      PROVE  /\ s \ {n + 1} \in D
             /\ n + 1 \notin s => s \in D
  OBVIOUS
<1>4. lines[n + 1] \in Line
  OBVIOUS
<1>5. it1 \in [D1 -> SUBSET Line]
  <2>1. ASSUME NEW s \in D1 PROVE it1[s] \in SUBSET Line
    <3>1. CASE n + 1 \in s
      <4>1. it[s \ {n + 1}] \in SUBSET Line
        BY <1>2, <1>3
      <4> QED
        BY <1>4, <3>1, <4>1, CollectType
    <3>2. CASE n + 1 \notin s
      BY <1>2, <1>3, <3>2
    <3> QED
      BY <3>1, <3>2
  <2> QED
    BY <2>1
<1>6. ASSUME NEW s \in D PROVE s \in D1 /\ n + 1 \notin s /\ it1[s] = it[s]
  OBVIOUS
<1>7. ASSUME NEW s \in D1
      PROVE  it1[s] = IF s = {} THEN {} ELSE Collect(it1[s \ {Max(s)}], lines[Max(s)])
  <2>1. CASE n + 1 \in s
    <3>1. Max(s) = n + 1 /\ s # {}
      BY <2>1, MaxOf
    <3>2. it1[s \ {n + 1}] = it[s \ {n + 1}]
      BY <1>3, <1>6
    <3> QED
      BY <2>1, <3>1, <3>2
  <2>2. CASE n + 1 \notin s
    <3>1. s \in D
      BY <1>3, <2>2
    <3>2. it1[s] = it[s] /\ it1[s \ {Max(s)}] = it[s \ {Max(s)}]
      BY <1>6, <3>1
    <3> QED
      BY <1>2, <3>1, <3>2
  <2> QED
    BY <2>1, <2>2
<1>8. it1 \in Iterates(lines, n + 1)
  BY <1>5, <1>7 DEF Iterates
<1> QED
  BY <1>8

LEMMA SomeIterate ==
  ASSUME NEW lines \in Seq(Line)
  PROVE  Iterates(lines, Len(lines)) # {}
<1> DEFINE Bad == {n \in 0..Len(lines) : Iterates(lines, n) = {}}
<1>1. Len(lines) \in Nat
  OBVIOUS
<1>2. Iterates(lines, 0) # {}
  <2> DEFINE it == [s \in SUBSET (1..0) |-> {}]
  <2>1. \A s \in SUBSET (1..0) : s = {}
    OBVIOUS
  <2>2. it \in [SUBSET (1..0) -> SUBSET Line]
    OBVIOUS
  <2>3. it \in Iterates(lines, 0)
    BY <2>1, <2>2 DEF Iterates
  <2> QED
    BY <2>3
<1>3. CASE Bad # {}
  <2>0. Bad \in SUBSET Nat
    BY <1>1
  <2> HIDE DEF Bad
  <2>1. PICK m \in Bad : \A k \in Bad : m <= k
    BY <2>0, <1>3, LeastNatural
  <2> USE DEF Bad
  <2>2. m \in Nat /\ m <= Len(lines) /\ Iterates(lines, m) = {}
    BY <1>1
  <2>3. m # 0
    BY <1>2, <2>2
  <2>4. m - 1 \in Nat /\ m - 1 \notin Bad /\ (m - 1) + 1 = m
    BY <1>1, <2>1, <2>2, <2>3
  <2>5. Iterates(lines, m - 1) # {}
    BY <1>1, <2>2, <2>4
  <2>6. Iterates(lines, (m - 1) + 1) # {}
    BY <2>2, <2>4, <2>5, NextIterate
  <2> QED
    BY <2>2, <2>4, <2>6
<1> QED
  BY <1>1, <1>3

\* The entries after each line.
Collected(lines) ==
    {e \in [0..Len(lines) -> SUBSET Line] :
        /\ e[0] = {}
        /\ \A n \in 1..Len(lines) : e[n] = Collect(e[n - 1], lines[n])}

LEMMA FoldSteps ==
  ASSUME NEW lines \in Seq(Line)
  PROVE  \E e \in Collected(lines) : e[Len(lines)] = FoldLeft(Collect, {}, lines)
<1> DEFINE N == Len(lines)
           Rest(it, s) == IF s = {} THEN {} ELSE Collect(it[s \ {Max(s)}], lines[Max(s)])
           choice == CHOOSE it : it = [s \in SUBSET (1..N) |-> Rest(it, s)]
<1>1. N \in Nat /\ DOMAIN lines = 1..N
  OBVIOUS
<1>2. PICK f \in Iterates(lines, N) : TRUE
  BY SomeIterate
<1>3. f = [s \in SUBSET (1..N) |-> Rest(f, s)]
  BY <1>2 DEF Iterates
<1>4. choice = [s \in SUBSET (1..N) |-> Rest(choice, s)]
  BY <1>3, Zenon
<1>5. FoldLeft(Collect, {}, lines) = choice[1..N]
  BY <1>1 DEF FoldLeft, MapThenFoldSet
<1> HIDE DEF choice
<1> DEFINE e == [n \in 0..N |-> choice[1..n]]
<1>6. e[0] = {}
  <2>1. 1..0 = {} /\ {} \in SUBSET (1..N) /\ 0 \in 0..N
    BY <1>1
  <2> QED
    BY <1>4, <2>1
<1>7. ASSUME NEW n \in 1..N PROVE e[n] = Collect(e[n - 1], lines[n])
  <2>0. n \in Nat /\ n >= 1 /\ n <= N
    BY <1>1
  <2>1. 1..n \in SUBSET (1..N) /\ n \in 1..n /\ 1..n \in SUBSET (1..n)
    BY <1>1, <2>0
  <2>5. (1..n) \ {n} = 1..(n - 1)
    BY <2>0
  <2>2. Max(1..n) = n /\ 1..n # {}
    BY <2>0, <2>1, MaxOf
  <2>3. choice[1..n] = Collect(choice[1..(n - 1)], lines[n])
    BY <1>4, <2>1, <2>2, <2>5
  <2>4. n \in 0..N /\ n - 1 \in 0..N
    BY <1>1
  <2> QED
    BY <2>3, <2>4
<1> DEFINE Bad == {n \in 0..N : e[n] \notin SUBSET Line}
<1>8. CASE Bad # {}
  <2> HIDE DEF e
  <2>0. Bad \in SUBSET Nat
    BY <1>1
  <2> HIDE DEF Bad
  <2>1. PICK m \in Bad : \A k \in Bad : m <= k
    BY <2>0, <1>8, LeastNatural
  <2> USE DEF Bad
  <2>2. m \in 1..N /\ m - 1 \in 0..N /\ m - 1 \notin Bad
    BY <1>1, <1>6, <2>1
  <2>3. e[m - 1] \in SUBSET Line /\ lines[m] \in Line
    BY <1>1, <2>2
  <2>4. e[m] \in SUBSET Line
    BY <1>7, <2>2, <2>3, CollectType
  <2> QED
    BY <2>1, <2>4
<1>9. CASE Bad = {}
  <2>1. e \in [0..N -> SUBSET Line]
    BY <1>9
  <2>2. e \in Collected(lines)
    BY <1>6, <1>7, <2>1 DEF Collected
  <2>3. e[Len(lines)] = FoldLeft(Collect, {}, lines)
    BY <1>1, <1>5
  <2> QED
    BY <2>2, <2>3
<1> QED
  BY <1>8, <1>9

ObjectsOf(X) == {l \in X : l.object}

\* What entry E says of line l: it is of its thread, and no earlier.
Covers(E, l) == \E e \in E : e.object /\ e.id = l.id /\ ~Later(l.time, e.time)

LEMMA CollectKeeps ==
  ASSUME NEW X \in SUBSET Line, Comparable(ObjectsOf(X)), NEW E \in SUBSET ObjectsOf(X), OneEach(E),
         NEW line \in X
  PROVE  /\ Collect(E, line) \subseteq E \cup ObjectsOf({line})
         /\ OneEach(Collect(E, line))
         /\ line.object => Covers(Collect(E, line), line)
         /\ \A l \in ObjectsOf(X) : Covers(E, l) => Covers(Collect(E, line), l)
<1> DEFINE same == {e \in E : e.id = line.id}
<1>0. E \subseteq X /\ \A e \in E : e.object
  BY DEF ObjectsOf
<1>1. CASE ~line.object \/ \E e \in same : ~Replaces(line, e)
  <2>1. Collect(E, line) = E
    BY <1>1 DEF Collect
  <2>2. line.object => Covers(E, line)
    BY <1>0, <1>1 DEF Covers, Replaces
  <2> QED
    BY <2>1, <2>2
<1>2. CASE line.object /\ \A e \in same : Replaces(line, e)
  <2>1. Collect(E, line) = (E \ same) \cup {line}
    BY <1>2 DEF Collect
  <2>2. OneEach(Collect(E, line))
    BY <2>1 DEF OneEach
  <2>3. ~Later(line.time, line.time)
    BY TimesCompare DEF Line
  <2>4. Covers(Collect(E, line), line)
    BY <1>2, <2>1, <2>3 DEF Covers
  <2>5. ASSUME NEW l \in ObjectsOf(X), Covers(E, l) PROVE Covers(Collect(E, line), l)
    <3>1. PICK e \in E : e.object /\ e.id = l.id /\ ~Later(l.time, e.time)
      BY <2>5 DEF Covers
    <3>2. CASE e \notin same
      BY <2>1, <3>1, <3>2 DEF Covers
    <3>3. CASE e \in same
      <4>1. ~Later(e.time, line.time)
        <5>1. e.time \in Time /\ line.time \in Time
          BY <1>0 DEF Line
        <5> QED
          BY <1>2, <3>3, <5>1, TimesCompare DEF Replaces
      <4>2. e \in ObjectsOf(X) /\ line \in ObjectsOf(X)
        BY <1>2 DEF ObjectsOf
      <4>3. ~Later(l.time, line.time)
        BY <3>1, <4>1, <4>2 DEF Comparable
      <4> QED
        BY <1>2, <2>1, <3>1, <3>3, <4>3 DEF Covers
    <3> QED
      BY <3>2, <3>3
  <2> QED
    BY <1>2, <2>1, <2>2, <2>4, <2>5 DEF ObjectsOf
<1> QED
  BY <1>1, <1>2

\* The loop ends with one entry for each thread, none earlier than any that it read.
LEMMA Entries ==
  ASSUME NEW lines \in Seq(Line), Comparable(Objects(lines))
  PROVE  LET E == FoldLeft(Collect, {}, lines)
         IN  /\ E \subseteq Objects(lines) /\ OneEach(E)
             /\ \A l \in Objects(lines) : Covers(E, l)
<1> DEFINE N == Len(lines)
           X == ToSet(lines)
           Before(n) == {lines[i] : i \in 1..n}
<1>1. PICK e \in Collected(lines) : e[N] = FoldLeft(Collect, {}, lines)
  BY FoldSteps
<1>2. N \in Nat /\ X \in SUBSET Line /\ X = Before(N) /\ \A i \in 1..N : lines[i] \in X
  BY DEF ToSet
<1>3. Objects(lines) = ObjectsOf(X)
  BY DEF Objects, ObjectsOf
<1> DEFINE Holds(n) == /\ e[n] \subseteq ObjectsOf(X) /\ OneEach(e[n])
                       /\ \A l \in ObjectsOf(Before(n)) : Covers(e[n], l)
           Bad == {n \in 0..N : ~Holds(n)}
<1>4. e[0] = {} /\ \A n \in 1..N : e[n] = Collect(e[n - 1], lines[n])
  BY <1>1 DEF Collected
<1> HIDE DEF N, X
<1>5. Holds(0)
  BY <1>4 DEF OneEach, ObjectsOf
<1>6. ASSUME NEW n \in 1..N, Holds(n - 1) PROVE Holds(n)
  <2>1. lines[n] \in X /\ e[n] = Collect(e[n - 1], lines[n])
    BY <1>2, <1>4
  <2>2. /\ e[n] \subseteq e[n - 1] \cup ObjectsOf({lines[n]})
        /\ OneEach(e[n])
        /\ lines[n].object => Covers(e[n], lines[n])
        /\ \A l \in ObjectsOf(X) : Covers(e[n - 1], l) => Covers(e[n], l)
    <3>1. X \in SUBSET Line /\ Comparable(ObjectsOf(X))
      BY <1>2, <1>3
    <3>2. e[n - 1] \in SUBSET ObjectsOf(X) /\ OneEach(e[n - 1]) /\ lines[n] \in X
      BY <1>6, <2>1
    <3> HIDE DEF Holds
    <3>3. /\ Collect(e[n - 1], lines[n]) \subseteq e[n - 1] \cup ObjectsOf({lines[n]})
          /\ OneEach(Collect(e[n - 1], lines[n]))
          /\ lines[n].object => Covers(Collect(e[n - 1], lines[n]), lines[n])
          /\ \A l \in ObjectsOf(X) : Covers(e[n - 1], l) => Covers(Collect(e[n - 1], lines[n]), l)
      BY <3>1, <3>2, CollectKeeps
    <3> QED
      BY <2>1, <3>3
  <2>3. e[n] \subseteq ObjectsOf(X)
    BY <1>6, <2>1, <2>2 DEF ObjectsOf
  <2>4. ASSUME NEW l \in ObjectsOf(Before(n)) PROVE Covers(e[n], l)
    <3>1. PICK i \in 1..n : l = lines[i] /\ l.object
      BY DEF ObjectsOf
    <3>2. CASE i = n
      BY <2>2, <3>1, <3>2
    <3>3. CASE i # n
      <4>1. i \in 1..(n - 1) /\ i \in 1..N
        BY <1>2, <3>3
      <4>2. l \in ObjectsOf(Before(n - 1)) /\ l \in ObjectsOf(X)
        BY <1>2, <3>1, <4>1 DEF ObjectsOf
      <4> QED
        BY <1>6, <2>2, <4>2
    <3> QED
      BY <3>2, <3>3
  <2> QED
    BY <2>2, <2>3, <2>4
<1> HIDE DEF Holds
<1>7. CASE Bad # {}
  <2>1. Bad \in SUBSET Nat
    BY <1>2
  <2> HIDE DEF Bad
  <2>2. PICK m \in Bad : \A k \in Bad : m <= k
    BY <1>7, <2>1, LeastNatural
  <2> USE DEF Bad
  <2>3. m \in 1..N /\ m - 1 \in 0..N /\ m - 1 \notin Bad
    BY <1>2, <1>5, <2>2
  <2> QED
    BY <1>6, <2>2, <2>3
<1>8. CASE Bad = {}
  <2>1. Holds(N)
    BY <1>2, <1>8
  <2> QED
    BY <1>1, <1>2, <1>3, <2>1 DEF Holds
<1> QED
  BY <1>7, <1>8

-----------------------------------------------------------------------------
(* The merged file *)

LEMMA FiniteLines ==
  ASSUME NEW lines \in Seq(Line)
  PROVE  ToSet(lines) \in SUBSET Line /\ IsFiniteSet(ToSet(lines))
<1>1. Len(lines) \in Nat /\ DOMAIN lines = 1..Len(lines)
  OBVIOUS
<1>2. IsFiniteSet(DOMAIN lines)
  BY <1>1, FS_Interval
<1>3. lines \in Surjection(DOMAIN lines, ToSet(lines))
  BY <1>1 DEF Surjection, ToSet
<1>4. IsFiniteSet(ToSet(lines))
  BY <1>2, <1>3, FS_Surjection
<1> QED
  BY <1>1, <1>4 DEF ToSet

LEMMA Wider ==
  ASSUME NEW S, NEW T, S \subseteq T, NEW s \in Seq(S)
  PROVE  s \in Seq(T)
  OBVIOUS

LEMMA Joined ==
  ASSUME NEW S, NEW one \in Seq(S), NEW two \in Seq(S)
  PROVE  /\ one \o two \in Seq(S)
         /\ ToSet(one \o two) = ToSet(one) \cup ToSet(two)
         /\ IsInjective(one) /\ IsInjective(two) /\ ToSet(one) \cap ToSet(two) = {}
              => IsInjective(one \o two)
<1> DEFINE M == Len(one)
           N == Len(two)
           both == one \o two
<1>1. M \in Nat /\ N \in Nat /\ both \in Seq(S) /\ Len(both) = M + N
      /\ DOMAIN one = 1..M /\ DOMAIN two = 1..N /\ DOMAIN both = 1..(M + N)
  OBVIOUS
<1>2. \A i \in 1..M : i \in 1..(M + N) /\ both[i] = one[i]
  BY <1>1
<1>3. \A i \in 1..N : M + i \in 1..(M + N) /\ both[M + i] = two[i]
  BY <1>1
<1>4. \A i \in 1..(M + N) : i \notin 1..M => i - M \in 1..N /\ both[i] = two[i - M]
  BY <1>1
<1> HIDE DEF M, N, both
<1>5. ToSet(both) = ToSet(one) \cup ToSet(two)
  <2>1. ASSUME NEW x \in ToSet(both) PROVE x \in ToSet(one) \cup ToSet(two)
    <3>1. PICK i \in 1..(M + N) : x = both[i]
      BY <1>1 DEF ToSet
    <3> QED
      BY <1>1, <1>2, <1>4, <3>1 DEF ToSet
  <2>2. ASSUME NEW x \in ToSet(one) PROVE x \in ToSet(both)
    BY <1>1, <1>2 DEF ToSet
  <2>3. ASSUME NEW x \in ToSet(two) PROVE x \in ToSet(both)
    BY <1>1, <1>3 DEF ToSet
  <2> QED
    BY <2>1, <2>2, <2>3
<1>6. ASSUME IsInjective(one), IsInjective(two), ToSet(one) \cap ToSet(two) = {}
      PROVE  IsInjective(both)
  <2>1. ASSUME NEW i \in 1..(M + N), NEW j \in 1..(M + N), both[i] = both[j] PROVE i = j
    <3>1. CASE i \in 1..M /\ j \in 1..M
      BY <1>1, <1>2, <1>6, <2>1, <3>1 DEF IsInjective
    <3>2. CASE i \notin 1..M /\ j \notin 1..M
      <4>1. i - M = j - M
        BY <1>1, <1>4, <1>6, <2>1, <3>2 DEF IsInjective
      <4> QED
        BY <1>1, <4>1
    <3>3. CASE i \in 1..M /\ j \notin 1..M
      BY <1>1, <1>2, <1>4, <1>6, <2>1, <3>3 DEF ToSet
    <3>4. CASE i \notin 1..M /\ j \in 1..M
      BY <1>1, <1>2, <1>4, <1>6, <2>1, <3>4 DEF ToSet
    <3> QED
      BY <3>1, <3>2, <3>3, <3>4
  <2> QED
    BY <1>1, <2>1 DEF IsInjective
<1> QED
  BY <1>1, <1>5, <1>6 DEF both

\* No line twice, and in the session index one entry for each thread.
Tidy(p, lines) == IsInjective(lines) /\ (p = Index => OneEach(ObjectsOf(ToSet(lines))))

\* A merge of lines whose timestamps compare makes a tidy file of them that
\* shows every line of both.
LEMMA Merging ==
  ASSUME NEW p \in Paths, NEW local \in Seq(Line), NEW theirs \in Seq(Line),
         NEW X, X = ToSet(local) \cup ToSet(theirs),
         Dated(X), p = Index => Comparable(ObjectsOf(X))
  PROVE  LET merged == MergeJSONL(p, local, theirs)
         IN  /\ merged \in Seq(Line) /\ ToSet(merged) \subseteq X
             /\ Tidy(p, merged)
             /\ \A l \in X : Shown(p, merged, l)
<1> DEFINE lines == local \o theirs
           rest == sortedLines[Others(lines)]
<1>1. lines \in Seq(Line) /\ ToSet(lines) = X
  BY Joined
<1> HIDE DEF lines
<1>2. X \in SUBSET Line /\ IsFiniteSet(X)
  BY <1>1, FiniteLines
<1>3. Objects(lines) = ObjectsOf(X) /\ Others(lines) = X \ ObjectsOf(X) /\ ObjectsOf(X) \subseteq X
  BY <1>1 DEF Objects, Others, ObjectsOf
<1>4. IsFiniteSet(Objects(lines)) /\ IsFiniteSet(Others(lines))
  BY <1>2, <1>3, FS_Subset
<1>5. rest \in Seq(Others(lines)) /\ ToSet(rest) = Others(lines) /\ IsInjective(rest)
  <2>0. Others(lines) \subseteq X /\ \A l \in Others(lines) : ~l.object
    BY <1>1 DEF Others
  <2>2. \A l \in Line : l.object \in BOOLEAN
    BY DEF Line
  <2>1. Dated(Others(lines)) /\ SameKind(Others(lines)) /\ Others(lines) \in SUBSET Line
    <3>1. \A a, b \in Others(lines) : a.object = b.object
      BY <1>2, <2>0, <2>2
    <3> QED
      BY <1>2, <2>0, <3>1 DEF Dated, SameKind
  <2> QED
    BY <1>4, <2>1, BytesSort
<1> HIDE DEF rest
<1>6. ASSUME NEW first, NEW E, E \subseteq Objects(lines), first \in Seq(E), ToSet(first) = E, IsInjective(first),
             p = Index => OneEach(E),
             \A l \in Objects(lines) : l \in E \/ (p = Index /\ Covers(E, l))
      PROVE  /\ first \o rest \in Seq(Line) /\ ToSet(first \o rest) \subseteq X
             /\ Tidy(p, first \o rest)
             /\ \A l \in X : Shown(p, first \o rest, l)
  <2>0. E \subseteq Line /\ Others(lines) \subseteq Line
    BY <1>2, <1>3, <1>6
  <2>1. first \in Seq(Line) /\ rest \in Seq(Line)
    BY <1>5, <1>6, <2>0, Wider
  <2>2. ToSet(first) \cap ToSet(rest) = {}
    BY <1>3, <1>5, <1>6
  <2>3. first \o rest \in Seq(Line) /\ ToSet(first \o rest) = E \cup Others(lines)
        /\ IsInjective(first \o rest)
    BY <1>5, <1>6, <2>1, <2>2, Joined
  <2>4. ObjectsOf(ToSet(first \o rest)) = E
    BY <1>3, <1>6, <2>3 DEF ObjectsOf
  <2>5. Tidy(p, first \o rest)
    BY <1>6, <2>3, <2>4 DEF Tidy
  <2>6. ASSUME NEW l \in X PROVE Shown(p, first \o rest, l)
    <3>1. CASE ~l.object
      BY <1>3, <2>3, <3>1 DEF Shown, ObjectsOf
    <3>2. CASE l.object
      <4>1. l \in E \/ (p = Index /\ Covers(E, l))
        BY <1>3, <1>6, <3>2 DEF ObjectsOf
      <4> QED
        BY <2>3, <3>2, <4>1 DEF Shown, Covers
    <3> QED
      BY <3>1, <3>2
  <2> QED
    BY <1>3, <1>6, <2>3, <2>5, <2>6
<1>7. CASE p = Index
  <2> DEFINE E == FoldLeft(Collect, {}, lines)
             first == sortedEntries[E]
  <2>1. MergeJSONL(p, local, theirs) = first \o rest
    BY <1>7 DEF MergeJSONL, mergeSessionIndex, lines, rest
  <2>2. Comparable(Objects(lines))
    BY <1>3, <1>7
  <2>3. /\ E \subseteq Objects(lines) /\ OneEach(E)
        /\ \A l \in Objects(lines) : Covers(E, l)
    BY <1>1, <2>2, Entries
  <2> HIDE DEF E
  <2>4. E \in SUBSET Line /\ IsFiniteSet(E) /\ Comparable(E)
    BY <1>2, <1>3, <1>4, <2>2, <2>3, FS_Subset DEF Comparable
  <2>5. first \in Seq(E) /\ ToSet(first) = E /\ IsInjective(first)
    BY <2>3, <2>4, IndexSort
  <2> HIDE DEF first
  <2> QED
    BY <1>6, <1>7, <2>1, <2>3, <2>5
<1>8. CASE p # Index
  <2> DEFINE E == Objects(lines)
             first == sortedHistory[E]
  <2>1. MergeJSONL(p, local, theirs) = first \o rest
    BY <1>8 DEF MergeJSONL, mergeHistory, lines, rest
  <2>2. E \in SUBSET Line /\ Dated(E) /\ SameKind(E)
    BY <1>1, <1>2, <1>3 DEF Dated, SameKind, ObjectsOf
  <2>3. first \in Seq(E) /\ ToSet(first) = E /\ IsInjective(first)
    BY <1>4, <2>2, HistorySort
  <2> HIDE DEF first
  <2> QED
    BY <1>6, <1>8, <2>1, <2>3
<1> QED
  BY <1>7, <1>8

-----------------------------------------------------------------------------
(* The lines of a path *)

\* What a copy of p may hold: lines Codex appends, whatever became of their text.
Wrote(p) ==
    {l \in Line : \E a \in Appended[p] : l.object = a.object /\ l.id = a.id /\ l.time = a.time}

\* The timestamps of the session index compare: those that parse among
\* themselves, the others as strings, and no three of them go round in a circle.
Ordered == Comparable(ObjectsOf(Appended[Index]))

\* Codex writes a home directory in the lines of its own device alone.
Translatable == \A p \in Paths : \A a \in Appended[p] : a.text \notin {Home(d) : d \in Devices}

LEMMA WroteLines ==
  ASSUME NEW p \in Paths
  PROVE  /\ Wrote(p) \subseteq Line
         /\ Dated(Wrote(p))
         /\ Ordered => (p = Index => Comparable(ObjectsOf(Wrote(p))))
<1>1. \A a, b \in Appended[p] : a.time.str = b.time.str => a.time = b.time
  BY MergeAssumption DEF MergeAssumption
<1>2. Dated(Wrote(p))
  BY <1>1 DEF Dated, Wrote
<1>3. ASSUME Ordered, p = Index PROVE Comparable(ObjectsOf(Wrote(p)))
  <2>1. ASSUME NEW l \in ObjectsOf(Wrote(p))
        PROVE  \E a \in ObjectsOf(Appended[Index]) : l.time = a.time
    BY <1>3 DEF ObjectsOf, Wrote
  <2>2. ASSUME NEW k \in ObjectsOf(Wrote(p)), NEW l \in ObjectsOf(Wrote(p)), NEW m \in ObjectsOf(Wrote(p)),
               Later(k.time, m.time)
        PROVE  Later(k.time, l.time) \/ Later(l.time, m.time)
    <3>1. PICK a \in ObjectsOf(Appended[Index]) : k.time = a.time
      BY <2>1
    <3>2. PICK b \in ObjectsOf(Appended[Index]) : l.time = b.time
      BY <2>1
    <3>3. PICK c \in ObjectsOf(Appended[Index]) : m.time = c.time
      BY <2>1
    <3> QED
      BY <1>3, <2>2, <3>1, <3>2, <3>3 DEF Ordered, Comparable
  <2> QED
    BY <2>2 DEF Comparable
<1> QED
  BY <1>2, <1>3 DEF Wrote

\* One line of a device's copy as the remote has it, and the other way.
Normalized(d, l) == [l EXCEPT !.text = Normalize(d, @)]
Resolved(d, l) == [l EXCEPT !.text = Resolve(d, @)]

LEMMA SameLine ==
  ASSUME NEW a \in Line, NEW b \in Line, a.object = b.object, a.id = b.id, a.time = b.time, a.text = b.text
  PROVE  a = b
  BY DEF Line

LEMMA NormalizedLine ==
  ASSUME NEW d \in Devices, NEW l \in Line
  PROVE  /\ Normalized(d, l) \in Line
         /\ Normalized(d, l).object = l.object /\ Normalized(d, l).id = l.id
         /\ Normalized(d, l).time = l.time
         /\ Normalized(d, l).text = IF l.text = Home(d) THEN Token ELSE l.text
  BY MergeAssumption DEF MergeAssumption, Normalized, Normalize, Line

LEMMA ResolvedLine ==
  ASSUME NEW d \in Devices, NEW l \in Line
  PROVE  /\ Resolved(d, l) \in Line
         /\ Resolved(d, l).object = l.object /\ Resolved(d, l).id = l.id
         /\ Resolved(d, l).time = l.time
         /\ Resolved(d, l).text = IF l.text = Token THEN Home(d) ELSE l.text
<1>1. Home(d) \in DOMAIN ByteOrder
  BY MergeAssumption DEF MergeAssumption
<1> QED
  BY <1>1 DEF Resolved, Resolve, Line

LEMMA NormalizedContent ==
  ASSUME NEW d \in Devices, NEW p \in Paths, NEW lines \in Seq(Wrote(p))
  PROVE  /\ NormalizeContent(d, lines) \in Seq(Wrote(p))
         /\ Len(NormalizeContent(d, lines)) = Len(lines)
         /\ \A i \in 1..Len(lines) : NormalizeContent(d, lines)[i] = Normalized(d, lines[i])
         /\ ToSet(NormalizeContent(d, lines)) = {Normalized(d, l) : l \in ToSet(lines)}
<1> DEFINE N == Len(lines)
           norm == NormalizeContent(d, lines)
<1>1. N \in Nat /\ DOMAIN lines = 1..N /\ \A i \in 1..N : lines[i] \in Wrote(p)
  OBVIOUS
<1>2. norm = [i \in 1..N |-> Normalized(d, lines[i])]
  BY <1>1 DEF NormalizeContent, Normalized
<1>3. ASSUME NEW l \in Wrote(p) PROVE Normalized(d, l) \in Wrote(p)
  BY NormalizedLine DEF Wrote
<1> HIDE DEF N, norm
<1>4. \A i \in 1..N : norm[i] = Normalized(d, lines[i]) /\ norm[i] \in Wrote(p)
  BY <1>1, <1>2, <1>3
<1>5. norm \in Seq(Wrote(p)) /\ Len(norm) = N /\ DOMAIN norm = 1..N
  BY <1>1, <1>2, <1>4
<1>6. ToSet(norm) = {Normalized(d, l) : l \in ToSet(lines)}
  BY <1>1, <1>4, <1>5 DEF ToSet
<1> QED
  BY <1>4, <1>5, <1>6 DEF N, norm

LEMMA ResolvedContent ==
  ASSUME NEW d \in Devices, NEW p \in Paths, NEW lines \in Seq(Wrote(p))
  PROVE  /\ ResolveContent(d, lines) \in Seq(Wrote(p))
         /\ Len(ResolveContent(d, lines)) = Len(lines)
         /\ \A i \in 1..Len(lines) : ResolveContent(d, lines)[i] = Resolved(d, lines[i])
         /\ ToSet(ResolveContent(d, lines)) = {Resolved(d, l) : l \in ToSet(lines)}
<1> DEFINE N == Len(lines)
           here == ResolveContent(d, lines)
<1>1. N \in Nat /\ DOMAIN lines = 1..N /\ \A i \in 1..N : lines[i] \in Wrote(p)
  OBVIOUS
<1>2. here = [i \in 1..N |-> Resolved(d, lines[i])]
  BY <1>1 DEF ResolveContent, Resolved
<1>3. ASSUME NEW l \in Wrote(p) PROVE Resolved(d, l) \in Wrote(p)
  BY ResolvedLine DEF Wrote
<1> HIDE DEF N, here
<1>4. \A i \in 1..N : here[i] = Resolved(d, lines[i]) /\ here[i] \in Wrote(p)
  BY <1>1, <1>2, <1>3
<1>5. here \in Seq(Wrote(p)) /\ Len(here) = N /\ DOMAIN here = 1..N
  BY <1>1, <1>2, <1>4
<1>6. ToSet(here) = {Resolved(d, l) : l \in ToSet(lines)}
  BY <1>1, <1>4, <1>5 DEF ToSet
<1> QED
  BY <1>4, <1>5, <1>6 DEF N, here

\* What a pull makes of a device's copy and an object.
LEMMA PulledFile ==
  ASSUME Ordered, NEW d \in Devices, NEW p \in Paths,
         NEW local \in Seq(Wrote(p)), NEW object \in Seq(Wrote(p))
  PROVE  LET theirs == ResolveContent(d, object)
             merged == MergeJSONL(p, local, theirs)
         IN  /\ theirs \in Seq(Wrote(p))
             /\ merged \in Seq(Wrote(p))
             /\ ToSet(merged) \subseteq ToSet(local) \cup ToSet(theirs)
             /\ Tidy(p, merged)
             /\ \A l \in ToSet(local) \cup ToSet(theirs) : Shown(p, merged, l)
<1> DEFINE theirs == ResolveContent(d, object)
           merged == MergeJSONL(p, local, theirs)
           X == ToSet(local) \cup ToSet(theirs)
<1>1. theirs \in Seq(Wrote(p))
  BY ResolvedContent
<1> HIDE DEF theirs
<1>2. X \subseteq Wrote(p)
  BY <1>1 DEF ToSet
<1>3. local \in Seq(Line) /\ theirs \in Seq(Line)
  BY <1>1, WroteLines, Wider
<1>4. Dated(X)
  BY <1>2, WroteLines DEF Dated
<1>5. p = Index => Comparable(ObjectsOf(X))
  <2>1. ObjectsOf(X) \subseteq ObjectsOf(Wrote(p))
    BY <1>2 DEF ObjectsOf
  <2> HIDE DEF X
  <2> QED
    BY <2>1, WroteLines DEF Comparable
<1> HIDE DEF merged, X
<1>6. /\ merged \in Seq(Line) /\ ToSet(merged) \subseteq X
      /\ Tidy(p, merged)
      /\ \A l \in X : Shown(p, merged, l)
  BY <1>3, <1>4, <1>5, Merging DEF merged, X
<1>7. merged \in Seq(Wrote(p))
  <2>1. \A i \in 1..Len(merged) : merged[i] \in Wrote(p)
    BY <1>2, <1>6 DEF ToSet
  <2> QED
    BY <1>6, <2>1
<1> QED
  BY <1>1, <1>6, <1>7 DEF theirs, merged, X

\* So what the device's copy shows of a line with portable text, the merged copy shows.
LEMMA PullShows ==
  ASSUME Ordered, NEW d \in Devices, NEW p \in Paths,
         NEW local \in Seq(Wrote(p)), NEW object \in Seq(Wrote(p)), NEW l \in Wrote(p),
         Shown(p, NormalizeContent(d, local), l)
  PROVE  Shown(p, NormalizeContent(d, MergeJSONL(p, local, ResolveContent(d, object))), l)
<1> DEFINE merged == MergeJSONL(p, local, ResolveContent(d, object))
<1>1. merged \in Seq(Wrote(p)) /\ \A k \in ToSet(local) : Shown(p, merged, k)
  BY PulledFile
<1> HIDE DEF merged
<1>2. /\ ToSet(NormalizeContent(d, local)) = {Normalized(d, k) : k \in ToSet(local)}
      /\ ToSet(NormalizeContent(d, merged)) = {Normalized(d, k) : k \in ToSet(merged)}
  BY <1>1, NormalizedContent
<1>3. ToSet(local) \subseteq Wrote(p) /\ ToSet(merged) \subseteq Wrote(p) /\ Wrote(p) \subseteq Line
  BY <1>1, WroteLines DEF ToSet
<1>4. ASSUME NEW k \in ToSet(local),
             \/ l = Normalized(d, k)
             \/ p = Index /\ l.object /\ k.object /\ k.id = l.id /\ ~Later(l.time, k.time)
      PROVE  Shown(p, NormalizeContent(d, merged), l)
  <2>1. CASE k \in ToSet(merged)
    <3>1. Normalized(d, k) \in ToSet(NormalizeContent(d, merged))
      BY <1>2, <2>1
    <3>2. Normalized(d, k).object = k.object /\ Normalized(d, k).id = k.id /\ Normalized(d, k).time = k.time
      BY <1>3, NormalizedLine
    <3> QED
      BY <1>4, <3>1, <3>2 DEF Shown
  <2>2. CASE k \notin ToSet(merged)
    <3>1. PICK m \in ToSet(merged) :
            p = Index /\ k.object /\ m.object /\ m.id = k.id /\ ~Later(k.time, m.time)
      BY <1>1, <2>2 DEF Shown
    <3>2. Normalized(d, k).object = k.object /\ Normalized(d, k).id = k.id /\ Normalized(d, k).time = k.time
      BY <1>3, NormalizedLine
    <3>3. Normalized(d, m).object = m.object /\ Normalized(d, m).id = m.id /\ Normalized(d, m).time = m.time
      BY <1>3, NormalizedLine
    <3>4. l.object /\ l.id = k.id /\ (l.time = k.time \/ ~Later(l.time, k.time))
      BY <1>4, <3>1, <3>2
    <3>5. l \in ObjectsOf(Wrote(p)) /\ k \in ObjectsOf(Wrote(p)) /\ m \in ObjectsOf(Wrote(p))
      BY <1>3, <3>1, <3>4 DEF ObjectsOf
    <3>6. Comparable(ObjectsOf(Wrote(p)))
      BY <3>1, WroteLines
    <3>7. ~Later(l.time, m.time)
      BY <3>1, <3>4, <3>5, <3>6 DEF Comparable
    <3>8. Normalized(d, m) \in ToSet(NormalizeContent(d, merged))
      BY <1>2
    <3> QED
      BY <3>1, <3>3, <3>4, <3>7, <3>8 DEF Shown
  <2> QED
    BY <2>1, <2>2
<1>5. \E k \in ToSet(local) :
        \/ l = Normalized(d, k)
        \/ p = Index /\ l.object /\ k.object /\ k.id = l.id /\ ~Later(l.time, k.time)
  <2>1. ASSUME NEW k \in ToSet(local)
        PROVE  Normalized(d, k).object = k.object /\ Normalized(d, k).id = k.id /\ Normalized(d, k).time = k.time
    BY <1>3, NormalizedLine
  <2> QED
    BY <1>2, <2>1 DEF Shown
<1> QED
  BY <1>4, <1>5 DEF merged

-----------------------------------------------------------------------------
(* Types, and that a copy holds nothing but what Codex wrote *)

Sourced ==
    \A p \in Paths :
        /\ remote[p] \in Seq(Wrote(p))
        /\ written[p] \subseteq Wrote(p)
        /\ \A d \in Devices : file[d][p] \in Seq(Wrote(p)) /\ base[d][p] \in Seq(Wrote(p))

Typed == TypeOK /\ Sourced

\* A line as it is appended, and with portable text.
LEMMA AppendedLine ==
  ASSUME NEW d \in Devices, NEW p \in Paths, NEW line \in Appended[p]
  PROVE  /\ OnDevice(d, line) \in Wrote(p)
         /\ OnDevice(d, line).object = Portable(line).object /\ OnDevice(d, line).id = Portable(line).id
         /\ OnDevice(d, line).time = Portable(line).time
         /\ OnDevice(d, line).text = IF line.text = Mine THEN Home(d) ELSE line.text
         /\ Portable(line) \in Wrote(p)
         /\ Portable(line).text = IF line.text = Mine THEN Token ELSE line.text
<1>1. Token \in DOMAIN ByteOrder /\ Home(d) \in DOMAIN ByteOrder
  BY MergeAssumption DEF MergeAssumption
<1>2. line \in [object : BOOLEAN, id : Nat, time : Time, text : {Mine} \cup DOMAIN ByteOrder]
  BY MergeAssumption DEF MergeAssumption
<1>3. OnDevice(d, line) = [object |-> line.object, id |-> line.id, time |-> line.time,
                           text |-> IF line.text = Mine THEN Home(d) ELSE line.text]
  BY <1>2 DEF OnDevice
<1>4. Portable(line) = [object |-> line.object, id |-> line.id, time |-> line.time,
                        text |-> IF line.text = Mine THEN Token ELSE line.text]
  BY <1>2 DEF Portable
<1>5. OnDevice(d, line) \in Line /\ Portable(line) \in Line
  BY <1>1, <1>2, <1>3, <1>4 DEF Line
<1> QED
  BY <1>3, <1>4, <1>5 DEF Wrote

LEMMA TypedAppend ==
  ASSUME Typed, NEW d \in Devices, NEW p \in Paths, AppendLine(d, p)
  PROVE  Typed'
<1>1. PICK line \in Appended[p] :
        /\ file' = [file EXCEPT ![d][p] = Append(@, OnDevice(d, line))]
        /\ written' = [written EXCEPT ![p] = @ \cup {Portable(line)}]
  BY DEF AppendLine
<1>2. OnDevice(d, line) \in Wrote(p) /\ Portable(line) \in Wrote(p) /\ Wrote(p) \subseteq Line
  BY AppendedLine, WroteLines
<1>3. UNCHANGED <<base, remote, stale>> /\ appends' \in 0..MaxAppends
  BY MergeAssumption DEF AppendLine, Typed, TypeOK, MergeAssumption
<1>4. Append(file[d][p], OnDevice(d, line)) \in Seq(Wrote(p))
  BY <1>2 DEF Typed, Sourced
<1>5. Append(file[d][p], OnDevice(d, line)) \in Seq(Line)
  BY <1>2, <1>4, Wider
<1>6. TypeOK'
  BY <1>1, <1>2, <1>3, <1>5 DEF Typed, TypeOK
<1>7. Sourced'
  BY <1>1, <1>2, <1>3, <1>4 DEF Typed, TypeOK, Sourced
<1> QED
  BY <1>6, <1>7 DEF Typed

LEMMA TypedPush ==
  ASSUME Typed, NEW d \in Devices, NEW p \in Paths, Push(d, p)
  PROVE  Typed'
<1>1. file[d][p] \in Seq(Wrote(p)) /\ NormalizeContent(d, file[d][p]) \in Seq(Wrote(p))
  BY NormalizedContent DEF Typed, Sourced
<1>2. file[d][p] \in Seq(Line) /\ NormalizeContent(d, file[d][p]) \in Seq(Line)
  BY <1>1, WroteLines, Wider
<1>3. TypeOK'
  BY <1>2 DEF Typed, TypeOK, Push
<1>4. Sourced'
  BY <1>1 DEF Typed, TypeOK, Sourced, Push
<1> QED
  BY <1>3, <1>4 DEF Typed

LEMMA TypedPull ==
  ASSUME Ordered, Typed, NEW d \in Devices, NEW p \in Paths, Pull(d, p)
  PROVE  Typed'
<1> DEFINE theirs == ResolveContent(d, remote[p])
           merged == MergeJSONL(p, file[d][p], theirs)
<1>1. theirs \in Seq(Wrote(p)) /\ merged \in Seq(Wrote(p))
  BY PulledFile DEF Typed, Sourced
<1>2. theirs \in Seq(Line) /\ merged \in Seq(Line)
  BY <1>1, WroteLines, Wider
<1>3. /\ file' = [file EXCEPT ![d][p] = merged]
      /\ base' = [base EXCEPT ![d][p] = theirs]
      /\ stale' = stale \ {<<d, p>>}
      /\ UNCHANGED <<remote, appends, written>>
  BY DEF Pull
<1> HIDE DEF theirs, merged
<1>4. TypeOK'
  BY <1>2, <1>3 DEF Typed, TypeOK
<1>5. Sourced'
  BY <1>1, <1>3 DEF Typed, TypeOK, Sourced
<1> QED
  BY <1>4, <1>5 DEF Typed

LEMMA TypedNext ==
  ASSUME Ordered, Typed, [Next]_vars
  PROVE  Typed'
<1>1. CASE UNCHANGED vars
  BY <1>1 DEF Typed, TypeOK, Sourced, vars
<1>2. CASE Next
  BY <1>2, TypedAppend, TypedPush, TypedPull DEF Next
<1> QED
  BY <1>1, <1>2

LEMMA AlwaysTyped == ASSUME Ordered PROVE Spec => []Typed
<1>1. Init => Typed
  <2>1. <<>> \in Seq(Line) /\ \A p \in Paths : <<>> \in Seq(Wrote(p))
    OBVIOUS
  <2> QED
    BY <2>1, MergeAssumption DEF Init, None, Typed, TypeOK, Sourced, MergeAssumption
<1>2. Typed /\ [Next]_vars => Typed'
  BY TypedNext
<1> QED
  BY <1>1, <1>2, PTL DEF Spec

\* Every copy and the object are sequences of lines, whatever Codex appends and
\* in whatever order devices push and pull, if the timestamps of the session
\* index compare: then the sort of a merge has an order to sort by
\* (merge.go:42-215).
THEOREM TypeCorrect == ASSUME Ordered PROVE Spec => []TypeOK
<1>1. Typed => TypeOK
  BY DEF Typed
<1> QED
  BY <1>1, AlwaysTyped, PTL

-----------------------------------------------------------------------------
(* No pull loses a line *)

LEMMA ShownLonger ==
  ASSUME NEW p \in Paths, NEW d \in Devices, NEW lines \in Seq(Wrote(p)), NEW line \in Wrote(p),
         NEW l, Shown(p, NormalizeContent(d, lines), l)
  PROVE  Shown(p, NormalizeContent(d, Append(lines, line)), l)
<1>1. Append(lines, line) \in Seq(Wrote(p)) /\ ToSet(lines) \subseteq ToSet(Append(lines, line))
  BY DEF ToSet
<1>2. ToSet(NormalizeContent(d, lines)) \subseteq ToSet(NormalizeContent(d, Append(lines, line)))
  <2>1. ToSet(NormalizeContent(d, lines)) = {Normalized(d, k) : k \in ToSet(lines)}
    BY NormalizedContent
  <2>2. ToSet(NormalizeContent(d, Append(lines, line)))
          = {Normalized(d, k) : k \in ToSet(Append(lines, line))}
    BY <1>1, NormalizedContent
  <2> QED
    BY <1>1, <2>1, <2>2
<1> QED
  BY <1>2 DEF Shown

LEMMA StepShows ==
  ASSUME Ordered, Typed, [Next]_vars, NEW d \in Devices, NEW p \in Paths, NEW l \in written[p],
         Shown(p, NormalizeContent(d, file[d][p]), l)
  PROVE  Shown(p, NormalizeContent(d, file'[d][p]), l)
<1>1. l \in Wrote(p) /\ file[d][p] \in Seq(Wrote(p)) /\ remote[p] \in Seq(Wrote(p))
      /\ file \in [Devices -> [Paths -> Seq(Line)]]
  BY DEF Typed, TypeOK, Sourced
<1>2. CASE UNCHANGED vars
  BY <1>2 DEF vars
<1>3. ASSUME NEW e \in Devices, NEW q \in Paths, AppendLine(e, q)
      PROVE  Shown(p, NormalizeContent(d, file'[d][p]), l)
  <2>1. PICK line \in Appended[q] : file' = [file EXCEPT ![e][q] = Append(@, OnDevice(e, line))]
    BY <1>3 DEF AppendLine
  <2>2. CASE e = d /\ q = p
    BY <1>1, <2>1, <2>2, AppendedLine, ShownLonger
  <2>3. CASE ~(e = d /\ q = p)
    BY <1>1, <2>1, <2>3
  <2> QED
    BY <2>2, <2>3
<1>4. ASSUME NEW e \in Devices, NEW q \in Paths, Push(e, q)
      PROVE  Shown(p, NormalizeContent(d, file'[d][p]), l)
  BY <1>4 DEF Push
<1>5. ASSUME NEW e \in Devices, NEW q \in Paths, Pull(e, q)
      PROVE  Shown(p, NormalizeContent(d, file'[d][p]), l)
  <2>1. file' = [file EXCEPT ![e][q] = MergeJSONL(q, @, ResolveContent(e, remote[q]))]
    BY <1>5 DEF Pull
  <2>2. CASE e = d /\ q = p
    BY <1>1, <2>1, <2>2, PullShows
  <2>3. CASE ~(e = d /\ q = p)
    BY <1>1, <2>1, <2>3
  <2> QED
    BY <2>2, <2>3
<1> QED
  BY <1>2, <1>3, <1>4, <1>5 DEF Next

\* What a device's copy shows of a line it goes on showing, through every push
\* and pull of any devices (merge.go:42-215, sync.go:894-924).
THEOREM NoPullLosesALine == ASSUME Ordered PROVE Spec => NothingLost
<1>1. Typed /\ [Next]_vars =>
        [\A d \in Devices, p \in Paths : \A l \in written[p] :
            Shown(p, NormalizeContent(d, file[d][p]), l)
              => Shown(p, NormalizeContent(d, file'[d][p]), l)]_vars
  BY StepShows
<1> QED
  BY <1>1, AlwaysTyped, PTL DEF Spec, NothingLost

-----------------------------------------------------------------------------
(* When nothing is left to push or pull *)

\* A copy of d mentions no other device's home directory, the object none at all.
Here(d, l) == l.text \notin {Home(e) : e \in Devices \ {d}}
There(l) == l.text \notin {Home(e) : e \in Devices}

PortableText(p) ==
    /\ \A l \in written[p] \cup ToSet(remote[p]) : There(l)
    /\ \A d \in Devices : \A l \in ToSet(file[d][p]) \cup ToSet(base[d][p]) : Here(d, l)

OnlyWritten(p) ==
    /\ ToSet(remote[p]) \subseteq written[p]
    /\ \A d \in Devices : /\ ToSet(NormalizeContent(d, file[d][p])) \subseteq written[p]
                          /\ ToSet(NormalizeContent(d, base[d][p])) \subseteq written[p]

\* A device that is up to date has recorded the object that is there.
BaseIsRemote(p) ==
    \A d \in Devices : <<d, p>> \notin stale => NormalizeContent(d, base[d][p]) = remote[p]

\* Every line that was appended is still shown on some device.
Somewhere(p) ==
    \A l \in written[p] : \E d \in Devices : Shown(p, NormalizeContent(d, file[d][p]), l)

\* Of two devices with nothing left to do one has merged the object: at most
\* the device that pushed it has a copy no merge has been through.
OneHasMerged(p) ==
    \A d, e \in Devices :
        d # e /\ ~Pending(d, p) /\ ~Pending(e, p) =>
            \/ Tidy(p, NormalizeContent(d, file[d][p]))
            \/ Tidy(p, NormalizeContent(e, file[e][p]))

MergeInv(p) == PortableText(p) /\ OnlyWritten(p) /\ BaseIsRemote(p) /\ Somewhere(p) /\ OneHasMerged(p)

LEMMA Homes ==
  /\ \A d, e \in Devices : Home(d) = Home(e) => d = e
  /\ \A d \in Devices : Home(d) # Token /\ Home(d) # Mine
  /\ Mine # Token
  BY DEF Home, Token, Mine

LEMMA RoundTrip ==
  ASSUME NEW d \in Devices, NEW l \in Line, There(l)
  PROVE  /\ Normalized(d, Resolved(d, l)) = l
         /\ Here(d, Resolved(d, l))
         /\ Resolved(d, l).text # Token
<1>1. l.text # Home(d)
  BY DEF There
<1>2. Resolved(d, l) \in Line /\ Resolved(d, l).text = IF l.text = Token THEN Home(d) ELSE l.text
  BY ResolvedLine
<1>3. Normalized(d, Resolved(d, l)) \in Line /\ Normalized(d, Resolved(d, l)).text = l.text
  BY <1>1, <1>2, NormalizedLine
<1>4. Normalized(d, Resolved(d, l)) = l
  BY <1>2, <1>3, NormalizedLine, ResolvedLine, SameLine
<1>5. Here(d, Resolved(d, l))
  BY <1>2, Homes DEF Here, There
<1> QED
  BY <1>2, <1>4, <1>5, Homes

LEMMA NormalizedThere ==
  ASSUME NEW d \in Devices, NEW l \in Line, Here(d, l)
  PROVE  There(Normalized(d, l))
<1>1. Normalized(d, l).text = IF l.text = Home(d) THEN Token ELSE l.text
  BY NormalizedLine
<1> QED
  BY <1>1, Homes DEF Here, There

LEMMA NormalizedApart ==
  ASSUME NEW d \in Devices, NEW a \in Line, NEW b \in Line, a.text # Token, b.text # Token,
         Normalized(d, a) = Normalized(d, b)
  PROVE  a = b
<1>1. a.text = b.text
  BY NormalizedLine
<1>2. a.object = b.object /\ a.id = b.id /\ a.time = b.time
  BY NormalizedLine
<1> QED
  BY <1>1, <1>2, SameLine

LEMMA RoundTripContent ==
  ASSUME NEW d \in Devices, NEW p \in Paths, NEW lines \in Seq(Wrote(p)), \A l \in ToSet(lines) : There(l)
  PROVE  NormalizeContent(d, ResolveContent(d, lines)) = lines
<1> DEFINE here == ResolveContent(d, lines)
<1>1. here \in Seq(Wrote(p)) /\ Len(here) = Len(lines)
      /\ \A i \in 1..Len(lines) : here[i] = Resolved(d, lines[i])
  BY ResolvedContent
<1> HIDE DEF here
<1>2. NormalizeContent(d, here) \in Seq(Wrote(p)) /\ Len(NormalizeContent(d, here)) = Len(here)
      /\ \A i \in 1..Len(here) : NormalizeContent(d, here)[i] = Normalized(d, here[i])
  BY <1>1, NormalizedContent
<1>3. ASSUME NEW i \in 1..Len(lines) PROVE NormalizeContent(d, here)[i] = lines[i]
  <2>1. lines[i] \in Line /\ There(lines[i])
    BY WroteLines DEF ToSet
  <2> QED
    BY <1>1, <1>2, <2>1, RoundTrip
<1>4. NormalizeContent(d, here) = lines
  BY <1>1, <1>2, <1>3
<1> QED
  BY <1>4 DEF here

LEMMA TidyThere ==
  ASSUME NEW d \in Devices, NEW p \in Paths, NEW lines \in Seq(Wrote(p)), Tidy(p, lines),
         \A l \in ToSet(lines) : l.text # Token
  PROVE  Tidy(p, NormalizeContent(d, lines))
<1> DEFINE norm == NormalizeContent(d, lines)
<1>1. /\ norm \in Seq(Wrote(p)) /\ Len(norm) = Len(lines)
      /\ \A i \in 1..Len(lines) : norm[i] = Normalized(d, lines[i])
      /\ ToSet(norm) = {Normalized(d, l) : l \in ToSet(lines)}
  BY NormalizedContent
<1>2. DOMAIN lines = 1..Len(lines) /\ \A i \in 1..Len(lines) : lines[i] \in ToSet(lines) /\ lines[i] \in Line
  BY WroteLines DEF ToSet
<1> HIDE DEF norm
<1>3. DOMAIN norm = 1..Len(lines)
  BY <1>1
<1>4. IsInjective(norm)
  <2>1. ASSUME NEW i \in 1..Len(lines), NEW j \in 1..Len(lines), norm[i] = norm[j] PROVE i = j
    <3>1. lines[i] = lines[j]
      BY <1>1, <1>2, <2>1, NormalizedApart
    <3> QED
      BY <1>2, <3>1 DEF Tidy, IsInjective
  <2> QED
    BY <1>3, <2>1 DEF IsInjective
<1>5. ASSUME p = Index, NEW a \in ObjectsOf(ToSet(norm)), NEW b \in ObjectsOf(ToSet(norm)), a.id = b.id
      PROVE  a = b
  <2>1. PICK k \in ToSet(lines) : a = Normalized(d, k)
    BY <1>1 DEF ObjectsOf
  <2>2. PICK l \in ToSet(lines) : b = Normalized(d, l)
    BY <1>1 DEF ObjectsOf
  <2>3. k \in Line /\ l \in Line
    BY WroteLines DEF ToSet
  <2>4. k.object /\ l.object /\ k.id = l.id
    BY <1>5, <2>1, <2>2, <2>3, NormalizedLine DEF ObjectsOf
  <2>5. k = l
    BY <1>5, <2>4 DEF Tidy, OneEach, ObjectsOf
  <2> QED
    BY <2>1, <2>2, <2>5
<1> QED
  BY <1>4, <1>5 DEF Tidy, OneEach, norm

\* A step at another path leaves all of it alone.
LEMMA Elsewhere ==
  ASSUME Typed, NEW p \in Paths, NEW q \in Paths, p # q, NEW d \in Devices, MergeInv(p),
         AppendLine(d, q) \/ Push(d, q) \/ Pull(d, q)
  PROVE  MergeInv(p)'
<1>1. /\ \A e \in Devices : file'[e][p] = file[e][p] /\ base'[e][p] = base[e][p]
      /\ remote'[p] = remote[p] /\ written'[p] = written[p]
  <2>1. /\ file \in [Devices -> [Paths -> Seq(Line)]] /\ base \in [Devices -> [Paths -> Seq(Line)]]
        /\ remote \in [Paths -> Seq(Line)] /\ written \in [Paths -> SUBSET Line]
    BY DEF Typed, TypeOK
  <2>2. CASE AppendLine(d, q)
    BY <2>1, <2>2 DEF AppendLine
  <2>3. CASE Push(d, q)
    BY <2>1, <2>3 DEF Push
  <2>4. CASE Pull(d, q)
    <3> DEFINE theirs == ResolveContent(d, remote[q])
               merged == MergeJSONL(q, file[d][q], theirs)
    <3>1. /\ file' = [file EXCEPT ![d][q] = merged]
          /\ base' = [base EXCEPT ![d][q] = theirs]
          /\ UNCHANGED <<remote, written>>
      BY <2>4 DEF Pull
    <3> HIDE DEF theirs, merged
    <3> QED
      BY <2>1, <3>1
  <2> QED
    BY <2>2, <2>3, <2>4
<1>2. \A e \in Devices : <<e, p>> \in stale' <=> <<e, p>> \in stale
  BY DEF AppendLine, Push, Pull
<1>3. PortableText(p)' /\ OnlyWritten(p)' /\ Somewhere(p)'
  BY <1>1 DEF MergeInv, PortableText, OnlyWritten, Somewhere
<1>4. BaseIsRemote(p)'
  BY <1>1, <1>2 DEF MergeInv, BaseIsRemote
<1>5. OneHasMerged(p)'
  BY <1>1, <1>2 DEF MergeInv, OneHasMerged, Pending, Changed
<1> QED
  BY <1>3, <1>4, <1>5 DEF MergeInv

LEMMA SomewhereStill ==
  ASSUME Ordered, Typed, [Next]_vars, NEW p \in Paths, Somewhere(p), NEW l \in written[p]
  PROVE  \E d \in Devices : Shown(p, NormalizeContent(d, file'[d][p]), l)
<1>1. PICK d \in Devices : Shown(p, NormalizeContent(d, file[d][p]), l)
  BY DEF Somewhere
<1> QED
  BY <1>1, StepShows

LEMMA AppendMerges ==
  ASSUME Ordered, Translatable, Typed, NEW d \in Devices, NEW p \in Paths, MergeInv(p), AppendLine(d, p)
  PROVE  MergeInv(p)'
<1>1. PICK line \in Appended[p] :
        /\ Portable(line) \notin written[p]
        /\ file' = [file EXCEPT ![d][p] = Append(@, OnDevice(d, line))]
        /\ written' = [written EXCEPT ![p] = @ \cup {Portable(line)}]
  BY DEF AppendLine
<1> DEFINE here == OnDevice(d, line)
           there == Portable(line)
           longer == Append(file[d][p], here)
<1>2. UNCHANGED <<base, remote, stale>>
  BY DEF AppendLine
<1>3. /\ here \in Wrote(p) /\ there \in Wrote(p) /\ here \in Line /\ there \in Line
      /\ here.object = there.object /\ here.id = there.id /\ here.time = there.time
      /\ here.text = IF line.text = Mine THEN Home(d) ELSE line.text
      /\ there.text = IF line.text = Mine THEN Token ELSE line.text
      /\ \A e \in Devices : line.text # Home(e)
  BY AppendedLine, WroteLines DEF Translatable
<1> HIDE DEF here, there
<1>4. Here(d, here) /\ There(there)
  BY <1>3, Homes DEF Here, There
<1>5. Normalized(d, here) = there
  <2>1. Normalized(d, here) \in Line /\ Normalized(d, here).text = there.text
    BY <1>3, NormalizedLine
  <2>2. /\ Normalized(d, here).object = there.object /\ Normalized(d, here).id = there.id
        /\ Normalized(d, here).time = there.time
    BY <1>3, NormalizedLine
  <2> QED
    BY <1>3, <2>1, <2>2, SameLine
<1>6. /\ file'[d][p] = longer /\ written'[p] = written[p] \cup {there}
      /\ \A e \in Devices \ {d} : file'[e][p] = file[e][p]
  BY <1>1 DEF Typed, TypeOK, here, there
<1>7. longer \in Seq(Wrote(p)) /\ ToSet(longer) = ToSet(file[d][p]) \cup {here}
  <2>1. file[d][p] \in Seq(Wrote(p))
    BY DEF Typed, Sourced
  <2>2. ASSUME NEW lines \in Seq(Wrote(p))
        PROVE  /\ Append(lines, here) \in Seq(Wrote(p))
               /\ ToSet(Append(lines, here)) = ToSet(lines) \cup {here}
    <3> DEFINE more == Append(lines, here)
               N == Len(lines)
    <3>1. /\ more \in Seq(Wrote(p)) /\ N \in Nat
          /\ DOMAIN lines = 1..N /\ DOMAIN more = 1..(N + 1)
          /\ more[N + 1] = here /\ \A i \in 1..N : more[i] = lines[i]
      BY <1>3
    <3>2. 1..(N + 1) = (1..N) \cup {N + 1}
      BY <3>1
    <3> HIDE DEF more, N
    <3>3. ToSet(more) = ToSet(lines) \cup {here}
      BY <3>1, <3>2 DEF ToSet
    <3> QED
      BY <3>1, <3>3 DEF more
  <2> QED
    BY <2>1, <2>2
<1> HIDE DEF longer
<1>8. ToSet(NormalizeContent(d, longer)) = ToSet(NormalizeContent(d, file[d][p])) \cup {there}
  <2>1. ToSet(NormalizeContent(d, file[d][p])) = {Normalized(d, l) : l \in ToSet(file[d][p])}
    BY NormalizedContent DEF Typed, Sourced
  <2>2. ToSet(NormalizeContent(d, longer)) = {Normalized(d, l) : l \in ToSet(longer)}
    BY <1>7, NormalizedContent
  <2> QED
    BY <1>5, <1>7, <2>1, <2>2
<1>9. PortableText(p)'
  BY <1>2, <1>4, <1>6, <1>7 DEF MergeInv, PortableText
<1>10. OnlyWritten(p)'
  BY <1>2, <1>6, <1>8 DEF MergeInv, OnlyWritten
<1>11. BaseIsRemote(p)'
  BY <1>2 DEF MergeInv, BaseIsRemote
<1>12. Somewhere(p)'
  <2>1. ASSUME NEW l \in written[p]
        PROVE  \E e \in Devices : Shown(p, NormalizeContent(e, file'[e][p]), l)
    BY SomewhereStill DEF MergeInv, Next
  <2>2. Shown(p, NormalizeContent(d, file'[d][p]), there)
    BY <1>6, <1>8 DEF Shown
  <2> QED
    BY <1>6, <2>1, <2>2 DEF Somewhere
<1>13. OneHasMerged(p)'
  <2>1. file'[d][p] # base'[d][p]
    <3>1. there \in ToSet(NormalizeContent(d, file'[d][p]))
      BY <1>6, <1>8
    <3>2. there \notin ToSet(NormalizeContent(d, base[d][p]))
      BY <1>1 DEF MergeInv, OnlyWritten, there
    <3> QED
      BY <1>2, <3>1, <3>2
  <2>2. ASSUME NEW e \in Devices, e # d PROVE Pending(e, p)' <=> Pending(e, p)
    BY <1>2, <1>6, <2>2 DEF Pending, Changed
  <2>3. Pending(d, p)'
    BY <2>1 DEF Pending, Changed
  <2> QED
    BY <1>6, <2>2, <2>3 DEF MergeInv, OneHasMerged
<1> QED
  BY <1>9, <1>10, <1>11, <1>12, <1>13 DEF MergeInv

LEMMA PushMerges ==
  ASSUME Ordered, Typed, NEW d \in Devices, NEW p \in Paths, MergeInv(p), Push(d, p)
  PROVE  MergeInv(p)'
<1>1. /\ UNCHANGED <<file, written>>
      /\ remote'[p] = NormalizeContent(d, file[d][p])
      /\ base'[d][p] = file[d][p]
      /\ \A e \in Devices \ {d} : base'[e][p] = base[e][p] /\ <<e, p>> \in stale'
  BY DEF Push, Typed, TypeOK
<1>2. file[d][p] \in Seq(Wrote(p)) /\ ToSet(file[d][p]) \subseteq Line
  <2>1. file[d][p] \in Seq(Wrote(p))
    BY DEF Typed, Sourced
  <2> QED
    BY <2>1, WroteLines DEF ToSet
<1>3. \A l \in ToSet(NormalizeContent(d, file[d][p])) : There(l)
  <2>1. ToSet(NormalizeContent(d, file[d][p])) = {Normalized(d, l) : l \in ToSet(file[d][p])}
    BY <1>2, NormalizedContent
  <2> QED
    BY <1>2, <2>1, NormalizedThere DEF MergeInv, PortableText
<1>4. PortableText(p)'
  BY <1>1, <1>3 DEF MergeInv, PortableText
<1>5. OnlyWritten(p)'
  BY <1>1 DEF MergeInv, OnlyWritten
<1>6. BaseIsRemote(p)'
  BY <1>1 DEF BaseIsRemote
<1>7. Somewhere(p)'
  BY <1>1 DEF MergeInv, Somewhere
<1>8. OneHasMerged(p)'
  BY <1>1 DEF OneHasMerged, Pending
<1> QED
  BY <1>4, <1>5, <1>6, <1>7, <1>8 DEF MergeInv

LEMMA PullMerges ==
  ASSUME Ordered, Typed, NEW d \in Devices, NEW p \in Paths, MergeInv(p), Pull(d, p)
  PROVE  MergeInv(p)'
<1> DEFINE theirs == ResolveContent(d, remote[p])
           merged == MergeJSONL(p, file[d][p], theirs)
<1>1. /\ file[d][p] \in Seq(Wrote(p)) /\ remote[p] \in Seq(Wrote(p))
      /\ ToSet(file[d][p]) \subseteq Line /\ ToSet(remote[p]) \subseteq Line
  <2>1. file[d][p] \in Seq(Wrote(p)) /\ remote[p] \in Seq(Wrote(p))
    BY DEF Typed, Sourced
  <2> QED
    BY <2>1, WroteLines DEF ToSet
<1>2. /\ theirs \in Seq(Wrote(p)) /\ merged \in Seq(Wrote(p)) /\ Tidy(p, merged)
      /\ ToSet(merged) \subseteq ToSet(file[d][p]) \cup ToSet(theirs)
  BY <1>1, PulledFile
<1>3. /\ UNCHANGED <<remote, written>>
      /\ file'[d][p] = merged /\ base'[d][p] = theirs
      /\ \A e \in Devices \ {d} : /\ file'[e][p] = file[e][p] /\ base'[e][p] = base[e][p]
                                  /\ <<e, p>> \in stale' <=> <<e, p>> \in stale
  BY DEF Pull, Typed, TypeOK
<1>4. ToSet(theirs) = {Resolved(d, l) : l \in ToSet(remote[p])}
  BY <1>1, ResolvedContent
<1>5. NormalizeContent(d, theirs) = remote[p]
  BY <1>1, RoundTripContent DEF MergeInv, PortableText
<1>6. \A l \in ToSet(theirs) : Here(d, l) /\ l.text # Token
  BY <1>1, <1>4, RoundTrip DEF MergeInv, PortableText
<1> HIDE DEF theirs, merged
<1>7. PortableText(p)'
  BY <1>2, <1>3, <1>6 DEF MergeInv, PortableText
<1>8. OnlyWritten(p)'
  <2>1. /\ ToSet(NormalizeContent(d, merged)) = {Normalized(d, l) : l \in ToSet(merged)}
        /\ ToSet(NormalizeContent(d, file[d][p])) = {Normalized(d, l) : l \in ToSet(file[d][p])}
        /\ ToSet(remote[p]) = {Normalized(d, l) : l \in ToSet(theirs)}
    BY <1>1, <1>2, <1>5, NormalizedContent
  <2>2. ToSet(NormalizeContent(d, merged)) \subseteq written[p]
    BY <1>2, <2>1 DEF MergeInv, OnlyWritten
  <2> QED
    BY <1>3, <1>5, <2>2 DEF MergeInv, OnlyWritten
<1>9. BaseIsRemote(p)'
  BY <1>3, <1>5 DEF MergeInv, BaseIsRemote
<1>10. Somewhere(p)'
  BY <1>3, SomewhereStill DEF MergeInv, Somewhere, Next
<1>11. OneHasMerged(p)'
  <2>1. ASSUME ~Pending(d, p)' PROVE Tidy(p, NormalizeContent(d, file'[d][p]))
    <3>1. merged = theirs
      BY <1>3, <2>1 DEF Pending, Changed
    <3> QED
      BY <1>2, <1>3, <1>6, <3>1, TidyThere
  <2>2. ASSUME NEW e \in Devices, e # d PROVE Pending(e, p)' <=> Pending(e, p)
    BY <1>3, <2>2 DEF Pending, Changed
  <2> QED
    BY <1>3, <2>1, <2>2 DEF MergeInv, OneHasMerged
<1> QED
  BY <1>7, <1>8, <1>9, <1>10, <1>11 DEF MergeInv

LEMMA MergesNext ==
  ASSUME Ordered, Translatable, Typed, \A p \in Paths : MergeInv(p), [Next]_vars, NEW p \in Paths
  PROVE  MergeInv(p)'
<1>1. CASE UNCHANGED vars
  BY <1>1 DEF vars, MergeInv, PortableText, OnlyWritten, BaseIsRemote, Somewhere, OneHasMerged,
              Pending, Changed
<1>2. ASSUME NEW d \in Devices, NEW q \in Paths, AppendLine(d, q) \/ Push(d, q) \/ Pull(d, q)
      PROVE  MergeInv(p)'
  <2>1. CASE p = q
    BY <1>2, <2>1, AppendMerges, PushMerges, PullMerges
  <2>2. CASE p # q
    BY <1>2, <2>2, Elsewhere
  <2> QED
    BY <2>1, <2>2
<1> QED
  BY <1>1, <1>2 DEF Next

LEMMA InitMerges == ASSUME Init, NEW p \in Paths PROVE MergeInv(p)
<1>1. /\ remote[p] = <<>> /\ written[p] = {}
      /\ \A d \in Devices : file[d][p] = <<>> /\ base[d][p] = <<>>
  BY DEF Init, None
<1>2. \A d \in Devices : NormalizeContent(d, <<>>) = <<>>
  BY DEF NormalizeContent
<1>3. ToSet(<<>>) = {} /\ IsInjective(<<>>)
  BY DEF ToSet, IsInjective
<1>4. Tidy(p, <<>>)
  BY <1>3 DEF Tidy, OneEach, ObjectsOf
<1>5. PortableText(p) /\ OnlyWritten(p) /\ Somewhere(p)
  BY <1>1, <1>2, <1>3 DEF PortableText, OnlyWritten, Somewhere
<1>6. BaseIsRemote(p) /\ OneHasMerged(p)
  BY <1>1, <1>2, <1>4 DEF BaseIsRemote, OneHasMerged
<1> QED
  BY <1>5, <1>6 DEF MergeInv

LEMMA DistinctLines ==
  ASSUME NEW lines \in Seq(Line), IsInjective(lines)
  PROVE  Len(lines) = Cardinality(ToSet(lines))
<1>1. Len(lines) \in Nat /\ DOMAIN lines = 1..Len(lines)
  OBVIOUS
<1>2. IsFiniteSet(1..Len(lines)) /\ Cardinality(1..Len(lines)) = Len(lines)
  BY <1>1, FS_Interval
<1>3. lines \in Bijection(1..Len(lines), ToSet(lines))
  BY <1>1 DEF Bijection, Injection, Surjection, IsInjective, ToSet
<1>4. ExistsBijection(1..Len(lines), ToSet(lines))
  BY <1>3 DEF ExistsBijection
<1> QED
  BY <1>2, <1>4, FS_Bijection

LEMMA QuietMerged ==
  ASSUME Ordered, Typed, \A p \in Paths : MergeInv(p)
  PROVE  QuietMeansMerged
<1> SUFFICES ASSUME NEW p \in Paths, \A d \in Devices : ~Pending(d, p), Cardinality(Devices) > 1,
                    NEW d \in Devices
             PROVE  LET lines == NormalizeContent(d, file[d][p]) IN
                    /\ lines = remote[p]
                    /\ ToSet(lines) \subseteq Kept(p)
                    /\ \A l \in written[p] : Shown(p, lines, l)
                    /\ Len(lines) = Cardinality(ToSet(lines))
  BY DEF QuietMeansMerged
<1> DEFINE lines == remote[p]
<1>1. MergeInv(p)
  OBVIOUS
<1>2. \A e \in Devices : NormalizeContent(e, file[e][p]) = lines
  BY <1>1 DEF MergeInv, BaseIsRemote, Pending, Changed
<1>3. lines \in Seq(Line) /\ ToSet(lines) \subseteq Wrote(p) /\ ToSet(lines) \subseteq written[p]
      /\ written[p] \subseteq Wrote(p)
  <2>1. lines \in Seq(Wrote(p)) /\ lines \in Seq(Line)
    BY DEF Typed, TypeOK, Sourced
  <2> QED
    BY <1>1, <2>1 DEF MergeInv, OnlyWritten, Typed, Sourced, ToSet
<1>4. PICK e \in Devices : e # d
  <2>1. CASE Devices = {d}
    <3>1. Cardinality({d}) = 1
      BY FS_Singleton
    <3> QED
      BY <2>1, <3>1
  <2> QED
    BY <2>1
<1>5. Tidy(p, lines)
  BY <1>1, <1>2, <1>4 DEF MergeInv, OneHasMerged
<1>6. \A l \in written[p] : Shown(p, lines, l)
  BY <1>1, <1>2 DEF MergeInv, Somewhere
<1> HIDE DEF lines
<1>7. ASSUME NEW l \in ToSet(lines) PROVE l \in Kept(p)
  <2>1. CASE p = History
    BY <1>3, <2>1 DEF Kept
  <2>2. CASE p # History
    <3>1. p = Index
      BY <2>2 DEF Paths
    <3>2. ASSUME l.object, NEW k \in written[p], k.object, k.id = l.id, k # l
          PROVE  ~Later(k.time, l.time)
      <4>1. \A m \in ToSet(lines) : m.object /\ m.id = l.id => m = l
        BY <1>5, <3>1, <3>2 DEF Tidy, OneEach, ObjectsOf
      <4>2. k \notin ToSet(lines)
        BY <3>2, <4>1
      <4>3. PICK m \in ToSet(lines) : m.object /\ m.id = k.id /\ ~Later(k.time, m.time)
        BY <1>6, <4>2 DEF Shown
      <4> QED
        BY <3>2, <4>1, <4>3
    <3> QED
      BY <1>3, <2>2, <3>2 DEF Kept
  <2> QED
    BY <2>1, <2>2
<1>8. Len(lines) = Cardinality(ToSet(lines))
  BY <1>3, <1>5, DistinctLines DEF Tidy
<1> QED
  BY <1>2, <1>6, <1>7, <1>8 DEF lines

\* When no device has anything left to push or pull, every copy is the same file:
\* every line that was appended, for the session index the latest of each thread,
\* none twice and none that nobody wrote (merge.go:35-41).
THEOREM QuietIsMerged == ASSUME Ordered, Translatable PROVE Spec => []QuietMeansMerged
<1> DEFINE Inv == \A p \in Paths : MergeInv(p)
<1>1. Init => Inv
  BY InitMerges
<1>2. Typed /\ Inv /\ [Next]_vars => Inv'
  <2> SUFFICES ASSUME Typed, Inv, [Next]_vars, NEW p \in Paths
               PROVE  MergeInv(p)'
    OBVIOUS
  <2> QED
    BY MergesNext
<1>3. Typed /\ Inv => QuietMeansMerged
  BY QuietMerged
<1> HIDE DEF Inv
<1> QED
  BY <1>1, <1>2, <1>3, AlwaysTyped, PTL DEF Spec
================================================================================
