-------------------------- MODULE SimpleIniProofs ---------------------------
(***************************************************************************)
(* What TLAPS proves of SimpleIni, for all files, names and settings and   *)
(* any number of calls.                                                    *)
(***************************************************************************)
EXTENDS SimpleIni, FiniteSetTheorems, SequenceTheorems, TLAPS

-----------------------------------------------------------------------------
(* The operators on sets *)

LEMMA Least ==
  ASSUME NEW S, S \subseteq Nat, S # {}
  PROVE  \E x \in S : \A y \in S : x <= y
<1>. DEFINE R == OpToRel(<, Nat)
<1>1. IsWellFoundedOn(R, Nat)
  BY NatLessThanWellFounded
<1>2. \A x, y \in Nat : <<y, x>> \in R <=> y < x
  BY DEF OpToRel
<1>. HIDE DEF R
<1>3. \E x \in S : \A y \in S : ~(<<y, x>> \in R)
  BY <1>1, WFMin
<1>4. PICK x \in S : \A y \in S : ~(<<y, x>> \in R)
  BY <1>3
<1>5. \A y \in S : ~(y < x)
  BY <1>2, <1>4
<1>. QED
  BY <1>5

LEMMA MinIsLeast ==
  ASSUME NEW S, S \subseteq Nat, S # {}
  PROVE  Min(S) \in S /\ \A y \in S : Min(S) <= y
BY Least DEF Min

LEMMA MaxIsGreatest ==
  ASSUME NEW S, S \subseteq Nat, S # {}, NEW n \in Nat, \A x \in S : x <= n
  PROVE  Max(S) \in S /\ \A y \in S : y <= Max(S)
<1>1. PICK d \in {n - x : x \in S} : \A e \in {n - x : x \in S} : d <= e
  <2>1. \A x \in S : n - x \in Nat
    OBVIOUS
  <2>2. {n - x : x \in S} \subseteq Nat /\ {n - x : x \in S} # {}
    BY <2>1
  <2>. QED
    BY <2>2, Least
<1>2. PICK x \in S : d = n - x
  BY <1>1
<1>3. \A y \in S : y <= x
  <2>1. SUFFICES ASSUME NEW y \in S PROVE y <= x
    OBVIOUS
  <2>2. d <= n - y
    BY <1>1
  <2>. QED
    BY <1>2, <2>2
<1>. QED
  BY <1>3 DEF Max

\* entries with distinct load orders
Ordered(entries) ==
  /\ IsFiniteSet(entries)
  /\ \A e \in entries : e.nOrder \in Nat /\ \A f \in entries : e.nOrder = f.nOrder => e = f

LEMMA OrderedSubset ==
  ASSUME NEW S, Ordered(S), NEW T \in SUBSET S
  PROVE  Ordered(T)
<1>1. IsFiniteSet(T)
  BY FS_Subset DEF Ordered
<1>. QED
  BY <1>1 DEF Ordered

LEMMA FirstIsFirst ==
  ASSUME NEW S, S # {}, \A e \in S : e.nOrder \in Nat
  PROVE  First(S) \in S /\ \A f \in S : First(S).nOrder <= f.nOrder
<1>1. PICK n \in {e.nOrder : e \in S} : \A m \in {e.nOrder : e \in S} : n <= m
  <2>1. {e.nOrder : e \in S} \subseteq Nat /\ {e.nOrder : e \in S} # {}
    OBVIOUS
  <2>. QED
    BY <2>1, Least
<1>2. PICK e \in S : n = e.nOrder
  BY <1>1
<1>3. \A f \in S : e.nOrder <= f.nOrder
  BY <1>1, <1>2
<1>. QED
  BY <1>3 DEF First

\* how many entries there are up to e
Rank(S, e) == Cardinality({f \in S : f.nOrder <= e.nOrder})

LEMMA RankType ==
  ASSUME NEW S, Ordered(S), NEW e \in S
  PROVE  Rank(S, e) \in 1..Cardinality(S)
<1>. DEFINE T == {f \in S : f.nOrder <= e.nOrder}
<1>1. T \in SUBSET S /\ e \in T
  BY DEF Ordered
<1>2. IsFiniteSet(T) /\ Cardinality(T) <= Cardinality(S)
  BY <1>1, FS_Subset DEF Ordered
<1>3. Cardinality(T) \in Nat /\ Cardinality(S) \in Nat /\ Cardinality(T) # 0
  BY <1>1, <1>2, FS_CardinalityType, FS_EmptySet DEF Ordered
<1>. QED
  BY <1>2, <1>3 DEF Rank

LEMMA RankGrows ==
  ASSUME NEW S, Ordered(S), NEW e \in S, NEW f \in S, e.nOrder < f.nOrder
  PROVE  Rank(S, e) < Rank(S, f)
<1>. DEFINE T == {g \in S : g.nOrder <= e.nOrder}
            U == {g \in S : g.nOrder <= f.nOrder}
<1>1. T \in SUBSET U /\ f \in U /\ f \notin T /\ U \in SUBSET S
  BY DEF Ordered
<1>2. IsFiniteSet(U) /\ IsFiniteSet(T) /\ Cardinality(T) <= Cardinality(U)
      /\ Cardinality(U) # Cardinality(T)
  BY <1>1, FS_Subset DEF Ordered
<1>3. Cardinality(T) \in Nat /\ Cardinality(U) \in Nat
  BY <1>2, FS_CardinalityType
<1>. QED
  BY <1>2, <1>3 DEF Rank

LEMMA RankInjective ==
  ASSUME NEW S, Ordered(S), NEW e \in S, NEW f \in S, Rank(S, e) = Rank(S, f)
  PROVE  e = f
<1>1. e.nOrder \in Nat /\ f.nOrder \in Nat
  BY DEF Ordered
<1>2. Rank(S, e) \in Int
  BY RankType, FS_CardinalityType DEF Ordered
<1>3. ~(e.nOrder < f.nOrder) /\ ~(f.nOrder < e.nOrder)
  BY <1>2, RankGrows
<1>. QED
  BY <1>1, <1>3 DEF Ordered

LEMMA RankSurjective ==
  ASSUME NEW S, Ordered(S), NEW i \in 1..Cardinality(S)
  PROVE  \E e \in S : Rank(S, e) = i
<1>. DEFINE T == 1..Cardinality(S)
            rank == [e \in S |-> Rank(S, e)]
<1>1. Cardinality(S) \in Nat /\ IsFiniteSet(S)
  BY FS_CardinalityType DEF Ordered
<1>2. IsFiniteSet(T) /\ Cardinality(T) = Cardinality(S)
  BY <1>1, FS_Interval
<1>3. rank \in Injection(S, T)
  BY RankType, RankInjective DEF Injection, IsInjective
<1>4. rank \in Surjection(S, T)
  BY <1>2, <1>3, FS_Injection
<1>. QED
  BY <1>4 DEF Surjection

\* Sorted lists every entry once, at its rank; the first one comes first.
LEMMA SortedIsSorted ==
  ASSUME NEW S, Ordered(S)
  PROVE  /\ Sorted(S) \in [1..Cardinality(S) -> S]
         /\ Cardinality(S) \in Nat
         /\ \A i \in 1..Cardinality(S) : Rank(S, Sorted(S)[i]) = i
         /\ Len(Sorted(S)) = Cardinality(S) /\ Sorted(S) \in Seq(S)
<1>1. Cardinality(S) \in Nat
  BY FS_CardinalityType DEF Ordered
<1>2. ASSUME NEW i \in 1..Cardinality(S)
      PROVE  Sorted(S)[i] \in S /\ Rank(S, Sorted(S)[i]) = i
  <2>1. Sorted(S)[i] = CHOOSE e \in S : Rank(S, e) = i
    BY DEF Sorted, Rank
  <2>. QED
    BY <2>1, RankSurjective
<1>3. Sorted(S) \in [1..Cardinality(S) -> S]
  BY <1>2 DEF Sorted
<1>. QED
  BY <1>1, <1>2, <1>3

LEMMA SortedFirst ==
  ASSUME NEW S, Ordered(S), S # {}
  PROVE  1 \in 1..Cardinality(S) /\ Sorted(S)[1] = First(S)
<1>1. First(S) \in S /\ \A f \in S : First(S).nOrder <= f.nOrder
  BY FirstIsFirst DEF Ordered
<1>2. Cardinality(S) \in Nat /\ Cardinality(S) # 0
  BY FS_CardinalityType, FS_EmptySet DEF Ordered
<1>3. Sorted(S)[1] \in S /\ Rank(S, Sorted(S)[1]) = 1
  BY <1>2, SortedIsSorted
<1>4. Rank(S, First(S)) \in 1..Cardinality(S)
  BY <1>1, RankType
<1>5. ~(First(S).nOrder < Sorted(S)[1].nOrder)
  BY <1>1, <1>2, <1>3, <1>4, RankGrows
<1>6. First(S).nOrder = Sorted(S)[1].nOrder
  BY <1>1, <1>3, <1>5 DEF Ordered
<1>. QED
  BY <1>1, <1>2, <1>3, <1>6 DEF Ordered

LEMMA Interval ==
  ASSUME NEW n \in Nat
  PROVE  IsFiniteSet(1..n) /\ Cardinality(1..n) = n
BY FS_Interval

LEMMA FreeExists ==
  ASSUME NEW A, IsFiniteSet(A), NEW n \in Nat \ {0}
  PROVE  \E i \in 1..Cardinality(A) + n : i \notin A /\ Cardinality((1..i) \ A) = n
<1>. DEFINE free == [i \in Nat |-> Cardinality((1..i) \ A)]
<1>0. Cardinality(A) \in Nat
  BY FS_CardinalityType
<1>1. \A i \in Nat : IsFiniteSet((1..i) \ A) /\ free[i] \in Nat
  <2>1. ASSUME NEW i \in Nat PROVE IsFiniteSet((1..i) \ A)
    BY Interval, FS_Difference
  <2>. QED
    BY <2>1, FS_CardinalityType
<1>2. ASSUME NEW i \in Nat
      PROVE  free[i + 1] = IF i + 1 \in A THEN free[i] ELSE free[i] + 1
  <2>1. CASE i + 1 \in A
    <3>1. (1..i + 1) \ A = (1..i) \ A
      BY <2>1
    <3>. QED
      BY <2>1, <3>1
  <2>2. CASE i + 1 \notin A
    <3>1. (1..i + 1) \ A = ((1..i) \ A) \cup {i + 1} /\ i + 1 \notin (1..i) \ A
      BY <2>2
    <3>2. Cardinality(((1..i) \ A) \cup {i + 1}) = Cardinality((1..i) \ A) + 1
      <4>. DEFINE T == (1..i) \ A
      <4>1. IsFiniteSet(T) /\ i + 1 \notin T
        BY <1>1, <3>1
      <4>. HIDE DEF T
      <4>2. Cardinality(T \cup {i + 1}) = Cardinality(T) + 1
        BY <4>1, FS_AddElement
      <4>. QED
        BY <4>2 DEF T
    <3>. QED
      BY <2>2, <3>1, <3>2
  <2>. QED
    BY <2>1, <2>2
<1>3. free[Cardinality(A) + n] >= n
  <2>. DEFINE N == Cardinality(A) + n
  <2>0. N \in Nat
    BY <1>0
  <2>1. IsFiniteSet(1..N) /\ Cardinality(1..N) = N
    BY <2>0, Interval
  <2>2. free[N] = N - Cardinality((1..N) \cap A)
    BY <2>0, <2>1, FS_Difference
  <2>3. /\ IsFiniteSet((1..N) \cap A)
        /\ Cardinality((1..N) \cap A) <= Cardinality(A)
    BY <2>1, FS_Intersection
  <2>4. Cardinality((1..N) \cap A) \in Nat
    BY <2>3, FS_CardinalityType
  <2>. QED
    BY <1>0, <2>0, <2>2, <2>3, <2>4
<1>4. free[0] = 0
  <2>1. (1..0) \ A = {}
    OBVIOUS
  <2>. QED
    BY <2>1, FS_EmptySet
<1>. HIDE DEF free
<1>5. PICK i \in {j \in Nat : free[j] >= n} : \A j \in {k \in Nat : free[k] >= n} : i <= j
  <2>1. Cardinality(A) + n \in {j \in Nat : free[j] >= n}
    BY <1>0, <1>3
  <2>2. {j \in Nat : free[j] >= n} \subseteq Nat
    OBVIOUS
  <2>. QED
    BY <2>1, <2>2, Least
<1>6. i # 0 /\ i \in Nat /\ i - 1 \in Nat
  BY <1>4, <1>5
<1>7. free[i - 1] \in Nat /\ free[i - 1] < n
  <2>1. free[i - 1] \in Nat
    BY <1>1, <1>6
  <2>2. ~(free[i - 1] >= n)
    <3>1. ~(i <= i - 1)
      BY <1>6
    <3>. QED
      BY <1>5, <1>6, <3>1
  <2>. QED
    BY <2>1, <2>2
<1>8. free[i] = IF i \in A THEN free[i - 1] ELSE free[i - 1] + 1
  <2>1. (i - 1) + 1 = i
    BY <1>6
  <2>. QED
    BY <1>2, <1>6, <2>1
<1>9. free[i] = n /\ i \notin A
  BY <1>5, <1>7, <1>8
<1>10. i <= Cardinality(A) + n
  BY <1>0, <1>3, <1>5
<1>11. Cardinality((1..i) \ A) = n
  BY <1>6, <1>9 DEF free
<1>12. i \in 1..Cardinality(A) + n
  BY <1>0, <1>6, <1>10
<1>. QED
  BY <1>9, <1>11, <1>12

\* an allocation that is not in use; another one for another n
LEMMA NewAllocationIsNew ==
  ASSUME IsFiniteSet(Allocations), NEW n \in Nat \ {0}
  PROVE  /\ NewAllocation(n) \in Nat \ {0} /\ NewAllocation(n) \notin Allocations
         /\ \A m \in Nat \ {0} : m # n => NewAllocation(m) # NewAllocation(n)
<1>1. ASSUME NEW m \in Nat \ {0}
      PROVE  /\ NewAllocation(m) \in 1..Cardinality(Allocations) + m
             /\ NewAllocation(m) \notin Allocations
             /\ Cardinality((1..NewAllocation(m)) \ Allocations) = m
  <2>. DEFINE P(i) == i \notin Allocations /\ Cardinality((1..i) \ Allocations) = m
  <2>1. \E i \in 1..Cardinality(Allocations) + m : P(i)
    BY FreeExists
  <2>2. NewAllocation(m) = CHOOSE i \in 1..Cardinality(Allocations) + m : P(i)
    BY DEF NewAllocation
  <2>. QED
    BY <2>1, <2>2
<1>2. Cardinality(Allocations) \in Nat
  BY FS_CardinalityType
<1>3. \A m \in Nat \ {0} : m # n => NewAllocation(m) # NewAllocation(n)
  BY <1>1
<1>4. NewAllocation(n) \in 1..Cardinality(Allocations) + n
  BY <1>1
<1>5. NewAllocation(n) \in Nat \ {0}
  BY <1>2, <1>4
<1>. QED
  BY <1>1, <1>3, <1>5

-----------------------------------------------------------------------------
(* The operators on sequences *)

LEMMA SetInduction ==
  ASSUME NEW S, 0 \in S, \A n \in Nat : n \in S => n + 1 \in S
  PROVE  Nat \subseteq S
<1>. SUFFICES ASSUME Nat \ S # {} PROVE FALSE
  OBVIOUS
<1>1. PICK n \in Nat \ S : \A m \in Nat \ S : n <= m
  <2>1. Nat \ S \subseteq Nat
    OBVIOUS
  <2>. QED
    BY <2>1, Least
<1>2. n - 1 \in Nat
  BY <1>1
<1>3. n - 1 \in S /\ (n - 1) + 1 = n
  BY <1>1, <1>2
<1>. QED
  BY <1>2, <1>3

\* the values that FlattenSeq goes through
LEMMA FlattenSteps ==
  ASSUME NEW S, NEW seqs \in Seq(Seq(S))
  PROVE  \E f \in [0..Len(seqs) -> Seq(S)] :
           /\ f[0] = <<>> /\ \A i \in 1..Len(seqs) : f[i] = f[i - 1] \o seqs[i]
           /\ FlattenSeq(seqs) = f[Len(seqs)]
<1>. DEFINE next(f, i) == IF i = 1 THEN seqs[i] ELSE f[i - 1] \o seqs[i]
            extends(f, n) == \A i \in 1..n : f[i] = next(f, i)
            P == {n \in Nat : n <= Len(seqs) => \E f \in [1..n -> Seq(S)] : extends(f, n)}
<1>1. 0 \in P
  <2>1. \E f \in [1..0 -> Seq(S)] : extends(f, 0)
    <3>. DEFINE f == [i \in 1..0 |-> <<>>]
    <3>1. f \in [1..0 -> Seq(S)] /\ extends(f, 0)
      OBVIOUS
    <3>. QED
      BY <3>1
  <2>. HIDE DEF extends
  <2>. QED
    BY <2>1
<1>2. ASSUME NEW n \in P PROVE n + 1 \in P
  <2>0. n \in Nat
    OBVIOUS
  <2>1. SUFFICES ASSUME n + 1 <= Len(seqs)
                 PROVE  \E f \in [1..n + 1 -> Seq(S)] : extends(f, n + 1)
    <3>. HIDE DEF extends
    <3>. QED
      BY <2>0
  <2>2. PICK f \in [1..n -> Seq(S)] : extends(f, n)
    <3>1. n <= Len(seqs)
      BY <2>0, <2>1
    <3>. HIDE DEF extends
    <3>. QED
      BY <3>1
  <2>. DEFINE g == [i \in 1..n + 1 |-> IF i = n + 1 THEN next(f, i) ELSE f[i]]
  <2>3. next(f, n + 1) \in Seq(S)
    <3>1. seqs[n + 1] \in Seq(S)
      BY <2>1
    <3>2. n # 0 => f[n] \in Seq(S) /\ (n + 1) - 1 = n
      BY <2>1
    <3>. QED
      BY <3>1, <3>2, ConcatProperties
  <2>4. g \in [1..n + 1 -> Seq(S)]
    BY <2>3
  <2>5. ASSUME NEW i \in 1..n + 1 PROVE g[i] = next(g, i)
    <3>1. CASE i = n + 1
      BY <3>1
    <3>2. CASE i # n + 1
      <4>1. i \in 1..n /\ (i # 1 => i - 1 \in 1..n) /\ i - 1 # n + 1
        BY <2>0, <3>2
      <4>2. f[i] = next(f, i)
        BY <2>2, <4>1
      <4>3. g[i] = f[i]
        BY <3>2
      <4>4. i # 1 => g[i - 1] = f[i - 1]
        BY <2>0, <4>1
      <4>. QED
        BY <4>2, <4>3, <4>4
    <3>. QED
      BY <3>1, <3>2
  <2>. QED
    BY <2>4, <2>5
<1>3. Nat \subseteq P
  BY <1>1, <1>2, SetInduction
<1>. HIDE DEF P
<1>. DEFINE n == Len(seqs)
            flatten == CHOOSE f : f = [i \in 1..n |-> next(f, i)]
<1>4. PICK f \in [1..n -> Seq(S)] : extends(f, n)
  <2>1. n \in P /\ n <= Len(seqs)
    BY <1>3
  <2>. QED
    BY <2>1 DEF P
<1>5. f = [i \in 1..n |-> next(f, i)]
  BY <1>4
<1>6. flatten = [i \in 1..n |-> next(flatten, i)]
  BY <1>5
<1>. HIDE DEF flatten
<1>. DEFINE Q == {i \in Nat : i \in 1..n => flatten[i] \in Seq(S)}
<1>7. Nat \subseteq Q
  <2>1. 0 \in Q
    OBVIOUS
  <2>2. ASSUME NEW i \in Q PROVE i + 1 \in Q
    <3>1. SUFFICES ASSUME i + 1 \in 1..n PROVE flatten[i + 1] \in Seq(S)
      OBVIOUS
    <3>2. flatten[i + 1] = next(flatten, i + 1)
      BY <1>6, <3>1
    <3>3. i # 0 => flatten[i] \in Seq(S) /\ (i + 1) - 1 = i
      BY <3>1
    <3>4. seqs[i + 1] \in Seq(S)
      BY <3>1
    <3>. QED
      BY <3>2, <3>3, <3>4, ConcatProperties
  <2>. HIDE DEF Q
  <2>. QED
    BY <2>1, <2>2, SetInduction
<1>. DEFINE g == [i \in 0..n |-> IF i = 0 THEN <<>> ELSE flatten[i]]
<1>8. n \in Nat /\ <<>> \in Seq(S) /\ \A i \in 1..n : seqs[i] \in Seq(S)
  OBVIOUS
<1>9. g \in [0..n -> Seq(S)]
  BY <1>7, <1>8
<1>10. ASSUME NEW i \in 1..n PROVE g[i] = g[i - 1] \o seqs[i]
  <2>0. i # 0 /\ i \in 0..n
    BY <1>8
  <2>1. flatten[i] = next(flatten, i) /\ g[i] = flatten[i]
    <3>1. flatten[i] = next(flatten, i)
      BY <1>6
    <3>. QED
      BY <2>0, <3>1
  <2>2. CASE i = 1
    BY <1>8, <2>1, <2>2, ConcatEmptySeq
  <2>3. CASE i # 1
    <3>1. i - 1 \in 0..n /\ i - 1 # 0
      BY <1>8, <2>3
    <3>2. g[i - 1] = flatten[i - 1]
      BY <3>1
    <3>. QED
      BY <2>1, <2>3, <3>2
  <2>. QED
    BY <2>2, <2>3
<1>11. FlattenSeq(seqs) = g[n]
  <2>1. CASE n = 0
    BY <2>1 DEF FlattenSeq
  <2>2. CASE n # 0
    <3>1. FlattenSeq(seqs) = flatten[n]
      BY <2>2 DEF FlattenSeq, flatten
    <3>. QED
      BY <1>8, <2>2, <3>1
  <2>. QED
    BY <2>1, <2>2
<1>12. g[0] = <<>>
  BY <1>8
<1>. HIDE DEF g
<1>. QED
  BY <1>9, <1>10, <1>11, <1>12

LEMMA FlattenSeqType ==
  ASSUME NEW S, NEW seqs \in Seq(Seq(S))
  PROVE  FlattenSeq(seqs) \in Seq(S)
<1>1. PICK f \in [0..Len(seqs) -> Seq(S)] : FlattenSeq(seqs) = f[Len(seqs)]
  BY FlattenSteps
<1>2. Len(seqs) \in 0..Len(seqs)
  OBVIOUS
<1>. QED
  BY <1>1, <1>2

-----------------------------------------------------------------------------
(* Lines *)

LEMMA LineTypes ==
  /\ \A w \in STRING : Text(w) \in Lines /\ Header(w) \in Lines /\ Tag(w) \in Lines
  /\ \A w \in STRING : Unterminated(w) \in Lines
  /\ \A k \in STRING, line \in Lines : KeyLine(k, line) \in Lines
  /\ \A line \in Lines : Closed(line) \in Lines
  /\ Blank \in Lines /\ EndTag \in Lines /\ Tag("END_OF_TEXT") \in Lines
<1>1. ASSUME NEW w \in STRING
      PROVE  /\ Text(w) \in Lines /\ Header(w) \in Lines /\ Tag(w) \in Lines
             /\ Unterminated(w) \in Lines
  <2>1. /\ [text |-> w] \in Bodies /\ [header |-> w] \in Bodies /\ [tag |-> w] \in Bodies
        /\ [open |-> w] \in Bodies
    BY DEF Bodies
  <2>2. <<>> \in Seq(STRING)
    OBVIOUS
  <2>. QED
    BY <2>1, <2>2 DEF Text, Header, Tag, Unterminated, Plain, Lines
<1>2. ASSUME NEW k \in STRING, NEW line \in Lines PROVE KeyLine(k, line) \in Lines
  <2>1. <<k>> \o line.names \in Seq(STRING)
    BY DEF Lines
  <2>. QED
    BY <2>1 DEF KeyLine, Lines
<1>0. "" \in STRING /\ "END_OF_TEXT" \in STRING
  BY IniAssumption
<1>3. \A w \in STRING : Text(w) \in Lines
  BY <1>1
<1>4. Tag("END_OF_TEXT") \in Lines
  BY <1>0, <1>1
<1>. HIDE DEF Text
<1>5. Blank \in Lines /\ EndTag \in Lines
  BY <1>0, <1>3, Zenon DEF Blank, EndTag
<1>6. \A line \in Lines : Closed(line) \in Lines
  BY DEF Closed, Lines
<1>. QED
  BY <1>1, <1>2, <1>3, <1>4, <1>5, <1>6

LEMMA LineParts ==
  ASSUME NEW line \in Lines
  PROVE  /\ IsKeyLine(line) => KeyOf(line) \in STRING /\ ValueOf(line) \in Lines
         /\ Is("header", line) => line.body.header \in STRING
         /\ Is("open", line) => line.body.open \in STRING
         /\ Is("tag", line) => line.body.tag \in STRING
         /\ Trim(line) \in Lines
<1>1. line.names \in Seq(STRING) /\ line.body \in Bodies
  BY DEF Lines
<1>2. IsKeyLine(line) => Head(line.names) \in STRING /\ Tail(line.names) \in Seq(STRING)
  <2>1. \A names \in Seq(STRING) : names # <<>> => Head(names) \in STRING /\ Tail(names) \in Seq(STRING)
    BY HeadTailProperties
  <2>. QED
    BY <1>1, <2>1 DEF IsKeyLine
<1>3. IsKeyLine(line) => ValueOf(line) \in Lines
  BY <1>2 DEF ValueOf, Lines
<1>4. /\ "header" \in DOMAIN line.body => line.body.header \in STRING
      /\ "open" \in DOMAIN line.body => line.body.open \in STRING
      /\ "tag" \in DOMAIN line.body => line.body.tag \in STRING
      /\ "padded" \in DOMAIN line.body => line.body.padded \in STRING
  BY <1>1 DEF Bodies
<1>. QED
  BY <1>2, <1>3, <1>4, LineTypes DEF KeyOf, Is, Trim

LEMMA CommentLinesBound ==
  ASSUME NEW data \in Seq(Lines), NEW blanks
  PROVE  CommentLines(data, blanks) \in Nat /\ CommentLines(data, blanks) <= Len(data)
<1>. DEFINE inside(n) == \A i \in 1..n : IsComment(data[i]) \/ (blanks /\ data[i] = Blank)
            S == {0} \cup {n \in 1..Len(data) : inside(n) /\ IsComment(data[n])}
<1>. HIDE DEF inside
<1>1. S \subseteq Nat /\ S # {} /\ Len(data) \in Nat /\ \A n \in S : n <= Len(data)
  OBVIOUS
<1>2. CommentLines(data, blanks) = Max(S)
  BY DEF CommentLines, inside
<1>. HIDE DEF S
<1>3. Max(S) \in S
  BY <1>1, MaxIsGreatest
<1>4. Max(S) \in Nat /\ Max(S) <= Len(data)
  BY <1>1, <1>3
<1>. QED
  BY <1>1, <1>2, <1>4

LEMMA LinesOfValueBound ==
  ASSUME NEW data \in Seq(Lines), NEW end
  PROVE  LinesOfValue(data, end) \in Nat /\ LinesOfValue(data, end) <= Len(data)
<1>. DEFINE S == {Len(data)} \cup {n - 1 : n \in {i \in 1..Len(data) : data[i] = end}}
<1>1. S \subseteq 0..Len(data) /\ S # {}
  OBVIOUS
<1>2. LinesOfValue(data, end) = Min(S)
  BY DEF LinesOfValue
<1>. HIDE DEF S
<1>3. S \subseteq Nat
  BY <1>1
<1>4. Min(S) \in S
  BY <1>1, <1>3, MinIsLeast
<1>5. Min(S) \in 0..Len(data)
  BY <1>1, <1>4
<1>. QED
  BY <1>2, <1>5

LEMMA PartType ==
  ASSUME NEW data \in Seq(Lines), NEW n \in Nat
  PROVE  /\ From(data, n + 1) \in Seq(Lines)
         /\ n <= Len(data) => SubSeq(data, 1, n) \in Seq(Lines)
         /\ n <= Len(data) /\ n > 0 => SubSeq(data, 1, n) # <<>>
<1>1. From(data, n + 1) \in Seq(Lines)
  BY DEF From
<1>2. ASSUME n <= Len(data)
      PROVE  SubSeq(data, 1, n) \in Seq(Lines) /\ Len(SubSeq(data, 1, n)) = n
  BY <1>2, SubSeqProperties
<1>. QED
  BY <1>1, <1>2

-----------------------------------------------------------------------------
(* The invariant: types; what the table points to is allocated, and no     *)
(* copied string is pointed to twice; and the block that is being loaded   *)
(* is nobody's when the strings are copied out of it.                      *)

StringsOK ==
  /\ m_strings \subseteq Nat \ {0} /\ IsFiniteSet(m_strings)
  /\ m_pData \in {NULL} \cup (Nat \ {0}) /\ m_pData \notin m_strings

LoadOK ==
  load # NULL =>
    /\ load.block \notin m_strings \cup {m_pData}
    /\ load.pSection.at \in {0, load.block} /\ At(load.pComment) \subseteq {0, load.block}
    /\ Copying => \A u \in InUse : u[4] # load.block

IniInv == IniTypeOK /\ StringsOK /\ LoadOK /\ StringsLive

LEMMA AllocationsFinite ==
  ASSUME IniInv
  PROVE  IsFiniteSet(Allocations)
<1>. DEFINE All == m_strings \cup {0} \cup {m_pData} \cup (IF load = NULL THEN {} ELSE {load.block})
<1>1. IsFiniteSet(m_strings)
  BY DEF IniInv, StringsOK
<1>2. IsFiniteSet(m_strings \cup {0})
  BY <1>1, FS_AddElement
<1>3. IsFiniteSet(m_strings \cup {0} \cup {m_pData})
  BY <1>2, FS_AddElement
<1>4. IsFiniteSet(All)
  <2>1. CASE load = NULL
    BY <1>3, <2>1
  <2>2. CASE load # NULL
    BY <1>3, <2>2, FS_AddElement
  <2>. QED
    BY <2>1, <2>2
<1>5. Allocations \in SUBSET All
  BY DEF Allocations, IniInv, StringsLive
<1>. HIDE DEF All
<1>. QED
  BY <1>4, <1>5, FS_Subset

LEMMA Fresh ==
  ASSUME IniInv
  PROVE  \A n \in Nat \ {0} :
           /\ NewAllocation(n) \in Nat \ {0}
           /\ NewAllocation(n) \notin Allocations \cup m_strings \cup {m_pData, 0}
           /\ load # NULL => NewAllocation(n) # load.block
           /\ \A u \in InUse : NewAllocation(n) # u[4]
           /\ \A m \in Nat \ {0} : m # n => NewAllocation(m) # NewAllocation(n)
<1>1. SUFFICES ASSUME NEW n \in Nat \ {0}
               PROVE  /\ NewAllocation(n) \in Nat \ {0}
                      /\ NewAllocation(n) \notin Allocations \cup m_strings \cup {m_pData, 0}
                      /\ load # NULL => NewAllocation(n) # load.block
                      /\ \A u \in InUse : NewAllocation(n) # u[4]
                      /\ \A m \in Nat \ {0} : m # n => NewAllocation(m) # NewAllocation(n)
  OBVIOUS
<1>2. /\ NewAllocation(n) \in Nat \ {0} /\ NewAllocation(n) \notin Allocations
      /\ \A m \in Nat \ {0} : m # n => NewAllocation(m) # NewAllocation(n)
  BY AllocationsFinite, NewAllocationIsNew
<1>3. NewAllocation(n) # NULL
  BY <1>2, IniAssumption
<1>. QED
  BY <1>2, <1>3 DEF Allocations

SameText(p, q) == (p = NULL <=> q = NULL) /\ (q # NULL => p.text = q.text)

LEMMA CopyType ==
  ASSUME IniInv, NEW n \in Nat \ {0}
  PROVE  /\ \A p \in Names : CopyString(p, n) \in Names /\ CopyString(p, n).text = p.text
         /\ \A p \in SectionNames : CopyString(p, n) \in SectionNames /\ CopyString(p, n).text = p.text
         /\ \A p \in Values : CopyString(p, n) \in Values /\ CopyString(p, n).text = p.text
         /\ \A p \in Comments : CopyString(p, n) \in Comments /\ SameText(CopyString(p, n), p)
         /\ \A p : At(CopyString(p, n)) \subseteq {NewAllocation(n)}
<1>1. NewAllocation(n) \in Nat
  BY Fresh
<1>2. NULL \notin Names \cup SectionNames \cup [text : Seq(Lines), at : Nat]
  BY IniAssumption
<1>3. \A p \in Names \cup SectionNames \cup Values : p # NULL
  BY <1>2 DEF Values
<1>8. \A p \in SectionNames : CopyString(p, n) \in SectionNames /\ CopyString(p, n).text = p.text
  BY <1>1, <1>3 DEF CopyString, Ptr, SectionNames
<1>4. \A p \in Names : CopyString(p, n) \in Names /\ CopyString(p, n).text = p.text
  BY <1>1, <1>3 DEF CopyString, Ptr, Names
<1>5. \A p \in Values : CopyString(p, n) \in Values /\ CopyString(p, n).text = p.text
  BY <1>1, <1>3 DEF CopyString, Ptr, Values
<1>6. \A p \in Comments : CopyString(p, n) \in Comments /\ SameText(CopyString(p, n), p)
  BY <1>1, <1>2 DEF CopyString, Ptr, Comments, SameText
<1>7. \A p : At(CopyString(p, n)) \subseteq {NewAllocation(n)}
  BY DEF CopyString, Ptr, At
<1>. QED
  BY <1>4, <1>5, <1>6, <1>7, <1>8

-----------------------------------------------------------------------------
(* The table *)

\* a section of the table when the next load order is after max
SectionOK(s, section, max) ==
  /\ section \in SectionEntries
  /\ section.pItem.text = s /\ section.nOrder \in 1..max
  /\ IsFiniteSet(section.keys)
  /\ \A e \in section.keys :
       /\ e.nOrder \in 1..max
       /\ \A f \in section.keys : e.nOrder = f.nOrder => e = f

TableOK(data, max) ==
  /\ max \in Nat
  /\ data \in [DOMAIN data -> SectionEntries] /\ IsFiniteSet(DOMAIN data)
  /\ \A s \in DOMAIN data :
       /\ SectionOK(s, data[s], max)
       /\ \A t \in DOMAIN data : data[s].nOrder = data[t].nOrder => s = t

LEMMA TypeParts ==
  IniTypeOK <=>
    /\ file \in Seq(Lines)
    /\ m_bAllowMultiKey \in BOOLEAN /\ m_bAllowMultiLine \in BOOLEAN
    /\ m_pFileComment \in Comments /\ load \in Loads \cup {NULL}
    /\ TableOK(m_data, m_nOrder)
<1>1. ASSUME IniTypeOK PROVE TableOK(m_data, m_nOrder)
  BY <1>1 DEF IniTypeOK, TableOK, SectionOK
<1>2. ASSUME TableOK(m_data, m_nOrder)
      PROVE  /\ m_nOrder \in Nat
             /\ m_data \in [DOMAIN m_data -> SectionEntries] /\ IsFiniteSet(DOMAIN m_data)
             /\ \A s \in DOMAIN m_data :
                  /\ m_data[s].pItem.text = s /\ m_data[s].nOrder \in 1..m_nOrder
                  /\ \A t \in DOMAIN m_data : m_data[s].nOrder = m_data[t].nOrder => s = t
                  /\ IsFiniteSet(m_data[s].keys)
                  /\ \A e \in m_data[s].keys :
                       /\ e.nOrder \in 1..m_nOrder
                       /\ \A f \in m_data[s].keys : e.nOrder = f.nOrder => e = f
  BY <1>2 DEF TableOK, SectionOK
<1>. QED
  BY <1>1, <1>2 DEF IniTypeOK

LEMMA SectionsLater ==
  ASSUME NEW s, NEW section, NEW n \in Nat, NEW m \in Nat, n <= m, SectionOK(s, section, n)
  PROVE  SectionOK(s, section, m)
BY DEF SectionOK

\* a section is put in the place of the one of its name, or as the last one
LEMMA WithSectionOK ==
  ASSUME TableOK(m_data, m_nOrder), NEW m \in Nat, m_nOrder <= m,
         NEW s, NEW section, SectionOK(s, section, m),
         \/ s \in DOMAIN m_data /\ section.nOrder = m_data[s].nOrder
         \/ section.nOrder > m_nOrder
  PROVE  TableOK(WithSection(s, section), m)
<1>. DEFINE data == WithSection(s, section)
<1>1. /\ DOMAIN data = DOMAIN m_data \cup {s} /\ data[s] = section
      /\ \A t \in DOMAIN m_data \ {s} : data[t] = m_data[t]
      /\ data = [t \in DOMAIN data |-> data[t]]
  BY DEF WithSection
<1>. HIDE DEF data
<1>2. m_nOrder \in Nat
  BY DEF TableOK
<1>3. IsFiniteSet(DOMAIN data)
  BY <1>1, FS_AddElement DEF TableOK
<1>4. ASSUME NEW t \in DOMAIN data PROVE SectionOK(t, data[t], m)
  <2>1. CASE t = s
    BY <1>1, <2>1
  <2>2. CASE t # s
    BY <1>1, <1>2, <2>2, SectionsLater DEF TableOK
  <2>. QED
    BY <2>1, <2>2
<1>5. ASSUME NEW t \in DOMAIN m_data, t # s PROVE data[t].nOrder # data[s].nOrder
  <2>1. data[t].nOrder = m_data[t].nOrder /\ m_data[t].nOrder \in 1..m_nOrder
    BY <1>1, <1>5 DEF TableOK, SectionOK
  <2>2. section.nOrder \in Nat
    BY DEF SectionOK
  <2>. QED
    BY <1>1, <1>2, <1>5, <2>1, <2>2 DEF TableOK
<1>6. ASSUME NEW t \in DOMAIN data, NEW u \in DOMAIN data, data[t].nOrder = data[u].nOrder
      PROVE  t = u
  BY <1>1, <1>5, <1>6 DEF TableOK
<1>7. data \in [DOMAIN data -> SectionEntries]
  BY <1>1, <1>4 DEF SectionOK
<1>. QED
  BY <1>3, <1>4, <1>6, <1>7 DEF TableOK, data

LEMMA WithoutOK ==
  ASSUME TableOK(m_data, m_nOrder), NEW s
  PROVE  TableOK(Without(s), m_nOrder)
<1>1. /\ DOMAIN Without(s) = DOMAIN m_data \ {s}
      /\ \A t \in DOMAIN m_data \ {s} : Without(s)[t] = m_data[t]
      /\ Without(s) = [t \in DOMAIN Without(s) |-> Without(s)[t]]
  BY DEF Without
<1>2. IsFiniteSet(DOMAIN Without(s))
  BY <1>1, FS_RemoveElement DEF TableOK
<1>3. Without(s) \in [DOMAIN Without(s) -> SectionEntries]
  BY <1>1 DEF TableOK
<1>. QED
  BY <1>1, <1>2, <1>3 DEF TableOK

LEMMA ExceptKeys ==
  ASSUME TableOK(m_data, m_nOrder), NEW s \in DOMAIN m_data, NEW keys
  PROVE  [m_data EXCEPT ![s].keys = keys] = WithSection(s, [m_data[s] EXCEPT !.keys = keys])
<1>1. DOMAIN m_data \cup {s} = DOMAIN m_data
  OBVIOUS
<1>. QED
  BY <1>1 DEF WithSection, TableOK

\* some keys of a section go, and others that have their load orders or later
\* ones come
LEMMA KeysOK ==
  ASSUME NEW n \in Nat, NEW m \in Nat, n <= m, NEW s, NEW section, SectionOK(s, section, n),
         NEW kept, kept \subseteq section.keys,
         NEW e \in KeyEntries, e.nOrder \in 1..m, \A f \in kept : f.nOrder # e.nOrder
  PROVE  /\ SectionOK(s, [section EXCEPT !.keys = kept], n)
         /\ SectionOK(s, [section EXCEPT !.keys = kept \cup {e}], m)
<1>1. IsFiniteSet(kept) /\ IsFiniteSet(kept \cup {e})
  BY FS_Subset, FS_AddElement DEF SectionOK
<1>2. section \in SectionEntries /\ kept \cup {e} \in SUBSET KeyEntries /\ kept \in SUBSET KeyEntries
  BY DEF SectionOK, SectionEntries
<1>3. /\ [section EXCEPT !.keys = kept] \in SectionEntries
      /\ [section EXCEPT !.keys = kept].keys = kept
      /\ [section EXCEPT !.keys = kept].nOrder = section.nOrder
      /\ [section EXCEPT !.keys = kept].pItem = section.pItem
      /\ [section EXCEPT !.keys = kept \cup {e}] \in SectionEntries
      /\ [section EXCEPT !.keys = kept \cup {e}].keys = kept \cup {e}
      /\ [section EXCEPT !.keys = kept \cup {e}].nOrder = section.nOrder
      /\ [section EXCEPT !.keys = kept \cup {e}].pItem = section.pItem
  BY <1>2 DEF SectionEntries
<1>4. section.pItem.text = s /\ section.nOrder \in 1..n
  BY DEF SectionOK
<1>5. ASSUME NEW f \in kept PROVE f.nOrder \in 1..n /\ \A g \in kept : f.nOrder = g.nOrder => f = g
  BY DEF SectionOK
<1>6. SectionOK(s, [section EXCEPT !.keys = kept], n)
  BY <1>1, <1>3, <1>4, <1>5 DEF SectionOK
<1>7. ASSUME NEW f \in kept \cup {e}
      PROVE  f.nOrder \in 1..m /\ \A g \in kept \cup {e} : f.nOrder = g.nOrder => f = g
  BY <1>5
<1>8. section.nOrder \in 1..m
  BY <1>4
<1>. QED
  BY <1>1, <1>3, <1>4, <1>6, <1>7, <1>8 DEF SectionOK

LEMMA SectionForOK ==
  ASSUME IniInv, NEW p \in SectionNames, NEW comment \in Comments, NEW copy \in BOOLEAN
  PROVE  /\ SectionOK(p.text, SectionFor(p, comment, copy), OrderAfter(p))
         /\ OrderAfter(p) \in Nat /\ m_nOrder <= OrderAfter(p) /\ m_nOrder \in Nat
         /\ IF p.text \in DOMAIN m_data THEN SectionFor(p, comment, copy) = m_data[p.text]
            ELSE SectionFor(p, comment, copy).nOrder > m_nOrder
<1>1. TableOK(m_data, m_nOrder) /\ m_nOrder \in Nat
  BY TypeParts DEF IniInv, TableOK
<1>2. CASE p.text \in DOMAIN m_data
  BY <1>1, <1>2 DEF TableOK, SectionFor, OrderAfter
<1>3. CASE p.text \notin DOMAIN m_data
  <2>. DEFINE item == IF copy THEN CopyString(p, 2) ELSE p
  <2>1. item \in SectionNames /\ item.text = p.text
    BY CopyType
  <2>. HIDE DEF item
  <2>. DEFINE section == [pItem |-> item, pComment |-> comment, nOrder |-> m_nOrder + 1, keys |-> {}]
  <2>2. SectionFor(p, comment, copy) = section
    BY <1>3 DEF SectionFor, item
  <2>3. section \in SectionEntries /\ IsFiniteSet(section.keys)
    BY <1>1, <2>1, FS_EmptySet DEF SectionEntries
  <2>4. SectionOK(p.text, section, m_nOrder + 1)
    BY <1>1, <2>1, <2>3 DEF SectionOK
  <2>. QED
    BY <1>1, <1>3, <2>2, <2>4 DEF OrderAfter
<1>. QED
  BY <1>2, <1>3

LEMMA AddSectionTypes ==
  ASSUME IniInv, NEW p \in SectionNames, NEW c \in Comments, NEW copy \in BOOLEAN,
         AddSection(p, c, copy)
  PROVE  TableOK(m_data', m_nOrder')
<1>. DEFINE comment == IF copy THEN CopyString(c, 1) ELSE c
<1>1. comment \in Comments
  BY CopyType
<1>2. m_data' = WithSection(p.text, SectionFor(p, comment, copy)) /\ m_nOrder' = OrderAfter(p)
  BY DEF AddSection
<1>. HIDE DEF comment
<1>3. TableOK(WithSection(p.text, SectionFor(p, comment, copy)), OrderAfter(p))
  BY <1>1, SectionForOK, WithSectionOK, TypeParts DEF IniInv
<1>. QED
  BY <1>2, <1>3

\* what InsertKey puts into the table: the section with a later entry more
KeyInserted(s, k, section, e) ==
  /\ m_data' = WithSection(s, section) /\ SectionOK(s, section, m_nOrder')
  /\ s \in DOMAIN m_data => section.nOrder = m_data[s].nOrder /\ section.pComment = m_data[s].pComment
  /\ s \notin DOMAIN m_data => section.nOrder > m_nOrder /\ section.pComment = NULL
  /\ section.keys = Entries(s) \cup {e}
  /\ e.pItem.text = k /\ e.nOrder = m_nOrder' /\ \A f \in Entries(s) : f.nOrder < m_nOrder'

LEMMA InsertKeyTable ==
  ASSUME IniInv, NEW p \in SectionNames, NEW k \in Names, NEW v \in Values, NEW c \in Comments,
         NEW force \in BOOLEAN, NEW copy \in BOOLEAN, InsertKey(p, k, v, c, force, copy)
  PROVE  /\ m_nOrder \in Nat /\ m_nOrder' \in Nat /\ m_nOrder <= m_nOrder'
         /\ \E section, e : /\ KeyInserted(p.text, k.text, section, e)
                            /\ e \in KeyEntries /\ e.value.text = v.text /\ SameText(e.pComment, c)
<1>. DEFINE comment == IF copy THEN CopyString(c, 1) ELSE c
            key == IF copy THEN CopyString(k, 3) ELSE k
            value == IF copy THEN CopyString(v, 4) ELSE v
            s == p.text
            section == SectionFor(p, NULL, copy)
            n == OrderAfter(p) + 1
            entry == [pItem |-> key, pComment |-> comment, value |-> value, nOrder |-> n]
<1>1. /\ comment \in Comments /\ SameText(comment, c) /\ key \in Names /\ key.text = k.text
      /\ value \in Values /\ value.text = v.text
  <2>1. SameText(c, c)
    BY DEF SameText
  <2>. QED
    BY <2>1, CopyType
<1>2. /\ m_data' = WithSection(s, [section EXCEPT !.keys = @ \cup {entry}])
      /\ m_nOrder' = n
  BY DEF InsertKey
<1>. HIDE DEF comment, key, value, s
<1>3. /\ SectionOK(s, section, OrderAfter(p))
      /\ OrderAfter(p) \in Nat /\ m_nOrder <= OrderAfter(p) /\ m_nOrder \in Nat
      /\ IF s \in DOMAIN m_data THEN section = m_data[s] ELSE section.nOrder > m_nOrder
  BY SectionForOK DEF Comments, s
<1>4. section.keys = Entries(s) /\ (s \notin DOMAIN m_data => section.pComment = NULL)
  BY DEF SectionFor, Entries, s
<1>. HIDE DEF section
<1>5. n \in Nat /\ OrderAfter(p) <= n /\ m_nOrder <= n
  BY <1>3
<1>6. /\ entry \in KeyEntries /\ entry.nOrder = n /\ n \in 1..n /\ entry.pItem.text = k.text
      /\ entry.value.text = v.text /\ SameText(entry.pComment, c)
  BY <1>1, <1>3, <1>5 DEF KeyEntries
<1>7. \A f \in section.keys : f.nOrder < n /\ f.nOrder # n
  BY <1>3 DEF SectionOK
<1>. HIDE DEF entry, n
<1>. DEFINE new == [section EXCEPT !.keys = section.keys \cup {entry}]
<1>8. SectionOK(s, new, n)
  BY <1>3, <1>5, <1>6, <1>7, KeysOK
<1>9. /\ new.nOrder = section.nOrder /\ new.pComment = section.pComment
      /\ new.keys = section.keys \cup {entry}
  BY <1>3 DEF SectionOK, SectionEntries
<1>10. m_data' = WithSection(s, new)
  BY <1>2
<1>. HIDE DEF new
<1>11. KeyInserted(s, k.text, new, entry)
  BY <1>2, <1>3, <1>4, <1>6, <1>7, <1>8, <1>9, <1>10 DEF KeyInserted
<1>. QED
  BY <1>2, <1>3, <1>5, <1>6, <1>11 DEF s

LEMMA InsertKeyTypes ==
  ASSUME IniInv, NEW p \in SectionNames, NEW k \in Names, NEW v \in Values, NEW c \in Comments,
         NEW force \in BOOLEAN, NEW copy \in BOOLEAN, InsertKey(p, k, v, c, force, copy)
  PROVE  TableOK(m_data', m_nOrder')
<1>1. PICK section, e : KeyInserted(p.text, k.text, section, e)
  BY InsertKeyTable
<1>2. TableOK(m_data, m_nOrder) /\ m_nOrder' \in Nat /\ m_nOrder <= m_nOrder'
  BY InsertKeyTable, TypeParts DEF IniInv
<1>. QED
  BY <1>1, <1>2, WithSectionOK DEF KeyInserted

\* the entries of a key, and the first of them
LEMMA SameKeyFirst ==
  ASSUME IniTypeOK, NEW s, NEW k, SameKey(s, k) # {}
  PROVE  /\ s \in DOMAIN m_data /\ SameKey(s, k) \subseteq m_data[s].keys
         /\ First(SameKey(s, k)) \in SameKey(s, k)
         /\ SectionOK(s, m_data[s], m_nOrder) /\ TableOK(m_data, m_nOrder) /\ m_nOrder \in Nat
<1>1. s \in DOMAIN m_data /\ SameKey(s, k) \subseteq m_data[s].keys
  BY DEF SameKey, Entries
<1>2. SectionOK(s, m_data[s], m_nOrder) /\ TableOK(m_data, m_nOrder) /\ m_nOrder \in Nat
  BY <1>1, TypeParts DEF TableOK
<1>3. \A e \in SameKey(s, k) : e.nOrder \in Nat
  BY <1>1, <1>2 DEF SectionOK
<1>. QED
  BY <1>1, <1>2, <1>3, FirstIsFirst

\* some entries of a section are replaced by one with the load order of one of them
Replaced(s, gone, e) == [m_data EXCEPT ![s].keys = (@ \ gone) \cup {e}]

LEMMA ReplaceTable ==
  ASSUME TableOK(m_data, m_nOrder), NEW s \in DOMAIN m_data,
         NEW gone, gone \subseteq m_data[s].keys, NEW first \in gone,
         NEW e \in KeyEntries, e.nOrder = first.nOrder
  PROVE  /\ m_nOrder + 1 \in Nat /\ m_nOrder <= m_nOrder + 1
         /\ \E new :
              /\ Replaced(s, gone, e) = WithSection(s, new) /\ SectionOK(s, new, m_nOrder + 1)
              /\ new.nOrder = m_data[s].nOrder /\ new.pComment = m_data[s].pComment
              /\ new.keys = (m_data[s].keys \ gone) \cup {e}
<1>. DEFINE section == m_data[s]
            kept == section.keys \ gone
            new == [section EXCEPT !.keys = kept \cup {e}]
            n == m_nOrder + 1
<1>1. SectionOK(s, section, m_nOrder) /\ m_nOrder \in Nat
  BY DEF TableOK
<1>2. n \in Nat /\ m_nOrder <= n
  BY <1>1
<1>3. first.nOrder \in 1..n /\ \A f \in kept : f.nOrder # first.nOrder
  BY <1>1 DEF SectionOK
<1>4. SectionOK(s, new, n)
  <2>1. kept \subseteq section.keys
    OBVIOUS
  <2>. HIDE DEF section, kept, n
  <2>. QED
    BY <1>1, <1>2, <1>3, <2>1, KeysOK
<1>5. /\ new.nOrder = section.nOrder /\ new.pComment = section.pComment
      /\ new.keys = kept \cup {e}
  BY <1>1 DEF SectionOK, SectionEntries
<1>6. Replaced(s, gone, e) = WithSection(s, new)
  <2>1. Replaced(s, gone, e) = [m_data EXCEPT ![s].keys = kept \cup {e}]
    BY DEF Replaced
  <2>. HIDE DEF kept
  <2>2. [m_data EXCEPT ![s].keys = kept \cup {e}] = WithSection(s, [m_data[s] EXCEPT !.keys = kept \cup {e}])
    BY ExceptKeys
  <2>. QED
    BY <2>1, <2>2
<1>. HIDE DEF new
<1>. QED
  BY <1>2, <1>4, <1>5, <1>6

LEMMA ReplaceTypes ==
  ASSUME TableOK(m_data, m_nOrder), NEW s \in DOMAIN m_data,
         NEW gone, gone \subseteq m_data[s].keys, NEW first \in gone,
         NEW e \in KeyEntries, e.nOrder = first.nOrder
  PROVE  TableOK(Replaced(s, gone, e), m_nOrder + 1)
<1>1. m_nOrder + 1 \in Nat /\ m_nOrder <= m_nOrder + 1
  BY ReplaceTable
<1>2. PICK new : /\ Replaced(s, gone, e) = WithSection(s, new) /\ SectionOK(s, new, m_nOrder + 1)
                 /\ new.nOrder = m_data[s].nOrder
  BY ReplaceTable
<1>3. TableOK(WithSection(s, new), m_nOrder + 1)
  BY <1>1, <1>2, WithSectionOK
<1>. QED
  BY <1>2, <1>3

LEMMA UpdateKeyTypes ==
  ASSUME IniInv, NEW p \in SectionNames, NEW k \in Names, NEW v \in Values, NEW c \in Comments,
         NEW copy \in BOOLEAN, UpdateKey(p, k, v, c, copy)
  PROVE  TableOK(m_data', m_nOrder')
<1>. DEFINE value == IF copy THEN CopyString(v, 4) ELSE v
            s == p.text
            first == First(SameKey(s, k.text))
            entry == [first EXCEPT !.value = value]
<1>1. value \in Values
  BY CopyType
<1>2. /\ SameKey(s, k.text) # {} /\ m_nOrder' = m_nOrder + 1
      /\ m_data' = Replaced(s, {first}, entry)
  BY DEF UpdateKey, Replaced
<1>. HIDE DEF value
<1>3. /\ s \in DOMAIN m_data /\ first \in m_data[s].keys
      /\ SectionOK(s, m_data[s], m_nOrder) /\ TableOK(m_data, m_nOrder)
  BY <1>2, SameKeyFirst DEF IniInv
<1>. HIDE DEF first, s
<1>4. first \in KeyEntries
  BY <1>3 DEF SectionOK, SectionEntries
<1>5. entry \in KeyEntries /\ entry.nOrder = first.nOrder
  BY <1>1, <1>4 DEF KeyEntries
<1>. HIDE DEF entry
<1>6. {first} \subseteq m_data[s].keys
  BY <1>3
<1>7. TableOK(m_data', m_nOrder + 1)
  BY <1>2, <1>3, <1>5, <1>6, ReplaceTypes
<1>. QED
  BY <1>2, <1>7

\* what a forced SetValue does: of the strings it is given it may find anything
\* when they are among those it frees
ReplacedBy(s, k, c, key, value, comment) ==
  LET same == SameKey(s, k)
      kept == First(same).pComment
  IN  /\ same # {} /\ m_bAllowMultiKey /\ m_nOrder' = m_nOrder + 1 /\ rc' = "SI_INSERTED"
      /\ comment = IF kept = NULL THEN CopyString(c, 1) ELSE CopyString(kept, 5)
      /\ m_data' = Replaced(s, same, [pItem |-> key, pComment |-> comment, value |-> value,
                                      nOrder |-> First(same).nOrder])
      /\ m_strings' = (m_strings \ StringsOf(same)) \cup At(comment) \cup At(key) \cup At(value)

LEMMA ReplaceKeysIs ==
  ASSUME IniInv, NEW p \in SectionNames, NEW k \in Names, NEW v \in Values,
         NEW c \in Comments, ReplaceKeys(p, k, v, c)
  PROVE  \E key \in Names, value \in Values, comment \in Comments :
           /\ ReplacedBy(p.text, k.text, c, key, value, comment)
           /\ key.at = NewAllocation(3) /\ value.at = NewAllocation(4)
           /\ k.at \notin m_strings => key.text = k.text
           /\ v.at \notin m_strings => value.text = v.text
<1>. DEFINE s == p.text
            same == SameKey(s, k.text)
            kept == First(same).pComment
            comment == IF kept = NULL THEN CopyString(c, 1) ELSE CopyString(kept, 5)
            freed == m_strings \cap StringsOf(same)
            entry(x, y) == [pItem |-> Ptr(x, NewAllocation(3)), pComment |-> comment,
                            value |-> Ptr(y, NewAllocation(4)), nOrder |-> First(same).nOrder]
<1>1. ReplaceKeysWith(p, k, v, comment)
  BY DEF ReplaceKeys
<1>. HIDE DEF comment
<1>2. /\ same # {} /\ m_bAllowMultiKey /\ m_nOrder' = m_nOrder + 1 /\ rc' = "SI_INSERTED"
      /\ \E x \in Found(k, freed, Keys), y \in Found(v, freed, SetValues) :
           m_data' = Replaced(s, same, entry(x, y))
      /\ m_strings' = (m_strings \ freed) \cup At(comment) \cup {NewAllocation(3), NewAllocation(4)}
  BY <1>1 DEF ReplaceKeysWith, Replaced
<1>3. PICK x \in Found(k, freed, Keys), y \in Found(v, freed, SetValues) :
        m_data' = Replaced(s, same, entry(x, y))
  BY <1>2
<1>. DEFINE key == Ptr(x, NewAllocation(3))
            value == Ptr(y, NewAllocation(4))
<1>4. NewAllocation(3) \in Nat /\ NewAllocation(4) \in Nat
  BY Fresh
<1>5. x \in STRING /\ (k.at \notin m_strings => x = k.text)
  BY <1>3, IniAssumption DEF Found, Names
<1>6. y \in Seq(Lines) \ {<<>>} /\ (v.at \notin m_strings => y = v.text)
  <2>1. SetValues \subseteq Seq(Lines) \ {<<>>}
    BY IniAssumption DEF SetValues
  <2>2. v.text \in Seq(Lines) \ {<<>>}
    BY DEF Values
  <2>. QED
    BY <1>3, <2>1, <2>2 DEF Found
<1>7. key \in Names /\ key.at = NewAllocation(3) /\ key.text = x
  BY <1>4, <1>5 DEF Ptr, Names
<1>8. value \in Values /\ value.at = NewAllocation(4) /\ value.text = y
  BY <1>4, <1>6 DEF Ptr, Values
<1>9. key # NULL /\ value # NULL
  BY <1>7, <1>8, IniAssumption DEF Values
<1>10. At(key) = {NewAllocation(3)} /\ At(value) = {NewAllocation(4)}
  BY <1>7, <1>8, <1>9 DEF At
<1>11. m_strings \ freed = m_strings \ StringsOf(same)
  OBVIOUS
<1>12. m_strings' = (m_strings \ StringsOf(same)) \cup At(comment) \cup At(key) \cup At(value)
  BY <1>2, <1>10, <1>11
<1>13. ReplacedBy(s, k.text, c, key, value, comment)
  BY <1>2, <1>3, <1>12 DEF ReplacedBy, comment
<1>14. comment \in Comments
  <2>1. /\ s \in DOMAIN m_data /\ same \subseteq m_data[s].keys /\ First(same) \in same
        /\ SectionOK(s, m_data[s], m_nOrder)
    BY <1>2, SameKeyFirst DEF IniInv
  <2>. HIDE DEF same, s
  <2>2. First(same) \in KeyEntries
    BY <2>1 DEF SectionOK, SectionEntries
  <2>3. kept \in Comments
    BY <2>2 DEF KeyEntries
  <2>. QED
    BY <2>3, CopyType DEF comment
<1>. QED
  BY <1>5, <1>6, <1>7, <1>8, <1>13, <1>14

LEMMA ReplaceKeysTypes ==
  ASSUME IniInv, NEW p \in SectionNames, NEW k \in Names, NEW v \in Values, NEW c \in Comments,
         ReplaceKeys(p, k, v, c)
  PROVE  TableOK(m_data', m_nOrder')
<1>. DEFINE s == p.text
            same == SameKey(s, k.text)
            kept == First(same).pComment
<1>0. PICK key \in Names, value \in Values, comment \in Comments : ReplacedBy(s, k.text, c, key, value, comment)
  BY ReplaceKeysIs
<1>. DEFINE entry == [pItem |-> key, pComment |-> comment, value |-> value, nOrder |-> First(same).nOrder]
<1>1. /\ same # {} /\ m_nOrder' = m_nOrder + 1
      /\ m_data' = Replaced(s, same, entry)
      /\ comment = IF kept = NULL THEN CopyString(c, 1) ELSE CopyString(kept, 5)
  BY <1>0 DEF ReplacedBy
<1>2. /\ s \in DOMAIN m_data /\ same \subseteq m_data[s].keys /\ First(same) \in same
      /\ SectionOK(s, m_data[s], m_nOrder) /\ TableOK(m_data, m_nOrder)
  BY <1>1, SameKeyFirst DEF IniInv
<1>. HIDE DEF same, s
<1>3. First(same) \in KeyEntries
  BY <1>2 DEF SectionOK, SectionEntries
<1>4. kept \in Comments /\ First(same).nOrder \in Nat
  BY <1>3 DEF KeyEntries
<1>. HIDE DEF kept
<1>5. comment \in Comments
  BY <1>1, <1>4, CopyType
<1>6. entry \in KeyEntries /\ entry.nOrder = First(same).nOrder
  BY <1>4, <1>5 DEF KeyEntries
<1>. HIDE DEF entry
<1>7. TableOK(m_data', m_nOrder + 1)
  BY <1>1, <1>2, <1>6, ReplaceTypes
<1>. QED
  BY <1>1, <1>7

\* some of the entries of a section are left
Left(s, keys) == [m_data[s] EXCEPT !.keys = keys]

LEMMA LeftTable ==
  ASSUME TableOK(m_data, m_nOrder), NEW s \in DOMAIN m_data, NEW keys \in SUBSET m_data[s].keys
  PROVE  /\ SectionOK(s, Left(s, keys), m_nOrder) /\ m_nOrder \in Nat
         /\ Left(s, keys).nOrder = m_data[s].nOrder /\ Left(s, keys).pComment = m_data[s].pComment
         /\ Left(s, keys).keys = keys
<1>. DEFINE section == m_data[s]
            new == [section EXCEPT !.keys = keys]
<1>1. SectionOK(s, section, m_nOrder) /\ m_nOrder \in Nat
  BY DEF TableOK
<1>2. section \in SectionEntries /\ IsFiniteSet(keys)
  BY <1>1, FS_Subset DEF SectionOK
<1>3. keys \in SUBSET section.keys
  OBVIOUS
<1>. HIDE DEF section
<1>4. /\ new \in SectionEntries /\ new.keys = keys /\ new.nOrder = section.nOrder
      /\ new.pItem = section.pItem /\ new.pComment = section.pComment
  BY <1>2, <1>3 DEF SectionEntries
<1>. HIDE DEF new
<1>5. SectionOK(s, new, m_nOrder)
  BY <1>1, <1>2, <1>3, <1>4 DEF SectionOK
<1>6. Left(s, keys) = new
  BY DEF Left, new, section
<1>. QED
  BY <1>1, <1>4, <1>5, <1>6 DEF section

LEMMA AddEntryTypes ==
  ASSUME IniInv, NEW p \in SectionNames, NEW k \in Names, NEW v \in Values, NEW c \in Comments,
         NEW force \in BOOLEAN, NEW copy \in BOOLEAN, AddEntry(p, k, v, c, force, copy)
  PROVE  TableOK(m_data', m_nOrder')
BY InsertKeyTypes, UpdateKeyTypes, ReplaceKeysTypes DEF AddEntry

-----------------------------------------------------------------------------
(* What is saved is lines *)

LEMMA EntriesOrdered ==
  ASSUME IniTypeOK, NEW s
  PROVE  /\ Ordered(Entries(s)) /\ Entries(s) \subseteq KeyEntries
         /\ \A k : Ordered(SameKey(s, k)) /\ SameKey(s, k) \subseteq Entries(s)
         /\ GetAllKeys(s) \subseteq Entries(s) /\ Ordered(GetAllKeys(s))
<1>1. Ordered(Entries(s)) /\ Entries(s) \subseteq KeyEntries
  <2>1. CASE s \in DOMAIN m_data
    <3>1. SectionOK(s, m_data[s], m_nOrder) /\ m_nOrder \in Nat
      BY <2>1, TypeParts DEF TableOK
    <3>. QED
      BY <2>1, <3>1 DEF SectionOK, SectionEntries, Entries, Ordered
  <2>2. CASE s \notin DOMAIN m_data
    BY <2>2, FS_EmptySet DEF Entries, Ordered
  <2>. QED
    BY <2>1, <2>2
<1>2. \A k : SameKey(s, k) \in SUBSET Entries(s)
  BY DEF SameKey
<1>3. \A k : Ordered(SameKey(s, k))
  BY <1>1, <1>2, OrderedSubset
<1>4. GetAllKeys(s) \subseteq Entries(s)
  <2>1. ASSUME NEW e \in Entries(s) PROVE First(SameKey(s, e.pItem.text)) \in Entries(s)
    <3>1. e \in SameKey(s, e.pItem.text)
      BY DEF SameKey
    <3>2. First(SameKey(s, e.pItem.text)) \in SameKey(s, e.pItem.text)
      BY <1>3, <3>1, FirstIsFirst DEF Ordered
    <3>. QED
      BY <1>2, <3>2
  <2>. QED
    BY <2>1 DEF GetAllKeys
<1>. QED
  BY <1>1, <1>2, <1>3, <1>4, OrderedSubset

LEMMA SectionsOrdered ==
  ASSUME IniTypeOK
  PROVE  /\ Ordered({m_data[s] : s \in DOMAIN m_data})
         /\ {m_data[s] : s \in DOMAIN m_data} \subseteq SectionEntries
         /\ GetAllSections \in Seq(SectionEntries)
<1>. DEFINE S == {m_data[s] : s \in DOMAIN m_data}
<1>1. TableOK(m_data, m_nOrder) /\ m_nOrder \in Nat
  BY TypeParts DEF TableOK
<1>2. S \subseteq SectionEntries
  BY <1>1 DEF TableOK
<1>3. IsFiniteSet(S)
  <2>1. m_data \in Surjection(DOMAIN m_data, S)
    BY <1>1 DEF TableOK, Surjection
  <2>. HIDE DEF S
  <2>. QED
    BY <1>1, <2>1, FS_Surjection DEF TableOK
<1>4. \A e \in S : e.nOrder \in Nat /\ \A f \in S : e.nOrder = f.nOrder => e = f
  BY <1>1 DEF TableOK, SectionOK
<1>5. Ordered(S)
  BY <1>3, <1>4 DEF Ordered
<1>. HIDE DEF S
<1>6. Sorted(S) \in Seq(SectionEntries)
  BY <1>2, <1>5, SortedIsSorted
<1>. QED
  BY <1>2, <1>5, <1>6 DEF S, GetAllSections

LEMMA LinesJoined ==
  /\ \A x \in Lines : <<x>> \in Seq(Lines) /\ <<x, x>> \in Seq(Lines)
  /\ \A a, b, c, d \in Seq(Lines) : a \o b \in Seq(Lines) /\ a \o b \o c \in Seq(Lines)
                                       /\ a \o b \o c \o d \in Seq(Lines)
<1>1. \A a, b \in Seq(Lines) : a \o b \in Seq(Lines)
  BY ConcatProperties
<1>. QED
  BY <1>1

LEMMA SavedEntryType ==
  ASSUME IniTypeOK, NEW e \in KeyEntries
  PROVE  SavedEntry(e) \in Seq(Lines)
<1>1. /\ e.pItem.text \in STRING /\ e.value.text \in Seq(Lines) /\ e.value.text # <<>>
      /\ e.pComment # NULL => e.pComment.text \in Seq(Lines)
  BY DEF KeyEntries, Names, Values, Comments
<1>2. ASSUME NEW k \in STRING, NEW value \in Seq(Lines), value # <<>>
      PROVE  SavedValue(k, value) \in Seq(Lines)
  <2>1. value[1] \in Lines /\ Tail(value) \in Seq(Lines)
    BY <1>2
  <2>. DEFINE tag == Tag("END_OF_TEXT")
  <2>2. KeyLine(k, tag) \in Lines /\ KeyLine(k, value[1]) \in Lines /\ EndTag \in Lines
    BY <2>1, LineTypes
  <2>3. /\ <<KeyLine(k, tag)>> \in Seq(Lines) /\ <<KeyLine(k, value[1])>> \in Seq(Lines)
        /\ <<EndTag>> \in Seq(Lines)
    BY <2>2, LinesJoined
  <2>4. <<KeyLine(k, tag)>> \o value \o <<EndTag>> \in Seq(Lines)
    BY <2>3, LinesJoined
  <2>5. <<KeyLine(k, value[1])>> \o Tail(value) \in Seq(Lines)
    BY <2>1, <2>3, LinesJoined
  <2>. QED
    BY <2>4, <2>5 DEF SavedValue
<1>3. SavedValue(e.pItem.text, e.value.text) \in Seq(Lines)
  BY <1>1, <1>2
<1>4. (IF e.pComment = NULL THEN <<>> ELSE <<Blank>> \o e.pComment.text) \in Seq(Lines)
  <2>1. CASE e.pComment = NULL
    BY <2>1
  <2>2. CASE e.pComment # NULL
    <3>1. e.pComment.text \in Seq(Lines) /\ <<Blank>> \in Seq(Lines)
      BY <1>1, <2>2, LineTypes
    <3>. QED
      BY <2>2, <3>1
  <2>. QED
    BY <2>1, <2>2
<1>. QED
  BY <1>3, <1>4 DEF SavedEntry

LEMMA GetAllValuesType ==
  ASSUME IniTypeOK, NEW s, NEW k
  PROVE  GetAllValues(s, k) \in Seq(KeyEntries)
<1>1. Ordered(SameKey(s, k)) /\ SameKey(s, k) \subseteq KeyEntries
  BY EntriesOrdered
<1>2. Sorted(SameKey(s, k)) \in Seq(KeyEntries)
  BY <1>1, SortedIsSorted
<1>. QED
  BY <1>2 DEF GetAllValues

LEMMA SavedKeysType ==
  ASSUME IniTypeOK, NEW s
  PROVE  SavedKeys(s) \in Seq(Lines)
<1>. DEFINE values(k) == FlattenSeq([j \in 1..Len(GetAllValues(s, k)) |-> SavedEntry(GetAllValues(s, k)[j])])
            n == Cardinality(GetAllKeys(s))
            all == [i \in 1..n |-> values(Sorted(GetAllKeys(s))[i].pItem.text)]
<1>1. ASSUME NEW k PROVE values(k) \in Seq(Lines)
  <2>. DEFINE entries == GetAllValues(s, k)
              saved == [j \in 1..Len(entries) |-> SavedEntry(entries[j])]
  <2>1. entries \in Seq(KeyEntries)
    BY GetAllValuesType
  <2>. HIDE DEF entries
  <2>2. saved \in Seq(Seq(Lines))
    BY <2>1, SavedEntryType
  <2>3. FlattenSeq(saved) \in Seq(Lines)
    BY <2>2, FlattenSeqType
  <2>. QED
    BY <2>3 DEF entries
<1>2. n \in Nat
  BY EntriesOrdered, FS_CardinalityType DEF Ordered
<1>. HIDE DEF values, n
<1>3. all \in Seq(Seq(Lines))
  BY <1>1, <1>2
<1>4. FlattenSeq(all) \in Seq(Lines)
  BY <1>3, FlattenSeqType
<1>. QED
  BY <1>4 DEF SavedKeys, values, n

LEMMA SavedHeaderType ==
  ASSUME NEW name \in Titles
  PROVE  SavedHeader(name) \in Seq(Lines)
<1>1. name.first \in STRING /\ name.rest \in Seq(Lines)
  BY DEF Titles
<1>2. Header(name.first) \in Lines /\ Unterminated(name.first) \in Lines
  BY <1>1, LineTypes
<1>3. <<Header(name.first)>> \in Seq(Lines) /\ <<Unterminated(name.first)>> \in Seq(Lines)
  BY <1>2, LinesJoined
<1>4. CASE name = Title("")
  <2>1. SavedHeader(name) = <<>>
    BY <1>4 DEF SavedHeader
  <2>. QED
    BY <2>1
<1>6. CASE name # Title("") /\ name.rest = <<>>
  BY <1>3, <1>6 DEF SavedHeader
<1>5. CASE name # Title("") /\ name.rest # <<>>
  <2>1. Last(name.rest) \in Lines /\ Front(name.rest) \in Seq(Lines)
    <3>1. \A data \in Seq(Lines) : data # <<>> =>
            data[Len(data)] \in Lines /\ SubSeq(data, 1, Len(data) - 1) \in Seq(Lines)
      OBVIOUS
    <3>. QED
      BY <1>1, <1>5, <3>1 DEF Last, Front
  <2>2. <<Closed(Last(name.rest))>> \in Seq(Lines)
    BY <2>1, LineTypes, LinesJoined
  <2>3. <<Unterminated(name.first)>> \o Front(name.rest) \o <<Closed(Last(name.rest))>> \in Seq(Lines)
    BY <1>3, <2>1, <2>2, LinesJoined
  <2>. QED
    BY <1>5, <2>3 DEF SavedHeader
<1>. QED
  BY <1>4, <1>5, <1>6

LEMMA SavedTextType ==
  ASSUME IniTypeOK
  PROVE  SavedText \in Seq(Lines)
<1>. DEFINE saved(section, i) ==
              (IF i > 1 \/ m_pFileComment # NULL THEN <<Blank, Blank>> ELSE <<>>)
              \o SavedComment(section.pComment)
              \o SavedHeader(section.pItem.text)
              \o SavedKeys(section.pItem.text)
            all == [i \in 1..Len(GetAllSections) |-> saved(GetAllSections[i], i)]
<1>1. \A c \in Comments : SavedComment(c) \in Seq(Lines)
  BY DEF Comments, SavedComment
<1>2. ASSUME NEW section \in SectionEntries, NEW i PROVE saved(section, i) \in Seq(Lines)
  <2>1. section.pComment \in Comments /\ section.pItem.text \in Titles
    BY DEF SectionEntries, SectionNames
  <2>2. (IF i > 1 \/ m_pFileComment # NULL THEN <<Blank, Blank>> ELSE <<>>) \in Seq(Lines)
    BY LineTypes
  <2>3. SavedHeader(section.pItem.text) \in Seq(Lines)
    BY <2>1, SavedHeaderType
  <2>4. SavedComment(section.pComment) \in Seq(Lines) /\ SavedKeys(section.pItem.text) \in Seq(Lines)
    BY <1>1, <2>1, SavedKeysType
  <2>. QED
    BY <2>2, <2>3, <2>4, LinesJoined
<1>3. GetAllSections \in Seq(SectionEntries)
  BY SectionsOrdered
<1>. HIDE DEF saved
<1>4. all \in Seq(Seq(Lines))
  BY <1>2, <1>3
<1>5. FlattenSeq(all) \in Seq(Lines)
  BY <1>4, FlattenSeqType
<1>6. SavedComment(m_pFileComment) \in Seq(Lines)
  BY <1>1 DEF IniTypeOK
<1>7. SavedText = SavedComment(m_pFileComment) \o FlattenSeq(all)
  BY DEF SavedText, saved
<1>. QED
  BY <1>5, <1>6, <1>7

-----------------------------------------------------------------------------
(* Every step keeps the types *)

LEMMA TypesNext ==
  ASSUME file' \in Seq(Lines),
         m_bAllowMultiKey' \in BOOLEAN, m_bAllowMultiLine' \in BOOLEAN,
         m_pFileComment' \in Comments, load' \in Loads \cup {NULL},
         TableOK(m_data', m_nOrder')
  PROVE  IniTypeOK'
<1>1. /\ m_nOrder' \in Nat
      /\ m_data' \in [DOMAIN m_data' -> SectionEntries] /\ IsFiniteSet(DOMAIN m_data')
      /\ \A s \in DOMAIN m_data' :
           /\ m_data'[s].pItem.text = s /\ m_data'[s].nOrder \in 1..m_nOrder'
           /\ \A t \in DOMAIN m_data' : m_data'[s].nOrder = m_data'[t].nOrder => s = t
           /\ IsFiniteSet(m_data'[s].keys)
           /\ \A e \in m_data'[s].keys :
                /\ e.nOrder \in 1..m_nOrder'
                /\ \A f \in m_data'[s].keys : e.nOrder = f.nOrder => e = f
  BY DEF TableOK, SectionOK
<1>. QED
  BY <1>1 DEF IniTypeOK

LEMMA PtrTypes ==
  ASSUME NEW at \in Nat
  PROVE  /\ \A w \in STRING : Ptr(w, at) \in Names
         /\ \A t \in Seq(Lines) : Ptr(t, at) \in Comments /\ (t # <<>> => Ptr(t, at) \in Values)
         /\ \A w \in STRING : Ptr(Title(w), at) \in SectionNames
BY DEF Ptr, Names, Comments, Values, Title, Titles, SectionNames

LEMMA ParseTypes ==
  ASSUME IniTypeOK, Parsing
  PROVE  /\ load \in Loads /\ load # NULL /\ load.block \in Nat \ {0} /\ load.data \in Seq(Lines)
         /\ load.pSection \in SectionNames /\ load.pComment \in Comments
         /\ Line \in Lines /\ Len(load.data) \in Nat \ {0} /\ Tail(load.data) \in Seq(Lines)
         /\ \A n \in Nat : AfterLines(n) = [load EXCEPT !.data = From(load.data, n + 1)]
                           /\ From(load.data, n + 1) \in Seq(Lines)
<1>1. load \in Loads /\ load # NULL /\ load.data # <<>>
  BY DEF IniTypeOK, Parsing
<1>2. /\ load.block \in Nat \ {0} /\ load.data \in Seq(Lines)
      /\ load.pSection \in SectionNames /\ load.pComment \in Comments
  BY <1>1 DEF Loads
<1>3. \A data \in Seq(Lines) : data # <<>> =>
        data[1] \in Lines /\ Len(data) \in Nat \ {0} /\ Tail(data) \in Seq(Lines)
  OBVIOUS
<1>4. \A n \in Nat : From(load.data, n + 1) \in Seq(Lines)
  BY <1>2, PartType
<1>. QED
  BY <1>1, <1>2, <1>3, <1>4 DEF Line, AfterLines

LEMMA RunsOnType ==
  ASSUME IniTypeOK, Parsing, NEW lines \in Seq(Lines)
  PROVE  RunsOn(lines) \in SectionNames /\ RunsOn(lines).at = load.pSection.at
<1>. DEFINE section == load.pSection
            rest == section.text.rest
            title == [section.text EXCEPT !.rest = rest \o lines]
            name == [section EXCEPT !.text = title]
<1>1. section \in SectionNames
  BY ParseTypes
<1>. HIDE DEF section
<1>2. section.text \in Titles /\ section.at \in Nat
  BY <1>1 DEF SectionNames
<1>3. section.text.first \in STRING /\ rest \in Seq(Lines)
  BY <1>2 DEF Titles
<1>4. rest \o lines \in Seq(Lines)
  BY <1>3, ConcatProperties
<1>. HIDE DEF rest
<1>5. title \in Titles
  BY <1>2, <1>4 DEF Titles
<1>. HIDE DEF title
<1>6. name \in SectionNames /\ name.at = section.at
  BY <1>1, <1>5 DEF SectionNames
<1>7. RunsOn(lines) = IF load.runsOn THEN name ELSE section
  BY DEF RunsOn, section, rest, title
<1>. HIDE DEF name
<1>. QED
  BY <1>1, <1>6, <1>7 DEF section

LEMMA LoadFileTypes ==
  ASSUME IniInv, LoadFile
  PROVE  IniTypeOK' /\ load' \in Loads
<1>. DEFINE block == NewAllocation(1)
            n == IF m_pFileComment # NULL THEN 0 ELSE CommentLines(file, FALSE)
            comment == Ptr(SubSeq(file, 1, n), block)
<1>1. IniTypeOK /\ file \in Seq(Lines) /\ TableOK(m_data, m_nOrder)
  BY TypeParts DEF IniInv
<1>2. n \in Nat /\ n <= Len(file)
  <2>1. CommentLines(file, FALSE) \in Nat /\ CommentLines(file, FALSE) <= Len(file)
    BY <1>1, CommentLinesBound
  <2>2. 0 <= Len(file) /\ 0 \in Nat
    BY <1>1
  <2>3. CASE m_pFileComment = NULL
    BY <2>1, <2>3
  <2>4. CASE m_pFileComment # NULL
    BY <2>2, <2>4
  <2>. QED
    BY <2>3, <2>4
<1>3. block \in Nat \ {0}
  BY Fresh
<1>4. From(file, n + 1) \in Seq(Lines) /\ SubSeq(file, 1, n) \in Seq(Lines)
  BY <1>1, <1>2, PartType
<1>5. /\ load' = [data |-> From(file, n + 1), pSection |-> Ptr(Title(""), 0), pComment |-> NULL,
                  block |-> block, runsOn |-> FALSE]
      /\ m_pFileComment' = IF n = 0 THEN m_pFileComment
                           ELSE IF Copying THEN CopyString(comment, 2) ELSE comment
      /\ UNCHANGED <<file, m_data, m_nOrder, m_pData, options>>
  BY DEF LoadFile
<1>. HIDE DEF n, block
<1>6. Ptr(Title(""), 0) \in SectionNames
  BY PtrTypes, IniAssumption
<1>7. load' \in Loads
  BY <1>3, <1>4, <1>5, <1>6 DEF Loads, Comments
<1>8. comment \in Comments
  BY <1>3, <1>4, PtrTypes
<1>9. CopyString(comment, 2) \in Comments
  BY <1>8, CopyType
<1>10. m_pFileComment' \in Comments
  BY <1>1, <1>5, <1>8, <1>9 DEF IniTypeOK
<1>11. TableOK(m_data', m_nOrder')
  BY <1>1, <1>5
<1>. QED
  BY <1>1, <1>5, <1>7, <1>10, <1>11, TypesNext DEF IniTypeOK, options

LEMMA GivenTypes ==
  ASSUME IniTypeOK
  PROVE  /\ GivenSections \subseteq SectionNames /\ GivenKeys \subseteq Names
         /\ GivenValues \subseteq Values /\ GivenComments \subseteq Comments
<1>1. \A s \in DOMAIN m_data : m_data[s] \in SectionEntries
  BY DEF IniTypeOK
<1>2. AllEntries \subseteq KeyEntries
  BY <1>1 DEF AllEntries, Entries, SectionEntries
<1>3. GivenSections \subseteq SectionNames
  <2>1. \A s \in Sections : Ptr(Title(s), 0) \in SectionNames
    BY PtrTypes, IniAssumption
  <2>2. \A s \in DOMAIN m_data : m_data[s].pItem \in SectionNames
    BY <1>1 DEF SectionEntries
  <2>. QED
    BY <2>1, <2>2 DEF GivenSections, Own, Or
<1>4. GivenKeys \subseteq Names
  <2>1. \A k \in Keys : Ptr(k, 0) \in Names
    BY PtrTypes, IniAssumption
  <2>2. \A e \in AllEntries : e.pItem \in Names
    BY <1>2 DEF KeyEntries
  <2>. QED
    BY <2>1, <2>2 DEF GivenKeys, Own, Or
<1>5. GivenValues \subseteq Values
  <2>1. SetValues \subseteq Seq(Lines) \ {<<>>}
    BY IniAssumption DEF SetValues
  <2>2. \A v \in SetValues : Ptr(v, 0) \in Values
    BY <2>1, PtrTypes
  <2>3. \A e \in AllEntries : e.value \in Values
    BY <1>2 DEF KeyEntries
  <2>. QED
    BY <2>2, <2>3 DEF GivenValues, Own, Or
<1>6. GivenComments \subseteq Comments
  <2>1. \A setting \in Settings : setting[2] \in {NULL} \cup Seq(Lines)
    BY IniAssumption
  <2>. QED
    BY <2>1, PtrTypes DEF GivenComments, Comments
<1>. QED
  BY <1>3, <1>4, <1>5, <1>6

LEMMA CallTypes ==
  ASSUME IniInv, Call
  PROVE  IniTypeOK'
<1>0. IniTypeOK /\ TableOK(m_data, m_nOrder) /\ m_nOrder \in Nat
  BY TypeParts DEF IniInv, TableOK
<1>1. /\ file \in Seq(Lines) /\ m_pFileComment \in Comments /\ load \in Loads \cup {NULL}
      /\ m_bAllowMultiKey \in BOOLEAN /\ m_bAllowMultiLine \in BOOLEAN
  BY <1>0 DEF IniTypeOK
<1>2. UNCHANGED CallVars /\ TableOK(m_data', m_nOrder') => IniTypeOK'
  BY <1>1, TypesNext DEF CallVars, options
<1>3. ASSUME NEW p \in GivenSections, NEW c \in GivenComments, SetSection(p, c)
      PROVE  IniTypeOK'
  <2>1. p \in SectionNames /\ c \in Comments
    BY <1>0, GivenTypes
  <2>2. AddSection(p, c, TRUE) /\ UNCHANGED CallVars
    BY <1>3 DEF SetSection
  <2>3. TableOK(m_data', m_nOrder')
    BY <2>1, <2>2, AddSectionTypes
  <2>. QED
    BY <1>2, <2>2, <2>3
<1>4. ASSUME NEW p \in GivenSections, NEW c \in GivenComments, NEW k \in GivenKeys, NEW v \in GivenValues,
             NEW force \in BOOLEAN, SetValue(p, k, v, c, force)
      PROVE  IniTypeOK'
  <2>1. p \in SectionNames /\ k \in Names /\ v \in Values /\ c \in Comments
    BY <1>0, GivenTypes
  <2>2. AddEntry(p, k, v, c, force, TRUE) /\ UNCHANGED CallVars
    BY <1>4 DEF SetValue
  <2>3. TableOK(m_data', m_nOrder')
    BY <2>1, <2>2, AddEntryTypes
  <2>. QED
    BY <1>2, <2>2, <2>3
<1>5. ASSUME NEW s \in DOMAIN m_data, NEW k \in Keys, NEW v \in SetValues \cup {NULL},
             NEW removeEmpty \in BOOLEAN, DeleteValue(s, k, v, removeEmpty)
      PROVE  IniTypeOK'
  <2>. DEFINE gone == {e \in SameKey(s, k) : v = NULL \/ e.value.text = v}
              keys == m_data[s].keys \ gone
  <2>1. /\ gone # {} /\ UNCHANGED CallVars /\ m_nOrder' = m_nOrder
        /\ m_data' = Without(s) \/ m_data' = [m_data EXCEPT ![s].keys = keys]
    BY <1>5 DEF DeleteValue
  <2>2. s \in DOMAIN m_data /\ SectionOK(s, m_data[s], m_nOrder)
    BY <1>0, <2>1, SameKeyFirst
  <2>. HIDE DEF gone
  <2>3. [m_data EXCEPT ![s].keys = keys] = WithSection(s, Left(s, keys))
    BY <1>0, <2>2, ExceptKeys DEF Left
  <2>4. keys \in SUBSET m_data[s].keys
    OBVIOUS
  <2>. HIDE DEF keys
  <2>5. TableOK(WithSection(s, Left(s, keys)), m_nOrder)
    BY <1>0, <2>2, <2>4, LeftTable, WithSectionOK
  <2>6. TableOK(m_data', m_nOrder')
    BY <1>0, <2>1, <2>3, <2>5, WithoutOK
  <2>. QED
    BY <1>2, <2>1, <2>6
<1>6. ASSUME NEW s \in DOMAIN m_data, DeleteSection(s) PROVE IniTypeOK'
  <2>1. m_data' = Without(s) /\ m_nOrder' = m_nOrder /\ UNCHANGED CallVars
    BY <1>6 DEF DeleteSection
  <2>. QED
    BY <1>0, <1>2, <2>1, WithoutOK
<1>7. ASSUME NEW b \in BOOLEAN, SetMultiKey(b) PROVE IniTypeOK'
  <2>1. TableOK(m_data', m_nOrder')
    BY <1>0, <1>7 DEF SetMultiKey
  <2>. QED
    BY <1>1, <1>7, <2>1, TypesNext DEF SetMultiKey
<1>8. CASE SaveFile
  <2>1. TableOK(m_data', m_nOrder') /\ file' \in Seq(Lines)
    BY <1>0, <1>8, SavedTextType DEF SaveFile
  <2>. QED
    BY <1>1, <1>8, <2>1, TypesNext DEF SaveFile, options
<1>9. CASE Reset
  <2>1. m_data' = <<>> /\ m_nOrder' = m_nOrder /\ m_pFileComment' \in Comments
    BY <1>9 DEF Reset, Comments
  <2>2. TableOK(m_data', m_nOrder')
    BY <1>0, <2>1, FS_EmptySet DEF TableOK
  <2>. QED
    BY <1>1, <1>9, <2>1, <2>2, TypesNext DEF Reset, options
<1>. QED
  BY <1>3, <1>4, <1>5, <1>6, <1>7, <1>8, <1>9 DEF Call

-----------------------------------------------------------------------------
(* Who points where *)

UsesOf(fileComment, data) ==
  Uses(Title(""), 0, "file comment", fileComment)
  \cup UNION {SectionUses(s, data[s]) : s \in DOMAIN data}

HeadUses(s, section) ==
  Uses(s, 0, "item", section.pItem) \cup Uses(s, 0, "comment", section.pComment)
KeysUses(s, keys) == UNION {EntryUses(s, e) : e \in keys}

LEMMA UsesParts ==
  ASSUME NEW s, NEW n, NEW field, NEW p
  PROVE  /\ \A u \in Uses(s, n, field, p) :
              u = <<s, n, field, u[4]>> /\ u[1] = s /\ u[2] = n /\ u[3] = field /\ u[4] \in At(p)
         /\ \A at \in At(p) : \E u \in Uses(s, n, field, p) : u[4] = at
<1>1. ASSUME NEW u \in Uses(s, n, field, p)
      PROVE  u = <<s, n, field, u[4]>> /\ u[1] = s /\ u[2] = n /\ u[3] = field /\ u[4] \in At(p)
  <2>1. PICK at \in At(p) : u = <<s, n, field, at>>
    BY DEF Uses
  <2>. QED
    BY <2>1
<1>2. ASSUME NEW at \in At(p) PROVE \E u \in Uses(s, n, field, p) : u[4] = at
  <2>1. <<s, n, field, at>> \in Uses(s, n, field, p)
    BY DEF Uses
  <2>. QED
    BY <2>1
<1>. QED
  BY <1>1, <1>2

LEMMA EntryUsesParts ==
  ASSUME NEW s, NEW e
  PROVE  \A u \in EntryUses(s, e) :
           /\ u[1] = s /\ u[2] = e.nOrder /\ u[3] \in {"item", "comment", "value"}
           /\ u[4] \in At(e.pItem) \cup At(e.pComment) \cup At(e.value)
BY UsesParts DEF EntryUses

LEMMA HeadUsesParts ==
  ASSUME NEW s, NEW section
  PROVE  \A u \in HeadUses(s, section) :
           /\ u[1] = s /\ u[2] = 0 /\ u[3] \in {"item", "comment"}
           /\ u[4] \in At(section.pItem) \cup At(section.pComment)
BY UsesParts DEF HeadUses

LEMMA SectionUsesParts ==
  ASSUME NEW s, NEW section
  PROVE  /\ SectionUses(s, section) = HeadUses(s, section) \cup KeysUses(s, section.keys)
         /\ \A u \in SectionUses(s, section) : u[1] = s /\ u[3] # "file comment"
<1>1. SectionUses(s, section) = HeadUses(s, section) \cup KeysUses(s, section.keys)
  BY DEF SectionUses, HeadUses, KeysUses
<1>2. \A u \in KeysUses(s, section.keys) : u[1] = s /\ u[3] # "file comment"
  <2>1. ASSUME NEW e \in section.keys, NEW u \in EntryUses(s, e)
        PROVE  u[1] = s /\ u[3] # "file comment"
    BY EntryUsesParts
  <2>. QED
    BY <2>1 DEF KeysUses
<1>. QED
  BY <1>1, <1>2, HeadUsesParts

LEMMA SectionUsesAre ==
  ASSUME NEW s, NEW section
  PROVE  \A u \in SectionUses(s, section) : u[1] = s /\ u[3] # "file comment"
BY SectionUsesParts

LEMMA InUseParts ==
  /\ InUse = UsesOf(m_pFileComment, m_data)
  /\ InUse' = UsesOf(m_pFileComment', m_data')
BY DEF InUse, UsesOf

\* the uses of the rest of the table
LEMMA RestUses ==
  ASSUME NEW fc, NEW s
  PROVE  /\ \A u \in UsesOf(fc, Without(s)) : u[1] # s \/ u[3] = "file comment"
         /\ \A section : UsesOf(fc, WithSection(s, section))
                           = UsesOf(fc, Without(s)) \cup SectionUses(s, section)
         /\ s \in DOMAIN m_data =>
              UsesOf(fc, m_data) = UsesOf(fc, Without(s)) \cup SectionUses(s, m_data[s])
         /\ s \notin DOMAIN m_data => UsesOf(fc, m_data) = UsesOf(fc, Without(s))
<1>1. DOMAIN Without(s) = DOMAIN m_data \ {s} /\ \A t \in DOMAIN m_data \ {s} : Without(s)[t] = m_data[t]
  BY DEF Without
<1>2. ASSUME NEW u \in UsesOf(fc, Without(s)) PROVE u[1] # s \/ u[3] = "file comment"
  <2>1. CASE u \in Uses(Title(""), 0, "file comment", fc)
    <3>1. PICK at \in At(fc) : u = <<Title(""), 0, "file comment", at>>
      BY <2>1 DEF Uses
    <3>. QED
      BY <3>1
  <2>2. CASE \E t \in DOMAIN Without(s) : u \in SectionUses(t, Without(s)[t])
    BY <1>1, <2>2, SectionUsesParts
  <2>. QED
    BY <2>1, <2>2 DEF UsesOf
<1>3. ASSUME NEW section
      PROVE  UsesOf(fc, WithSection(s, section)) = UsesOf(fc, Without(s)) \cup SectionUses(s, section)
  <2>1. /\ DOMAIN WithSection(s, section) = DOMAIN Without(s) \cup {s}
        /\ WithSection(s, section)[s] = section
        /\ \A t \in DOMAIN Without(s) : WithSection(s, section)[t] = Without(s)[t]
    BY <1>1 DEF WithSection
  <2>. QED
    BY <2>1 DEF UsesOf
<1>4. ASSUME s \in DOMAIN m_data
      PROVE  UsesOf(fc, m_data) = UsesOf(fc, Without(s)) \cup SectionUses(s, m_data[s])
  <2>1. DOMAIN m_data = DOMAIN Without(s) \cup {s}
    BY <1>1, <1>4
  <2>2. \A t \in DOMAIN Without(s) : m_data[t] = Without(s)[t]
    BY <1>1
  <2>. QED
    BY <2>1, <2>2 DEF UsesOf
<1>5. ASSUME s \notin DOMAIN m_data PROVE UsesOf(fc, m_data) = UsesOf(fc, Without(s))
  <2>1. DOMAIN m_data = DOMAIN Without(s)
    BY <1>1, <1>5
  <2>2. \A t \in DOMAIN Without(s) : m_data[t] = Without(s)[t]
    BY <1>1
  <2>. QED
    BY <2>1, <2>2 DEF UsesOf
<1>. QED
  BY <1>2, <1>3, <1>4, <1>5

\* the uses of a section whose keys are others
LEMMA OtherKeysUses ==
  ASSUME NEW s, NEW section \in SectionEntries, NEW keys
  PROVE  SectionUses(s, [section EXCEPT !.keys = keys]) = HeadUses(s, section) \cup KeysUses(s, keys)
<1>. DEFINE new == [section EXCEPT !.keys = keys]
<1>1. new.pItem = section.pItem /\ new.pComment = section.pComment /\ new.keys = keys
  BY DEF SectionEntries
<1>. HIDE DEF new
<1>2. HeadUses(s, new) = HeadUses(s, section)
  BY <1>1 DEF HeadUses
<1>3. SectionUses(s, new) = HeadUses(s, new) \cup KeysUses(s, new.keys)
  BY SectionUsesParts
<1>. QED
  BY <1>1, <1>2, <1>3 DEF new

-----------------------------------------------------------------------------
(* What is pointed to is allocated *)

Owned(uses, strings, blocks) ==
  \A u \in uses :
    /\ u[4] \in strings \cup blocks \cup {0}
    /\ \A w \in uses : u # w /\ u[4] \in strings => u[4] # w[4]

Blocks == {m_pData} \cup (IF load = NULL THEN {} ELSE {load.block})

LEMMA LiveParts == StringsLive <=> Owned(InUse, m_strings, Blocks)
BY DEF StringsLive, Owned, Blocks

LEMMA LivePartsNext == Owned(InUse', m_strings', Blocks') => StringsLive'
BY DEF StringsLive, Owned, Blocks

\* Uses go with some of the strings they point to; others come, which point to
\* new strings, each to its own, or into blocks.
LEMMA OwnedStep ==
  ASSUME NEW old, NEW strings, NEW blocks, Owned(old, strings, blocks),
         \A a \in blocks \cup {0} : a \notin strings,
         NEW gone, gone \subseteq old,
         NEW freed, \A a \in freed : \E g \in gone : a = g[4],
         NEW new, \A a \in new : a \notin strings \cup blocks \cup {0} /\ \A u \in old : u[4] # a,
         NEW added, \A u \in added : u[4] \in new \cup blocks \cup {0},
         \A u, w \in added : u # w /\ u[4] \in new => u[4] # w[4],
         NEW uses, uses \subseteq (old \ gone) \cup added
  PROVE  Owned(uses, (strings \ freed) \cup new, blocks)
<1>1. ASSUME NEW u \in old \ gone
      PROVE  u[4] \in (strings \ freed) \cup blocks \cup {0} /\ u[4] \notin new
  BY DEF Owned
<1>2. ASSUME NEW u \in uses PROVE u[4] \in (strings \ freed) \cup new \cup blocks \cup {0}
  BY <1>1
<1>3. ASSUME NEW u \in uses, NEW w \in uses, u # w, u[4] \in (strings \ freed) \cup new
      PROVE  u[4] # w[4]
  <2>1. CASE u \in old \ gone /\ w \in old \ gone
    BY <1>1, <1>3, <2>1 DEF Owned
  <2>2. CASE u \in old \ gone /\ w \in added
    BY <1>1, <1>3, <2>2
  <2>3. CASE u \in added /\ w \in old \ gone
    BY <1>1, <1>3, <2>3
  <2>4. CASE u \in added /\ w \in added
    BY <1>3, <2>4
  <2>. QED
    BY <2>1, <2>2, <2>3, <2>4
<1>. QED
  BY <1>2, <1>3 DEF Owned

\* What a change of the table leaves true; a copying one points into no block
\* that is being loaded.
Safe(copy) ==
  /\ Owned(InUse', m_strings', Blocks)
  /\ m_strings' \subseteq Nat \ {0} /\ IsFiniteSet(m_strings')
  /\ \A a \in Blocks : a \notin m_strings'
  /\ load # NULL /\ copy /\ (\A u \in InUse : u[4] # load.block) =>
       \A u \in InUse' : u[4] # load.block

NewOnes == {NewAllocation(n) : n \in 1..5}

\* where what a call is given may be
Given == {0} \cup (IF load = NULL THEN {} ELSE {load.block})

LEMMA NewOnesFinite ==
  ASSUME NEW new, new \subseteq NewOnes
  PROVE  IsFiniteSet(new)
<1>. DEFINE f == [n \in 1..5 |-> NewAllocation(n)]
<1>1. f \in Surjection(1..5, NewOnes)
  BY DEF NewOnes, Surjection
<1>2. IsFiniteSet(1..5)
  BY Interval
<1>. HIDE DEF f
<1>3. IsFiniteSet(NewOnes)
  BY <1>1, <1>2, FS_Surjection
<1>. QED
  BY <1>3, FS_Subset

LEMMA SafeStep ==
  ASSUME IniInv, NEW copy \in BOOLEAN,
         NEW gone, gone \subseteq InUse,
         NEW freed, \A a \in freed : \E g \in gone : a = g[4],
         NEW new, new \subseteq NewOnes,
         NEW added, \A u \in added : u[4] \in IF copy THEN new ELSE Given,
         copy => \A u, w \in added : u # w => u[4] # w[4],
         InUse' \subseteq (InUse \ gone) \cup added,
         m_strings' = (m_strings \ freed) \cup new
  PROVE  Safe(copy)
<1>1. /\ Owned(InUse, m_strings, Blocks)
      /\ m_strings \subseteq Nat \ {0} /\ IsFiniteSet(m_strings)
      /\ \A a \in Blocks \cup {0} : a \notin m_strings
  BY LiveParts DEF IniInv, StringsOK, LoadOK, Blocks
<1>2. ASSUME NEW a \in new
      PROVE  /\ a \in Nat \ {0} /\ a \notin m_strings \cup Blocks \cup {0}
             /\ (load # NULL => a # load.block) /\ \A u \in InUse : u[4] # a
  <2>1. PICK n \in 1..5 : a = NewAllocation(n)
    BY DEF NewOnes
  <2>2. n \in Nat \ {0}
    OBVIOUS
  <2>. QED
    BY <2>1, <2>2, Fresh DEF Blocks
<1>3. Given \subseteq Blocks \cup {0}
  BY DEF Given, Blocks
<1>4. ASSUME NEW u \in added PROVE u[4] \in new \cup Blocks \cup {0}
  BY <1>3
<1>5. ASSUME NEW u \in added, NEW w \in added, u # w, u[4] \in new PROVE u[4] # w[4]
  <2>1. CASE copy
    BY <1>5, <2>1
  <2>2. CASE ~copy
    BY <1>2, <1>3, <1>5, <2>2
  <2>. QED
    BY <2>1, <2>2
<1>6. Owned(InUse', (m_strings \ freed) \cup new, Blocks)
  BY <1>1, <1>2, <1>4, <1>5, OwnedStep
<1>7. IsFiniteSet((m_strings \ freed) \cup new)
  <2>1. IsFiniteSet(m_strings \ freed)
    BY <1>1, FS_Difference
  <2>. QED
    BY <2>1, NewOnesFinite, FS_Union
<1>8. ASSUME load # NULL, copy, \A u \in InUse : u[4] # load.block, NEW u \in InUse'
      PROVE  u[4] # load.block
  BY <1>2, <1>8
<1>. QED
  BY <1>1, <1>2, <1>6, <1>7, <1>8 DEF Safe

-----------------------------------------------------------------------------
(* Every change of the table is safe *)

\* a pointer as a call stores it: a copy at a new place, or as it is given
Stored(p, n, copy) == IF copy THEN CopyString(p, n) ELSE p

LEMMA StoredAt ==
  ASSUME IniInv, NEW p, NEW n \in 1..5, NEW copy \in BOOLEAN, copy \/ At(p) \subseteq Given
  PROVE  /\ At(Stored(p, n, copy)) \subseteq IF copy THEN {NewAllocation(n)} ELSE Given
         /\ {NewAllocation(n)} \subseteq NewOnes
<1>1. At(CopyString(p, n)) \subseteq {NewAllocation(n)}
  BY CopyType
<1>. QED
  BY <1>1 DEF Stored, NewOnes

LEMMA NewDiffer ==
  ASSUME IniInv
  PROVE  \A n, m \in 1..5 : n # m => NewAllocation(n) # NewAllocation(m)
<1>1. ASSUME NEW n \in 1..5, NEW m \in 1..5, n # m PROVE NewAllocation(n) # NewAllocation(m)
  <2>1. n \in Nat \ {0} /\ m \in Nat \ {0}
    OBVIOUS
  <2>. QED
    BY <1>1, <2>1, Fresh
<1>. QED
  BY <1>1

LEMMA AddSectionSafe ==
  ASSUME IniInv, NEW p \in SectionNames, NEW c \in Comments, NEW copy \in BOOLEAN,
         copy \/ At(p) \cup At(c) \subseteq Given,
         AddSection(p, c, copy), m_pFileComment' = m_pFileComment
  PROVE  Safe(copy)
<1>. DEFINE s == p.text
            comment == Stored(c, 1, copy)
            item == Stored(p, 2, copy)
            section == SectionFor(p, comment, copy)
            added == IF s \in DOMAIN m_data THEN {}
                     ELSE Uses(s, 0, "item", item) \cup Uses(s, 0, "comment", comment)
            new == Copies(p, comment, copy)
            none == {}
<1>1. /\ m_data' = WithSection(s, section)
      /\ m_strings' = m_strings \cup new
  BY DEF AddSection, Stored
<1>2. /\ At(comment) \subseteq IF copy THEN {NewAllocation(1)} ELSE Given
      /\ At(item) \subseteq IF copy THEN {NewAllocation(2)} ELSE Given
      /\ {NewAllocation(1), NewAllocation(2)} \subseteq NewOnes
  <2>1. /\ copy \/ At(p) \subseteq Given
        /\ copy \/ At(c) \subseteq Given
        /\ 1 \in 1..5 /\ 2 \in 1..5
    OBVIOUS
  <2>2. /\ At(comment) \subseteq IF copy THEN {NewAllocation(1)} ELSE Given
        /\ {NewAllocation(1)} \subseteq NewOnes
    BY <2>1, StoredAt
  <2>3. /\ At(item) \subseteq IF copy THEN {NewAllocation(2)} ELSE Given
        /\ {NewAllocation(2)} \subseteq NewOnes
    BY <2>1, StoredAt
  <2>. QED
    BY <2>2, <2>3
<1>3. new = IF copy THEN At(comment) \cup (IF s \in DOMAIN m_data THEN {} ELSE At(item)) ELSE {}
  BY DEF Copies, Stored
<1>4. new \subseteq NewOnes
  BY <1>2, <1>3
<1>5. InUse' \subseteq InUse \cup added
  <2>1. InUse' = UsesOf(m_pFileComment, Without(s)) \cup SectionUses(s, section)
    <3>. HIDE DEF section, s
    <3>1. InUse' = UsesOf(m_pFileComment, WithSection(s, section))
      BY <1>1, InUseParts
    <3>. QED
      BY <3>1, RestUses
  <2>2. CASE s \in DOMAIN m_data
    <3>1. section = m_data[s]
      BY <2>2 DEF SectionFor
    <3>. QED
      BY <2>1, <2>2, <3>1, InUseParts, RestUses
  <2>3. CASE s \notin DOMAIN m_data
    <3>1. section.pItem = item /\ section.pComment = comment /\ section.keys = {}
      BY <2>3 DEF SectionFor, Stored
    <3>2. SectionUses(s, section) = added
      BY <2>3, <3>1 DEF SectionUses
    <3>. QED
      BY <2>1, <2>3, <3>2, InUseParts, RestUses
  <2>. QED
    BY <2>2, <2>3
<1>6. ASSUME NEW u \in added PROVE u[4] \in IF copy THEN new ELSE Given
  <2>1. s \notin DOMAIN m_data
    BY <1>6
  <2>2. u[4] \in At(item) \cup At(comment)
    <3>1. /\ \A v \in Uses(s, 0, "item", item) : v[4] \in At(item)
          /\ \A v \in Uses(s, 0, "comment", comment) : v[4] \in At(comment)
      BY DEF Uses
    <3>. QED
      BY <2>1, <3>1
  <2>. QED
    BY <1>2, <1>3, <2>1, <2>2
<1>7. ASSUME copy PROVE \A u, w \in added : u # w => u[4] # w[4]
  <2>1. NewAllocation(1) # NewAllocation(2)
    BY NewDiffer
  <2>2. added \subseteq Uses(s, 0, "comment", comment) \cup Uses(s, 0, "item", item)
    OBVIOUS
  <2>3. At(comment) \subseteq {NewAllocation(1)} /\ At(item) \subseteq {NewAllocation(2)}
    BY <1>2, <1>7
  <2>. DEFINE a1 == NewAllocation(1)
              a2 == NewAllocation(2)
  <2>4. /\ \A u \in Uses(s, 0, "comment", comment) : u = <<s, 0, "comment", a1>> /\ u[4] = a1
        /\ \A u \in Uses(s, 0, "item", item) : u = <<s, 0, "item", a2>> /\ u[4] = a2
    BY <2>3 DEF Uses
  <2>. HIDE DEF added, comment, item, a1, a2
  <2>. QED
    BY <2>1, <2>2, <2>4 DEF a1, a2
<1>. HIDE DEF added, new, comment, item, section, none, s
<1>8. InUse' \subseteq (InUse \ none) \cup added /\ m_strings' = (m_strings \ none) \cup new
      /\ none \subseteq InUse /\ \A a \in none : \E g \in none : a = g[4]
  BY <1>1, <1>5 DEF none
<1>. QED
  BY <1>4, <1>6, <1>7, <1>8, SafeStep

\* an entry whose strings are each at a place of its own
Apart(e, a1, a3, a4) ==
  /\ a1 # a3 /\ a1 # a4 /\ a3 # a4
  /\ At(e.pComment) \subseteq {a1} /\ At(e.pItem) \subseteq {a3} /\ At(e.value) \subseteq {a4}

LEMMA EntryDiffer ==
  ASSUME NEW s, NEW e, NEW a1, NEW a3, NEW a4, Apart(e, a1, a3, a4)
  PROVE  /\ \A u \in EntryUses(s, e) : u[4] \in {a1, a3, a4}
         /\ \A u, w \in EntryUses(s, e) : u # w => u[4] # w[4]
<1>. DEFINE t1 == <<s, e.nOrder, "comment", a1>>
            t3 == <<s, e.nOrder, "item", a3>>
            t4 == <<s, e.nOrder, "value", a4>>
            uses == EntryUses(s, e)
<1>1. \A u \in Uses(s, e.nOrder, "comment", e.pComment) : u = t1 /\ u[4] = a1
  BY DEF Uses, Apart
<1>2. \A u \in Uses(s, e.nOrder, "item", e.pItem) : u = t3 /\ u[4] = a3
  BY DEF Uses, Apart
<1>3. \A u \in Uses(s, e.nOrder, "value", e.value) : u = t4 /\ u[4] = a4
  BY DEF Uses, Apart
<1>4. \A u \in uses : \/ u = t1 /\ u[4] = a1
                      \/ u = t3 /\ u[4] = a3
                      \/ u = t4 /\ u[4] = a4
  BY <1>1, <1>2, <1>3 DEF EntryUses
<1>. HIDE DEF t1, t3, t4, uses
<1>5. /\ \A u \in uses : u[4] \in {a1, a3, a4}
      /\ \A u, w \in uses : u # w => u[4] # w[4]
  BY <1>4 DEF Apart
<1>. QED
  BY <1>5 DEF uses

LEMMA InsertKeySafe ==
  ASSUME IniInv, NEW p \in SectionNames, NEW k \in Names, NEW v \in Values, NEW c \in Comments,
         NEW force \in BOOLEAN, NEW copy \in BOOLEAN,
         copy \/ At(p) \cup At(k) \cup At(v) \cup At(c) \subseteq Given,
         InsertKey(p, k, v, c, force, copy), m_pFileComment' = m_pFileComment
  PROVE  Safe(copy)
<1>. DEFINE s == p.text
            comment == Stored(c, 1, copy)
            item == Stored(p, 2, copy)
            key == Stored(k, 3, copy)
            value == Stored(v, 4, copy)
            section == SectionFor(p, NULL, copy)
            entry == [pItem |-> key, pComment |-> comment, value |-> value,
                      nOrder |-> OrderAfter(p) + 1]
            head == IF s \in DOMAIN m_data THEN {} ELSE Uses(s, 0, "item", item)
            added == head \cup EntryUses(s, entry)
            new == Copies(p, comment, copy) \cup (IF copy THEN At(key) \cup At(value) ELSE {})
            none == {}
<1>1. /\ m_data' = WithSection(s, [section EXCEPT !.keys = section.keys \cup {entry}])
      /\ m_strings' = m_strings \cup new
  BY DEF InsertKey, Stored
<1>2. /\ At(comment) \subseteq IF copy THEN {NewAllocation(1)} ELSE Given
      /\ At(item) \subseteq IF copy THEN {NewAllocation(2)} ELSE Given
      /\ At(key) \subseteq IF copy THEN {NewAllocation(3)} ELSE Given
      /\ At(value) \subseteq IF copy THEN {NewAllocation(4)} ELSE Given
      /\ {NewAllocation(1), NewAllocation(2), NewAllocation(3), NewAllocation(4)} \subseteq NewOnes
  <2>1. /\ copy \/ At(p) \subseteq Given
        /\ copy \/ At(c) \subseteq Given
        /\ copy \/ At(k) \subseteq Given
        /\ copy \/ At(v) \subseteq Given
        /\ 1 \in 1..5 /\ 2 \in 1..5 /\ 3 \in 1..5 /\ 4 \in 1..5
    OBVIOUS
  <2>2. /\ At(comment) \subseteq IF copy THEN {NewAllocation(1)} ELSE Given
        /\ {NewAllocation(1)} \subseteq NewOnes
    BY <2>1, StoredAt
  <2>3. /\ At(item) \subseteq IF copy THEN {NewAllocation(2)} ELSE Given
        /\ {NewAllocation(2)} \subseteq NewOnes
    BY <2>1, StoredAt
  <2>4. /\ At(key) \subseteq IF copy THEN {NewAllocation(3)} ELSE Given
        /\ {NewAllocation(3)} \subseteq NewOnes
    BY <2>1, StoredAt
  <2>5. /\ At(value) \subseteq IF copy THEN {NewAllocation(4)} ELSE Given
        /\ {NewAllocation(4)} \subseteq NewOnes
    BY <2>1, StoredAt
  <2>. HIDE DEF comment, item, key, value
  <2>. QED
    BY <2>2, <2>3, <2>4, <2>5
<1>3. new = IF copy THEN At(comment) \cup (IF s \in DOMAIN m_data THEN {} ELSE At(item))
                         \cup At(key) \cup At(value) ELSE {}
  BY DEF Copies, Stored
<1>4. new \subseteq NewOnes
  <2>. HIDE DEF comment, item, key, value, new
  <2>. QED
    BY <1>2, <1>3
<1>5. InUse' \subseteq InUse \cup added
  <2>1. section \in SectionEntries
    BY SectionForOK DEF Comments, SectionOK
  <2>2. InUse' = UsesOf(m_pFileComment, Without(s)) \cup HeadUses(s, section)
                 \cup KeysUses(s, section.keys \cup {entry})
    <3>. HIDE DEF section, s, entry
    <3>1. InUse' = UsesOf(m_pFileComment, WithSection(s, [section EXCEPT !.keys = section.keys \cup {entry}]))
      BY <1>1, InUseParts
    <3>2. SectionUses(s, [section EXCEPT !.keys = section.keys \cup {entry}])
            = HeadUses(s, section) \cup KeysUses(s, section.keys \cup {entry})
      BY <2>1, OtherKeysUses
    <3>. DEFINE changed == [section EXCEPT !.keys = section.keys \cup {entry}]
    <3>. HIDE DEF changed
    <3>3. UsesOf(m_pFileComment, WithSection(s, changed))
            = UsesOf(m_pFileComment, Without(s)) \cup SectionUses(s, changed)
      BY RestUses
    <3>. QED
      BY <3>1, <3>2, <3>3 DEF changed
  <2>3. KeysUses(s, section.keys \cup {entry}) = KeysUses(s, section.keys) \cup EntryUses(s, entry)
    <3>. HIDE DEF section, s, entry
    <3>. QED
      BY DEF KeysUses
  <2>4. CASE s \in DOMAIN m_data
    <3>1. section = m_data[s]
      BY <2>4 DEF SectionFor
    <3>2. UsesOf(m_pFileComment, m_data) = UsesOf(m_pFileComment, Without(s)) \cup SectionUses(s, m_data[s])
      BY <2>4, RestUses
    <3>. HIDE DEF section, s, entry
    <3>4. SectionUses(s, section) = HeadUses(s, section) \cup KeysUses(s, section.keys)
      BY SectionUsesParts
    <3>3. SectionUses(s, m_data[s]) = HeadUses(s, section) \cup KeysUses(s, section.keys)
      BY <3>1, <3>4
    <3>. QED
      BY <2>2, <2>3, <3>2, <3>3, InUseParts
  <2>5. CASE s \notin DOMAIN m_data
    <3>1. section.pItem = item /\ section.pComment = NULL /\ section.keys = {}
      BY <2>5 DEF SectionFor, Stored
    <3>2. HeadUses(s, section) = head
      BY <2>5, <3>1 DEF HeadUses, Uses, At
    <3>3. KeysUses(s, section.keys) = {}
      BY <3>1 DEF KeysUses
    <3>4. UsesOf(m_pFileComment, m_data) = UsesOf(m_pFileComment, Without(s))
      BY <2>5, RestUses
    <3>. HIDE DEF section, s, entry, head
    <3>. QED
      BY <2>2, <2>3, <3>2, <3>3, <3>4, InUseParts
  <2>. QED
    BY <2>4, <2>5
<1>6. /\ entry.pItem = key /\ entry.pComment = comment /\ entry.value = value
      /\ \A u \in head : s \notin DOMAIN m_data /\ u = <<s, 0, "item", u[4]>> /\ u[4] \in At(item)
  BY DEF Uses
<1>. HIDE DEF comment, item, key, value, section, entry, head, new, s
<1>7. ASSUME NEW u \in added PROVE u[4] \in IF copy THEN new ELSE Given
  <2>1. CASE u \in head
    BY <1>2, <1>3, <1>6, <2>1
  <2>2. CASE u \in EntryUses(s, entry)
    <3>1. u[4] \in At(key) \cup At(comment) \cup At(value)
      BY <1>6, <2>2, EntryUsesParts
    <3>. QED
      BY <1>2, <1>3, <3>1
  <2>. QED
    BY <2>1, <2>2
<1>8. ASSUME copy PROVE \A u, w \in added : u # w => u[4] # w[4]
  <2>. DEFINE a1 == NewAllocation(1)
              a2 == NewAllocation(2)
              a3 == NewAllocation(3)
              a4 == NewAllocation(4)
  <2>1. a1 # a2 /\ a1 # a3 /\ a1 # a4 /\ a2 # a3 /\ a2 # a4 /\ a3 # a4
    BY NewDiffer
  <2>2. At(comment) \subseteq {a1} /\ At(item) \subseteq {a2} /\ At(key) \subseteq {a3} /\ At(value) \subseteq {a4}
    BY <1>2, <1>8
  <2>. HIDE DEF a1, a2, a3, a4
  <2>3. \A u, w \in head : u = w /\ u[4] = a2
    BY <1>6, <2>2
  <2>4. Apart(entry, a1, a3, a4)
    BY <1>6, <2>1, <2>2 DEF Apart
  <2>5. /\ \A u \in EntryUses(s, entry) : u[4] \in {a1, a3, a4}
        /\ \A u, w \in EntryUses(s, entry) : u # w => u[4] # w[4]
    BY <2>4, EntryDiffer
  <2>. QED
    BY <2>1, <2>3, <2>5
<1>. HIDE DEF added, none
<1>9. InUse' \subseteq (InUse \ none) \cup added /\ m_strings' = (m_strings \ none) \cup new
      /\ none \subseteq InUse /\ \A a \in none : \E g \in none : a = g[4]
  BY <1>1, <1>5 DEF none
<1>. QED
  BY <1>4, <1>7, <1>8, <1>9, SafeStep

\* some keys of a section go, others come
LEMMA KeysReplaced ==
  ASSUME IniInv, NEW s \in DOMAIN m_data, NEW gone, gone \subseteq m_data[s].keys, NEW more,
         m_data' = [m_data EXCEPT ![s].keys = (@ \ gone) \cup more],
         m_pFileComment' = m_pFileComment
  PROVE  /\ KeysUses(s, gone) \subseteq InUse
         /\ InUse' \subseteq (InUse \ KeysUses(s, gone)) \cup KeysUses(s, more)
<1>. DEFINE section == m_data[s]
            keys == (section.keys \ gone) \cup more
            rest == UsesOf(m_pFileComment, Without(s))
            head == HeadUses(s, section)
<1>1. TableOK(m_data, m_nOrder) /\ SectionOK(s, section, m_nOrder) /\ m_nOrder \in Nat
  BY TypeParts DEF IniInv, TableOK
<1>2. m_data' = WithSection(s, [section EXCEPT !.keys = keys])
  BY <1>1, ExceptKeys
<1>3. section \in SectionEntries
  BY <1>1 DEF SectionOK
<1>. HIDE DEF section, keys
<1>4. InUse' = rest \cup head \cup KeysUses(s, keys)
  <2>. DEFINE new == [section EXCEPT !.keys = keys]
  <2>1. SectionUses(s, new) = head \cup KeysUses(s, keys)
    BY <1>3, OtherKeysUses
  <2>2. InUse' = UsesOf(m_pFileComment, WithSection(s, new))
    BY <1>2, InUseParts
  <2>. HIDE DEF new
  <2>3. UsesOf(m_pFileComment, WithSection(s, new)) = rest \cup SectionUses(s, new)
    BY RestUses
  <2>. QED
    BY <2>1, <2>2, <2>3
<1>5. InUse = rest \cup head \cup KeysUses(s, section.keys)
  <2>1. SectionUses(s, section) = head \cup KeysUses(s, section.keys)
    BY SectionUsesParts
  <2>2. InUse = UsesOf(m_pFileComment, m_data)
    BY InUseParts
  <2>3. UsesOf(m_pFileComment, m_data) = rest \cup SectionUses(s, section)
    BY RestUses DEF section
  <2>. QED
    BY <2>1, <2>2, <2>3
<1>6. KeysUses(s, keys) = KeysUses(s, section.keys \ gone) \cup KeysUses(s, more)
  BY DEF KeysUses, keys
<1>7. KeysUses(s, section.keys \ gone) \cup KeysUses(s, gone) \subseteq KeysUses(s, section.keys)
  BY DEF KeysUses, section
<1>8. ASSUME NEW e \in section.keys, NEW u \in EntryUses(s, e)
      PROVE  /\ u[1] = s /\ u[2] = e.nOrder /\ u[3] # "file comment" /\ e.nOrder \in 1..m_nOrder
             /\ \A f \in section.keys : e.nOrder = f.nOrder => e = f
  <2>1. u[1] = s /\ u[2] = e.nOrder /\ u[3] \in {"item", "comment", "value"}
    BY EntryUsesParts
  <2>. QED
    BY <1>1, <2>1 DEF SectionOK
<1>9. ASSUME NEW u \in KeysUses(s, gone)
      PROVE  u \notin rest /\ u \notin head /\ u \notin KeysUses(s, section.keys \ gone)
  <2>1. PICK e \in gone : u \in EntryUses(s, e)
    BY <1>9 DEF KeysUses
  <2>2. e \in section.keys
    BY DEF section
  <2>3. /\ u[1] = s /\ u[2] = e.nOrder /\ u[3] # "file comment" /\ e.nOrder \in 1..m_nOrder
        /\ \A f \in section.keys : e.nOrder = f.nOrder => e = f
    BY <1>8, <2>1, <2>2
  <2>4. u \notin rest
    BY <2>3, RestUses
  <2>5. u \notin head
    <3>1. \A w \in head : w[2] = 0
      BY HeadUsesParts
    <3>2. e.nOrder \in 1..m_nOrder /\ u[2] = e.nOrder
      BY <2>3
    <3>3. e.nOrder # 0
      BY <1>1, <3>2
    <3>. QED
      BY <3>1, <3>2, <3>3
  <2>6. ASSUME NEW f \in section.keys \ gone PROVE u \notin EntryUses(s, f)
    BY <1>8, <2>1, <2>3
  <2>. QED
    BY <2>4, <2>5, <2>6 DEF KeysUses
<1>. HIDE DEF rest, head
<1>. QED
  BY <1>4, <1>5, <1>6, <1>7, <1>9

LEMMA StringsUsed ==
  ASSUME NEW s, NEW entries
  PROVE  \A a \in StringsOf(entries) : \E g \in KeysUses(s, entries) : a = g[4]
<1>1. ASSUME NEW e \in entries, NEW a \in At(e.pItem) \cup At(e.value)
      PROVE  \E g \in KeysUses(s, entries) : a = g[4]
  <2>1. \E g \in EntryUses(s, e) : a = g[4]
    BY UsesParts DEF EntryUses
  <2>. QED
    BY <2>1 DEF KeysUses
<1>. QED
  BY <1>1 DEF StringsOf

LEMMA UpdateKeySafe ==
  ASSUME IniInv, NEW p \in SectionNames, NEW k \in Names, NEW v \in Values, NEW c \in Comments,
         NEW copy \in BOOLEAN,
         copy \/ At(p) \cup At(k) \cup At(v) \cup At(c) \subseteq Given,
         UpdateKey(p, k, v, c, copy), m_pFileComment' = m_pFileComment
  PROVE  Safe(copy)
<1>. DEFINE s == p.text
            same == SameKey(s, k.text)
            first == First(same)
            comment == Stored(c, 1, copy)
            value == Stored(v, 4, copy)
            entry == [first EXCEPT !.value = value]
            added == Uses(s, first.nOrder, "value", value)
            new == Copies(p, comment, copy) \cup (IF copy THEN At(value) ELSE {})
            none == {}
<1>1. /\ same # {}
      /\ m_data' = [m_data EXCEPT ![s].keys = (@ \ {first}) \cup {entry}]
      /\ m_strings' = m_strings \cup new
  BY DEF UpdateKey, Stored
<1>2. /\ s \in DOMAIN m_data /\ first \in m_data[s].keys
      /\ SectionOK(s, m_data[s], m_nOrder)
  BY <1>1, SameKeyFirst DEF IniInv
<1>3. /\ At(comment) \subseteq IF copy THEN {NewAllocation(1)} ELSE Given
      /\ At(value) \subseteq IF copy THEN {NewAllocation(4)} ELSE Given
      /\ {NewAllocation(1), NewAllocation(4)} \subseteq NewOnes
  <2>1. /\ copy \/ At(c) \subseteq Given
        /\ copy \/ At(v) \subseteq Given
        /\ 1 \in 1..5 /\ 4 \in 1..5
    OBVIOUS
  <2>2. /\ At(comment) \subseteq IF copy THEN {NewAllocation(1)} ELSE Given
        /\ {NewAllocation(1)} \subseteq NewOnes
    BY <2>1, StoredAt
  <2>3. /\ At(value) \subseteq IF copy THEN {NewAllocation(4)} ELSE Given
        /\ {NewAllocation(4)} \subseteq NewOnes
    BY <2>1, StoredAt
  <2>. HIDE DEF comment, value
  <2>. QED
    BY <2>2, <2>3
<1>4. new = IF copy THEN At(comment) \cup At(value) ELSE {}
  BY <1>2 DEF Copies
<1>5. new \subseteq NewOnes
  <2>. HIDE DEF comment, value, new
  <2>. QED
    BY <1>3, <1>4
<1>. HIDE DEF s, same, first, comment, value
<1>6. first \in KeyEntries
  BY <1>2 DEF SectionOK, SectionEntries
<1>7. /\ entry.pItem = first.pItem /\ entry.pComment = first.pComment
      /\ entry.nOrder = first.nOrder /\ entry.value = value
  BY <1>6 DEF KeyEntries
<1>. HIDE DEF entry
<1>8. InUse' \subseteq InUse \cup added
  <2>1. /\ KeysUses(s, {first}) \subseteq InUse
        /\ InUse' \subseteq (InUse \ KeysUses(s, {first})) \cup KeysUses(s, {entry})
    BY <1>1, <1>2, KeysReplaced
  <2>2. EntryUses(s, entry) \subseteq EntryUses(s, first) \cup added
    BY <1>7 DEF EntryUses
  <2>3. KeysUses(s, {entry}) = EntryUses(s, entry) /\ KeysUses(s, {first}) = EntryUses(s, first)
    BY DEF KeysUses
  <2>. HIDE DEF added
  <2>. QED
    BY <2>1, <2>2, <2>3
<1>9. \A u \in added : u[4] \in At(value) /\ u = <<s, first.nOrder, "value", u[4]>>
  BY DEF Uses
<1>. HIDE DEF added, new
<1>10. ASSUME NEW u \in added PROVE u[4] \in IF copy THEN new ELSE Given
  BY <1>3, <1>4, <1>9
<1>11. ASSUME copy PROVE \A u, w \in added : u # w => u[4] # w[4]
  BY <1>3, <1>9, <1>11
<1>12. InUse' \subseteq (InUse \ none) \cup added /\ m_strings' = (m_strings \ none) \cup new
       /\ none \subseteq InUse /\ \A a \in none : \E g \in none : a = g[4]
  BY <1>1, <1>8
<1>. HIDE DEF none
<1>. QED
  BY <1>5, <1>10, <1>11, <1>12, SafeStep

LEMMA ReplaceKeysSafe ==
  ASSUME IniInv, NEW p \in SectionNames, NEW k \in Names, NEW v \in Values, NEW c \in Comments,
         ReplaceKeys(p, k, v, c), m_pFileComment' = m_pFileComment
  PROVE  Safe(TRUE)
<1>0. PICK key \in Names, value \in Values, comment \in Comments :
        ReplacedBy(p.text, k.text, c, key, value, comment)
        /\ key.at = NewAllocation(3) /\ value.at = NewAllocation(4)
  BY ReplaceKeysIs
<1>. DEFINE s == p.text
            same == SameKey(s, k.text)
            kept == First(same).pComment
            entry == [pItem |-> key, pComment |-> comment, value |-> value, nOrder |-> First(same).nOrder]
            gone == KeysUses(s, same)
            freed == StringsOf(same)
            added == EntryUses(s, entry)
            new == At(comment) \cup At(key) \cup At(value)
<1>1. /\ same # {} /\ comment = IF kept = NULL THEN CopyString(c, 1) ELSE CopyString(kept, 5)
      /\ m_data' = [m_data EXCEPT ![s].keys = (@ \ same) \cup {entry}]
      /\ m_strings' = (m_strings \ freed) \cup new
  BY <1>0 DEF ReplacedBy, Replaced
<1>2. s \in DOMAIN m_data /\ same \subseteq m_data[s].keys
  BY <1>1, SameKeyFirst DEF IniInv
<1>3. PICK n \in {1, 5} : At(comment) \subseteq {NewAllocation(n)}
  <2>1. At(CopyString(c, 1)) \subseteq {NewAllocation(1)} /\ At(CopyString(kept, 5)) \subseteq {NewAllocation(5)}
    BY CopyType
  <2>. QED
    BY <1>1, <2>1
<1>4. At(key) \subseteq {NewAllocation(3)} /\ At(value) \subseteq {NewAllocation(4)}
  BY <1>0 DEF At
<1>5. entry.pItem = key /\ entry.pComment = comment /\ entry.value = value
  OBVIOUS
<1>. HIDE DEF s, same, entry
<1>6. new \subseteq NewOnes
  <2>1. {NewAllocation(n), NewAllocation(3), NewAllocation(4)} \subseteq NewOnes
    BY DEF NewOnes
  <2>. QED
    BY <1>3, <1>4, <2>1
<1>7. gone \subseteq InUse /\ InUse' \subseteq (InUse \ gone) \cup added
  <2>1. /\ gone \subseteq InUse
        /\ InUse' \subseteq (InUse \ gone) \cup KeysUses(s, {entry})
    BY <1>1, <1>2, KeysReplaced
  <2>2. KeysUses(s, {entry}) = added
    BY DEF KeysUses
  <2>. QED
    BY <2>1, <2>2
<1>8. \A a \in freed : \E g \in gone : a = g[4]
  BY StringsUsed
<1>9. ASSUME NEW u \in added PROVE u[4] \in new
  BY <1>5, EntryUsesParts
<1>10. \A u, w \in added : u # w => u[4] # w[4]
  <2>. DEFINE a1 == NewAllocation(n)
              a3 == NewAllocation(3)
              a4 == NewAllocation(4)
  <2>1. a1 # a3 /\ a1 # a4 /\ a3 # a4
    BY NewDiffer
  <2>2. Apart(entry, a1, a3, a4)
    BY <1>3, <1>4, <1>5, <2>1 DEF Apart
  <2>. HIDE DEF a1, a3, a4, added
  <2>3. /\ \A u \in EntryUses(s, entry) : u[4] \in {a1, a3, a4}
        /\ \A u, w \in EntryUses(s, entry) : u # w => u[4] # w[4]
    BY <2>2, EntryDiffer
  <2>. QED
    BY <2>3 DEF added
<1>. HIDE DEF gone, freed, added, new
<1>. DEFINE copy == TRUE
<1>11. copy \in BOOLEAN /\ \A u \in added : u[4] \in IF copy THEN new ELSE Given
  BY <1>9
<1>12. copy => \A u, w \in added : u # w => u[4] # w[4]
  BY <1>10
<1>. HIDE DEF copy
<1>13. Safe(copy)
  BY <1>1, <1>6, <1>7, <1>8, <1>11, <1>12, SafeStep
<1>. QED
  BY <1>13 DEF copy

LEMMA AddEntrySafe ==
  ASSUME IniInv, NEW p \in SectionNames, NEW k \in Names, NEW v \in Values, NEW c \in Comments,
         NEW force \in BOOLEAN, NEW copy \in BOOLEAN, force => copy,
         copy \/ At(p) \cup At(k) \cup At(v) \cup At(c) \subseteq Given,
         AddEntry(p, k, v, c, force, copy), m_pFileComment' = m_pFileComment
  PROVE  Safe(copy)
<1>1. CASE InsertKey(p, k, v, c, force, copy)
  BY <1>1, InsertKeySafe
<1>2. CASE UpdateKey(p, k, v, c, copy)
  BY <1>2, UpdateKeySafe
<1>3. CASE force /\ ReplaceKeys(p, k, v, c)
  <2>1. Safe(TRUE)
    BY <1>3, ReplaceKeysSafe
  <2>2. copy = TRUE
    BY <1>3
  <2>. QED
    BY <2>1, <2>2
<1>. QED
  BY <1>1, <1>2, <1>3 DEF AddEntry

LEMMA DeleteSafe ==
  ASSUME IniInv, NEW s,
         \/ DeleteSection(s)
         \/ \E k \in Keys : \E v, removeEmpty : DeleteValue(s, k, v, removeEmpty)
  PROVE  Safe(TRUE)
<1>. DEFINE added == {}
            new == {}
            copy == TRUE
<1>1. copy \in BOOLEAN /\ new \subseteq NewOnes
  OBVIOUS
<1>6. ASSUME NEW u \in added PROVE u[4] \in IF copy THEN new ELSE Given
  OBVIOUS
<1>7. copy => \A u, w \in added : u # w => u[4] # w[4]
  OBVIOUS
<1>2. ASSUME NEW gone, gone \subseteq InUse, NEW freed, \A a \in freed : \E g \in gone : a = g[4],
             InUse' \subseteq InUse \ gone, m_strings' = m_strings \ freed
      PROVE  Safe(TRUE)
  <2>1. InUse' \subseteq (InUse \ gone) \cup added /\ m_strings' = (m_strings \ freed) \cup new
    BY <1>2
  <2>3. gone \subseteq InUse /\ \A a \in freed : \E g \in gone : a = g[4]
    BY <1>2
  <2>. HIDE DEF copy, added, new
  <2>2. Safe(copy)
    BY <1>1, <1>6, <1>7, <2>1, <2>3, SafeStep
  <2>. QED
    BY <2>2 DEF copy
<1>. HIDE DEF added, new, copy
<1>3. ASSUME s \in DOMAIN m_data, m_data' = Without(s), m_pFileComment' = m_pFileComment,
             m_strings' = m_strings \ (StringsOf(Entries(s)) \cup At(m_data[s].pItem))
      PROVE  Safe(TRUE)
  <2>. DEFINE gone == SectionUses(s, m_data[s])
              freed == StringsOf(Entries(s)) \cup At(m_data[s].pItem)
              rest == UsesOf(m_pFileComment, Without(s))
  <2>1. InUse' = rest /\ InUse = rest \cup gone
    BY <1>3, InUseParts, RestUses
  <2>2. ASSUME NEW u \in gone PROVE u \notin rest
    <3>1. \A w \in SectionUses(s, m_data[s]) : w[1] = s /\ w[3] # "file comment"
      BY SectionUsesAre
    <3>2. \A w \in rest : w[1] # s \/ w[3] = "file comment"
      BY RestUses
    <3>. HIDE DEF rest
    <3>. QED
      BY <3>1, <3>2
  <2>3. \A a \in StringsOf(Entries(s)) : \E g \in KeysUses(s, m_data[s].keys) : a = g[4]
    <3>1. Entries(s) = m_data[s].keys
      BY <1>3 DEF Entries
    <3>. QED
      BY <3>1, StringsUsed
  <2>4. \A a \in At(m_data[s].pItem) : \E g \in HeadUses(s, m_data[s]) : a = g[4]
    BY UsesParts DEF HeadUses
  <2>5. gone = HeadUses(s, m_data[s]) \cup KeysUses(s, m_data[s].keys)
    BY SectionUsesParts
  <2>6. \A a \in freed : \E g \in gone : a = g[4]
    BY <2>3, <2>4, <2>5
  <2>7. m_strings' = m_strings \ freed
    BY <1>3
  <2>. HIDE DEF gone, freed, rest
  <2>8. gone \subseteq InUse /\ InUse' \subseteq InUse \ gone
    BY <2>1, <2>2
  <2>. QED
    BY <1>2, <2>6, <2>7, <2>8
<1>4. CASE DeleteSection(s)
  BY <1>3, <1>4 DEF DeleteSection, CallVars
<1>5. ASSUME NEW k \in Keys, NEW v, NEW removeEmpty, DeleteValue(s, k, v, removeEmpty)
      PROVE  Safe(TRUE)
  <2>. DEFINE gone == {e \in SameKey(s, k) : v = NULL \/ e.value.text = v}
              prune == removeEmpty /\ Entries(s) = gone
  <2>1. /\ gone # {} /\ m_pFileComment' = m_pFileComment
        /\ m_data' = IF prune THEN Without(s) ELSE [m_data EXCEPT ![s].keys = @ \ gone]
        /\ m_strings' = m_strings \ (StringsOf(gone) \cup (IF prune THEN At(m_data[s].pItem) ELSE {}))
    BY <1>5 DEF DeleteValue, CallVars
  <2>2. s \in DOMAIN m_data /\ gone \subseteq m_data[s].keys
    BY <2>1, SameKeyFirst DEF IniInv
  <2>3. CASE prune
    BY <1>3, <2>1, <2>2, <2>3
  <2>4. CASE ~prune
    <3>. HIDE DEF gone, prune
    <3>. DEFINE more == {}
                freed == StringsOf(gone)
    <3>1. m_data' = [m_data EXCEPT ![s].keys = (@ \ gone) \cup more] /\ m_strings' = m_strings \ freed
      BY <2>1, <2>4
    <3>2. KeysUses(s, more) = {}
      BY DEF KeysUses
    <3>. HIDE DEF more
    <3>3. /\ KeysUses(s, gone) \subseteq InUse
          /\ InUse' \subseteq (InUse \ KeysUses(s, gone)) \cup KeysUses(s, more)
      BY <2>1, <2>2, <3>1, KeysReplaced
    <3>4. InUse' \subseteq InUse \ KeysUses(s, gone)
      BY <3>2, <3>3
    <3>5. \A a \in freed : \E g \in KeysUses(s, gone) : a = g[4]
      BY StringsUsed
    <3>. HIDE DEF freed
    <3>. QED
      BY <1>2, <3>1, <3>3, <3>4, <3>5
  <2>. QED
    BY <2>3, <2>4
<1>. QED
  BY <1>4, <1>5

LEMMA SameSafe ==
  ASSUME IniInv, NEW copy \in BOOLEAN, UNCHANGED <<m_data, m_pFileComment, m_strings>>
  PROVE  Safe(copy)
<1>1. InUse' = InUse
  BY InUseParts
<1>2. Owned(InUse, m_strings, Blocks)
  BY LiveParts DEF IniInv
<1>3. /\ m_strings \subseteq Nat \ {0} /\ IsFiniteSet(m_strings)
      /\ \A a \in Blocks : a \notin m_strings
  BY DEF IniInv, StringsOK, LoadOK, Blocks
<1>. QED
  BY <1>1, <1>2, <1>3 DEF Safe

-----------------------------------------------------------------------------
(* The inductive step *)

\* the load goes on, or there is none
LoadStep ==
  IF load = NULL THEN load' = NULL
  ELSE /\ load' # NULL /\ load'.block = load.block
       /\ load'.pSection.at \in {0, load.block} /\ At(load'.pComment) \subseteq {0, load.block}

LEMMA SafeInv ==
  ASSUME IniInv, IniTypeOK', NEW copy \in BOOLEAN, Safe(copy), LoadStep, m_pData' = m_pData,
         load # NULL => (copy <=> Copying)
  PROVE  IniInv'
<1>1. Blocks' = Blocks
  BY DEF Blocks, LoadStep
<1>2. StringsLive'
  BY <1>1, LivePartsNext DEF Safe
<1>3. StringsOK'
  BY DEF IniInv, StringsOK, Safe, Blocks
<1>4. LoadOK'
  <2>1. CASE load = NULL
    BY <2>1 DEF LoadStep, LoadOK
  <2>2. CASE load # NULL
    <3>1. load.block \notin m_strings' \cup {m_pData'}
      BY <2>2 DEF IniInv, LoadOK, Safe, Blocks
    <3>2. ASSUME Copying', NEW u \in InUse' PROVE u[4] # load.block
      <4>1. copy /\ Copying
        BY <2>2, <3>2 DEF Copying
      <4>. QED
        BY <2>2, <3>2, <4>1 DEF IniInv, LoadOK, Safe
    <3>. QED
      BY <2>2, <3>1, <3>2 DEF LoadStep, LoadOK
  <2>. QED
    BY <2>1, <2>2
<1>. QED
  BY <1>2, <1>3, <1>4 DEF IniInv

LEMMA CallInv ==
  ASSUME IniInv, Call, ~Reset
  PROVE  IniInv'
<1>. DEFINE copy == TRUE
<1>1. IniTypeOK'
  BY CallTypes
<1>2. copy \in BOOLEAN /\ copy
  OBVIOUS
<1>. HIDE DEF copy
<1>3. Safe(copy) /\ load = NULL /\ load' = load /\ m_pData' = m_pData => IniInv'
  BY <1>1, <1>2, SafeInv DEF LoadStep
<1>4. ASSUME NEW p \in GivenSections, NEW c \in GivenComments, SetSection(p, c) PROVE IniInv'
  <2>1. p \in SectionNames /\ c \in Comments
    BY GivenTypes DEF IniInv
  <2>2. AddSection(p, c, copy) /\ m_pFileComment' = m_pFileComment /\ load = NULL /\ UNCHANGED CallVars
    BY <1>4 DEF SetSection, Idle, CallVars, copy
  <2>3. Safe(copy)
    BY <1>2, <2>1, <2>2, AddSectionSafe
  <2>. QED
    BY <1>3, <2>2, <2>3 DEF CallVars
<1>5. ASSUME NEW p \in GivenSections, NEW c \in GivenComments, NEW k \in GivenKeys, NEW v \in GivenValues,
             NEW force \in BOOLEAN, SetValue(p, k, v, c, force)
      PROVE  IniInv'
  <2>1. p \in SectionNames /\ k \in Names /\ v \in Values /\ c \in Comments
    BY GivenTypes DEF IniInv
  <2>2. /\ AddEntry(p, k, v, c, force, copy) /\ m_pFileComment' = m_pFileComment /\ load = NULL
        /\ UNCHANGED CallVars
    BY <1>5 DEF SetValue, Idle, CallVars, copy
  <2>3. Safe(copy)
    BY <1>2, <2>1, <2>2, AddEntrySafe
  <2>. QED
    BY <1>3, <2>2, <2>3 DEF CallVars
<1>6. ASSUME NEW s \in DOMAIN m_data, NEW k \in Keys, NEW v \in SetValues \cup {NULL},
             NEW removeEmpty \in BOOLEAN, DeleteValue(s, k, v, removeEmpty)
      PROVE  IniInv'
  <2>1. Safe(copy)
    BY <1>6, DeleteSafe DEF copy
  <2>. QED
    BY <1>3, <1>6, <2>1 DEF DeleteValue, CallVars, Idle
<1>7. ASSUME NEW s \in DOMAIN m_data, DeleteSection(s) PROVE IniInv'
  <2>1. Safe(copy)
    BY <1>7, DeleteSafe DEF copy
  <2>. QED
    BY <1>3, <1>7, <2>1 DEF DeleteSection, CallVars, Idle
<1>8. ASSUME NEW b \in BOOLEAN, SetMultiKey(b) PROVE IniInv'
  <2>1. Safe(copy)
    BY <1>2, <1>8, SameSafe DEF SetMultiKey
  <2>. QED
    BY <1>3, <1>8, <2>1 DEF SetMultiKey, Idle
<1>9. CASE SaveFile
  <2>1. Safe(copy)
    BY <1>2, <1>9, SameSafe DEF SaveFile
  <2>. QED
    BY <1>3, <1>9, <2>1 DEF SaveFile, Idle
<1>. QED
  BY <1>4, <1>5, <1>6, <1>7, <1>8, <1>9 DEF Call

LEMMA UsesTypes ==
  ASSUME IniTypeOK
  PROVE  \A u \in InUse : u[4] \in Nat
<1>1. \A p \in Names \cup SectionNames \cup Values \cup Comments : At(p) \subseteq Nat
  BY DEF At, Names, SectionNames, Values, Comments
<1>2. TableOK(m_data, m_nOrder) /\ m_pFileComment \in Comments
  BY TypeParts
<1>3. ASSUME NEW u \in Uses(Title(""), 0, "file comment", m_pFileComment) PROVE u[4] \in Nat
  <2>1. u[4] \in At(m_pFileComment)
    BY UsesParts
  <2>. QED
    BY <1>1, <1>2, <2>1
<1>4. ASSUME NEW s \in DOMAIN m_data, NEW u \in SectionUses(s, m_data[s]) PROVE u[4] \in Nat
  <2>. DEFINE section == m_data[s]
  <2>1. section \in SectionEntries
    BY <1>2 DEF TableOK, SectionOK
  <2>. HIDE DEF section
  <2>2. section.pItem \in SectionNames /\ section.pComment \in Comments /\ section.keys \subseteq KeyEntries
    BY <2>1 DEF SectionEntries
  <2>3. SectionUses(s, section) = HeadUses(s, section) \cup KeysUses(s, section.keys)
    BY SectionUsesParts
  <2>4. CASE u \in HeadUses(s, section)
    <3>1. u[4] \in At(section.pItem) \cup At(section.pComment)
      BY <2>4, HeadUsesParts
    <3>. QED
      BY <1>1, <2>2, <3>1
  <2>5. CASE u \in KeysUses(s, section.keys)
    <3>1. PICK e \in section.keys : u \in EntryUses(s, e)
      BY <2>5 DEF KeysUses
    <3>2. u[4] \in At(e.pItem) \cup At(e.pComment) \cup At(e.value)
      BY <3>1, EntryUsesParts
    <3>3. e \in KeyEntries
      BY <2>2
    <3>4. e.pItem \in Names /\ e.pComment \in Comments /\ e.value \in Values
      BY <3>3 DEF KeyEntries
    <3>. QED
      BY <1>1, <3>2, <3>4
  <2>6. u \in SectionUses(s, section)
    BY DEF section
  <2>. QED
    BY <2>3, <2>4, <2>5, <2>6
<1>. QED
  BY <1>3, <1>4 DEF InUse

LEMMA ResetInv ==
  ASSUME IniInv, Reset
  PROVE  IniInv'
<1>1. IniTypeOK'
  BY CallTypes DEF Call
<1>2. /\ m_pData' = NULL /\ m_pFileComment' = NULL /\ m_data' = <<>> /\ m_strings' = {}
      /\ load' = NULL
  BY DEF Reset, Idle
<1>3. DOMAIN m_data' = {}
  BY <1>2
<1>4. InUse' = {}
  BY <1>2, <1>3, InUseParts DEF UsesOf, Uses, At
<1>5. Owned(InUse', m_strings', Blocks')
  BY <1>4 DEF Owned
<1>6. StringsOK'
  BY <1>2, FS_EmptySet DEF StringsOK
<1>7. LoadOK'
  BY <1>2 DEF LoadOK
<1>. QED
  BY <1>1, <1>5, <1>6, <1>7, LivePartsNext DEF IniInv

LEMMA LoadEndInv ==
  ASSUME IniInv, LoadEnd
  PROVE  IniInv'
<1>1. IniTypeOK'
  BY TypeParts, TypesNext DEF LoadEnd, IniInv, options
<1>2. /\ load # NULL /\ load' = NULL /\ UNCHANGED <<m_data, m_pFileComment, m_strings>>
      /\ m_pData' = IF Copying THEN m_pData ELSE load.block
  BY DEF LoadEnd
<1>3. InUse' = InUse
  BY <1>2, InUseParts
<1>4. Owned(InUse, m_strings, {m_pData, load.block})
  BY <1>2, LiveParts DEF IniInv, Blocks, Owned
<1>5. ASSUME NEW u \in InUse PROVE u[4] \in m_strings \cup {m_pData'} \cup {0}
  <2>1. u[4] \in m_strings \cup {m_pData, load.block} \cup {0}
    BY <1>4 DEF Owned
  <2>2. CASE Copying
    <3>1. u[4] # load.block
      BY <1>2, <2>2 DEF IniInv, LoadOK
    <3>. QED
      BY <1>2, <2>1, <2>2, <3>1
  <2>3. CASE ~Copying
    <3>1. u[4] \in Nat
      BY UsesTypes DEF IniInv
    <3>2. u[4] # m_pData
      BY <2>3, <3>1, IniAssumption DEF Copying
    <3>. QED
      BY <1>2, <2>1, <2>3, <3>2
  <2>. QED
    BY <2>2, <2>3
<1>6. Blocks' = {m_pData'}
  BY <1>2 DEF Blocks
<1>7. Owned(InUse', m_strings', Blocks')
  BY <1>2, <1>3, <1>4, <1>5, <1>6 DEF Owned
<1>8. StringsOK'
  <2>1. load.block \in Nat \ {0}
    <3>1. load \in Loads
      BY <1>2 DEF IniInv, IniTypeOK
    <3>. QED
      BY <3>1 DEF Loads
  <2>. QED
    BY <1>2, <2>1 DEF IniInv, StringsOK, LoadOK
<1>9. LoadOK'
  BY <1>2 DEF LoadOK
<1>. QED
  BY <1>1, <1>7, <1>8, <1>9, LivePartsNext DEF IniInv

LEMMA LoadFileInv ==
  ASSUME IniInv, LoadFile
  PROVE  IniInv'
<1>. DEFINE block == NewAllocation(1)
            n == IF m_pFileComment # NULL THEN 0 ELSE CommentLines(file, FALSE)
            comment == Ptr(SubSeq(file, 1, n), block)
            copied == CopyString(comment, 2)
            new == IF n > 0 /\ Copying THEN At(copied) ELSE {}
            added == IF n = 0 THEN {} ELSE Uses(Title(""), 0, "file comment", m_pFileComment')
            blocks == {m_pData, block}
            none == {}
<1>1. IniTypeOK' /\ load' \in Loads
  BY LoadFileTypes
<1>2. /\ load = NULL /\ load'.block = block /\ load'.pSection.at = 0 /\ load'.pComment = NULL
      /\ m_pFileComment' = IF n = 0 THEN m_pFileComment ELSE IF Copying THEN copied ELSE comment
      /\ m_strings' = m_strings \cup new
      /\ UNCHANGED <<m_data, m_pData>>
  BY DEF LoadFile, Idle, Ptr
<1>3. n \in Nat /\ (n > 0 => m_pFileComment = NULL)
  <2>1. CommentLines(file, FALSE) \in Nat
    BY CommentLinesBound DEF IniInv, IniTypeOK
  <2>2. n \in Nat
    BY <2>1
  <2>3. n # 0 => m_pFileComment = NULL
    OBVIOUS
  <2>. HIDE DEF n
  <2>. QED
    BY <2>2, <2>3
<1>4. At(comment) \subseteq {block} /\ At(copied) \subseteq {NewAllocation(2)}
  <2>1. At(comment) \subseteq {block}
    BY DEF At, Ptr
  <2>2. 2 \in Nat \ {0}
    OBVIOUS
  <2>. QED
    BY <2>1, <2>2, CopyType
<1>5. \A a \in {NewAllocation(2), block} :
        /\ a \in Nat \ {0} /\ a \notin m_strings \cup {m_pData, 0}
        /\ \A u \in InUse : u[4] # a
  BY Fresh
<1>6. NewAllocation(2) # block
  BY NewDiffer
<1>. HIDE DEF n, comment, copied, block
<1>7. InUse' \subseteq InUse \cup added
  <2>1. InUse = UsesOf(m_pFileComment, m_data) /\ InUse' = UsesOf(m_pFileComment', m_data)
    BY <1>2, InUseParts
  <2>2. CASE n = 0
    BY <1>2, <2>1, <2>2
  <2>3. CASE n # 0
    <3>1. InUse' = Uses(Title(""), 0, "file comment", m_pFileComment')
                   \cup UNION {SectionUses(s, m_data[s]) : s \in DOMAIN m_data}
      BY <2>1 DEF UsesOf
    <3>2. UNION {SectionUses(s, m_data[s]) : s \in DOMAIN m_data} \subseteq InUse
      BY <2>1 DEF UsesOf
    <3>. QED
      BY <2>3, <3>1, <3>2
  <2>. QED
    BY <2>2, <2>3
<1>8. ASSUME NEW u \in added PROVE u[4] \in IF Copying THEN new ELSE {block}
  <2>3. n # 0
    BY <1>8
  <2>4. n \in Nat
    BY <1>3
  <2>. HIDE DEF added
  <2>5. n > 0
    BY ONLY <2>3, <2>4
  <2>1. n # 0 /\ n > 0
    BY <2>3, <2>5
  <2>. USE DEF added
  <2>2. u[4] \in At(m_pFileComment')
    BY <2>1, UsesParts
  <2>. QED
    BY <1>2, <1>4, <2>1, <2>2
<1>9. ASSUME NEW u \in added, NEW w \in added, u # w PROVE u[4] # w[4]
  <2>1. n # 0
    BY <1>9
  <2>2. /\ u = <<Title(""), 0, "file comment", u[4]>>
        /\ w = <<Title(""), 0, "file comment", w[4]>>
    <3>1. /\ u \in Uses(Title(""), 0, "file comment", m_pFileComment')
          /\ w \in Uses(Title(""), 0, "file comment", m_pFileComment')
      BY <2>1
    <3>2. ASSUME NEW x \in Uses(Title(""), 0, "file comment", m_pFileComment')
          PROVE  x = <<Title(""), 0, "file comment", x[4]>>
      <4>1. PICK at \in At(m_pFileComment') : x = <<Title(""), 0, "file comment", at>>
        BY DEF Uses
      <4>. QED
        BY <4>1
    <3>. QED
      BY <3>1, <3>2
  <2>. QED
    BY <1>9, <2>2
<1>10. new \subseteq {NewAllocation(2)}
  BY <1>4
<1>11. Owned(InUse, m_strings, blocks) /\ \A a \in blocks \cup {0} : a \notin m_strings
  BY <1>2, <1>5, LiveParts DEF IniInv, StringsOK, Blocks, Owned
<1>12. \A a \in new : a \notin m_strings \cup blocks \cup {0} /\ \A u \in InUse : u[4] # a
  BY <1>5, <1>6, <1>10
<1>. HIDE DEF new, added
<1>13. Owned(InUse', (m_strings \ none) \cup new, blocks)
  <2>1. /\ none \subseteq InUse /\ \A a \in none : \E g \in none : a = g[4]
        /\ InUse' \subseteq (InUse \ none) \cup added
    BY <1>7
  <2>2. \A u \in added : u[4] \in new \cup blocks \cup {0}
    BY <1>8
  <2>3. \A u, w \in added : u # w /\ u[4] \in new => u[4] # w[4]
    BY <1>9
  <2>. HIDE DEF none, blocks
  <2>. QED
    BY <1>11, <1>12, <2>1, <2>2, <2>3, OwnedStep
<1>14. load' # NULL
  BY <1>1, IniAssumption
<1>15. Blocks' = blocks
  BY <1>2, <1>14 DEF Blocks
<1>16. StringsLive'
  BY <1>2, <1>13, <1>15, LivePartsNext
<1>17. StringsOK'
  <2>1. IsFiniteSet(new)
    <3>1. IsFiniteSet({NewAllocation(2)})
      BY FS_Singleton
    <3>. QED
      BY <1>10, <3>1, FS_Subset
  <2>2. IsFiniteSet(m_strings')
    BY <1>2, <2>1, FS_Union DEF IniInv, StringsOK
  <2>3. m_strings' \subseteq Nat \ {0}
    BY <1>2, <1>5, <1>10 DEF IniInv, StringsOK
  <2>. QED
    BY <1>2, <1>12, <2>2, <2>3 DEF IniInv, StringsOK
<1>18. LoadOK'
  <2>1. block \notin m_strings' \cup {m_pData'}
    BY <1>2, <1>5, <1>6, <1>10
  <2>2. ASSUME Copying', NEW u \in InUse' PROVE u[4] # block
    <3>1. Copying
      BY <1>2, <2>2 DEF Copying
    <3>. QED
      BY <1>5, <1>6, <1>7, <1>8, <1>10, <3>1
  <2>. QED
    BY <1>2, <2>1, <2>2 DEF LoadOK, At
<1>. QED
  BY <1>1, <1>16, <1>17, <1>18 DEF IniInv

\* an entry of one line or of several: what is read has a name and a value
LEMMA KeyAdded ==
  ASSUME IniTypeOK, Parsing, ReadKey \/ ReadMultiLine
  PROVE  /\ SectionOfKey \in SectionNames /\ SectionOfKey.at = load.pSection.at
         /\ KeyOf(Line) \in STRING
         /\ \E n \in Nat, value \in Seq(Lines) \ {<<>>} : AddKey(n, value)
<1>1. Line \in Lines /\ Len(load.data) \in Nat \ {0} /\ Tail(load.data) \in Seq(Lines)
  BY ParseTypes
<1>2. IsKeyLine(Line)
  BY DEF ReadKey, ReadMultiLine, IsKey
<1>3. KeyOf(Line) \in STRING /\ ValueOf(Line) \in Lines
  BY <1>1, <1>2, LineParts
<1>4. Text(KeyOf(Line)) \in Lines
  BY <1>3, LineTypes
<1>5. SectionOfKey \in SectionNames /\ SectionOfKey.at = load.pSection.at
  <2>1. <<Text(KeyOf(Line))>> \in Seq(Lines)
    BY <1>4
  <2>. QED
    BY <2>1, RunsOnType DEF SectionOfKey
<1>6. CASE ReadKey
  <2>. DEFINE value == <<Trim(ValueOf(Line))>>
  <2>1. AddKey(1, value)
    BY <1>6 DEF ReadKey
  <2>2. value \in Seq(Lines) \ {<<>>}
    BY <1>3, LineParts
  <2>. QED
    BY <1>3, <1>5, <2>1, <2>2
<1>7. CASE ReadMultiLine
  <2>. DEFINE rest == IF Len(load.data) = 1 THEN <<Blank>> ELSE Tail(load.data)
              end == Text(ValueOf(Line).body.tag)
              n == LinesOfValue(rest, end)
              value == SubSeq(rest, 1, n)
  <2>1. AddKey(n + 2, value) /\ n > 0
    BY <1>7 DEF ReadMultiLine
  <2>2. rest \in Seq(Lines)
    BY <1>1, LineTypes
  <2>. HIDE DEF rest, end
  <2>3. n \in Nat /\ n <= Len(rest)
    BY <2>2, LinesOfValueBound
  <2>. HIDE DEF n
  <2>4. value \in Seq(Lines) /\ value # <<>>
    BY <2>1, <2>2, <2>3, PartType
  <2>5. n + 2 \in Nat
    BY <2>3
  <2>. HIDE DEF value
  <2>. QED
    BY <1>3, <1>5, <2>1, <2>4, <2>5
<1>. QED
  BY <1>6, <1>7

\* a step of the parser stays in the block that it loads
StillLoading ==
  /\ load' \in Loads /\ load'.block = load.block
  /\ load'.pSection.at \in {0, load.block} /\ At(load'.pComment) \subseteq {0, load.block}

LEMMA LoadDataInv ==
  ASSUME IniInv, LoadData
  PROVE  IniInv'
<1>0. IniTypeOK /\ TableOK(m_data, m_nOrder)
  BY TypeParts DEF IniInv
<1>1. /\ file \in Seq(Lines) /\ m_pFileComment \in Comments
      /\ m_bAllowMultiKey \in BOOLEAN /\ m_bAllowMultiLine \in BOOLEAN
  BY <1>0 DEF IniTypeOK
<1>. DEFINE force == FALSE
            copy == Copying
<1>2. copy \in BOOLEAN /\ force \in BOOLEAN /\ ~force /\ copy = Copying
  BY DEF Copying
<1>3. CASE LoadEnd
  BY <1>3, LoadEndInv
<1>. SUFFICES ASSUME Parsing PROVE IniInv'
  BY <1>3 DEF LoadData, SkipLine, ReadComment, SkipHeader, ReadHeader, ReadKey, ReadMultiLine
<1>5. /\ load \in Loads /\ load # NULL /\ load.block \in Nat \ {0} /\ load.data \in Seq(Lines)
      /\ load.pSection \in SectionNames /\ load.pComment \in Comments
      /\ Line \in Lines /\ Len(load.data) \in Nat \ {0} /\ Tail(load.data) \in Seq(Lines)
      /\ \A n \in Nat : AfterLines(n) = [load EXCEPT !.data = From(load.data, n + 1)]
                        /\ From(load.data, n + 1) \in Seq(Lines)
  BY <1>0, ParseTypes
<1>6. \A n \in Nat : /\ AfterLines(n) \in Loads /\ AfterLines(n).block = load.block
                     /\ AfterLines(n).pSection = load.pSection
                     /\ AfterLines(n).pComment = load.pComment
  BY <1>5 DEF Loads
<1>7. /\ \A w \in STRING : InBlock(w) \in Names /\ InBlock(Title(w)) \in SectionNames
      /\ \A t \in Seq(Lines) : InBlock(t) \in Comments /\ (t # <<>> => InBlock(t) \in Values)
  BY <1>5, PtrTypes DEF InBlock
<1>18. \A lines \in Seq(Lines) : RunsOn(lines) \in SectionNames /\ RunsOn(lines).at = load.pSection.at
  BY <1>0, RunsOnType
<1>15. /\ \A t : InBlock(t).at = load.block /\ At(InBlock(t)) \subseteq Given
       /\ At(load.pSection) \cup At(load.pComment) \subseteq Given
       /\ load.pSection.at \in {0, load.block} /\ At(load.pComment) \subseteq {0, load.block}
       /\ Given = {0, load.block} /\ At(NULL) = {}
  BY <1>5 DEF InBlock, Ptr, At, Given, IniInv, LoadOK
<1>16. ASSUME UNCHANGED <<file, m_pFileComment, m_pData, options>>, TableOK(m_data', m_nOrder'),
              Safe(copy), StillLoading
       PROVE  IniInv'
  <2>1. IniTypeOK'
    BY <1>1, <1>16, TypesNext DEF options, StillLoading
  <2>2. LoadStep
    BY <1>5, <1>16, IniAssumption DEF LoadStep, StillLoading
  <2>. HIDE DEF copy
  <2>. QED
    BY <1>2, <1>16, <2>1, <2>2, SafeInv
<1>8. CASE SkipLine
  <2>1. load' = [AfterLines(1) EXCEPT !.pSection = RunsOn(<<Line>>)] /\ UNCHANGED <<ParseVars, TableVars>>
    BY <1>8 DEF SkipLine
  <2>4. RunsOn(<<Line>>) \in SectionNames /\ RunsOn(<<Line>>).at = load.pSection.at
    <3>1. <<Line>> \in Seq(Lines)
      BY <1>5
    <3>. QED
      BY <1>18, <3>1
  <2>2. StillLoading
    BY <1>6, <1>15, <2>1, <2>4 DEF StillLoading, Loads
  <2>3. Safe(copy)
    BY <1>2, <2>1, SameSafe DEF ParseVars, TableVars
  <2>. QED
    BY <1>0, <1>16, <2>1, <2>2, <2>3 DEF ParseVars, TableVars
<1>9. CASE ReadComment
  <2>. DEFINE n == CommentLines(load.data, TRUE)
              text == SubSeq(load.data, 1, n)
  <2>1. n \in Nat /\ n <= Len(load.data)
    BY <1>5, CommentLinesBound
  <2>2. text \in Seq(Lines)
    BY <1>5, <2>1, PartType
  <2>3. load' = [AfterLines(n) EXCEPT !.pComment = InBlock(text), !.pSection = RunsOn(text),
                                      !.runsOn = FALSE]
    BY <1>9 DEF ReadComment
  <2>4. /\ InBlock(text) \in Comments /\ At(InBlock(text)) \subseteq {0, load.block}
        /\ RunsOn(text) \in SectionNames /\ RunsOn(text).at = load.pSection.at
    BY <1>7, <1>15, <1>18, <2>2
  <2>. HIDE DEF n, text
  <2>9. /\ load' \in Loads /\ load'.block = load.block
        /\ load'.pSection = RunsOn(text) /\ load'.pComment = InBlock(text)
    <3>. DEFINE l == AfterLines(n)
                p == RunsOn(text)
                c == InBlock(text)
    <3>1. l \in Loads /\ l.block = load.block /\ p \in SectionNames /\ c \in Comments
      BY <1>6, <2>1, <2>4
    <3>2. load' = [l EXCEPT !.pComment = c, !.pSection = p, !.runsOn = FALSE]
      BY <2>3
    <3>. HIDE DEF l, p, c
    <3>3. load' \in Loads /\ load'.block = load.block /\ load'.pSection = p /\ load'.pComment = c
      BY <3>1, <3>2 DEF Loads
    <3>. QED
      BY <3>3 DEF p, c
  <2>5. StillLoading
    BY <1>15, <2>4, <2>9 DEF StillLoading
  <2>6. UNCHANGED <<ParseVars, TableVars>>
    BY <1>9 DEF ReadComment
  <2>7. Safe(copy)
    BY <1>2, <2>6, SameSafe DEF ParseVars, TableVars
  <2>. QED
    BY <1>0, <1>16, <2>5, <2>6, <2>7 DEF ParseVars, TableVars
<1>10. CASE SkipHeader
  <2>. DEFINE p == InBlock(Title(Line.body.open))
  <2>1. load' = [AfterLines(1) EXCEPT !.pSection = p, !.runsOn = TRUE]
    BY <1>10 DEF SkipHeader
  <2>2. p \in SectionNames /\ p.at = load.block
    BY <1>5, <1>7, <1>10, <1>15, LineParts DEF SkipHeader
  <2>3. UNCHANGED <<ParseVars, TableVars>>
    BY <1>10 DEF SkipHeader
  <2>. HIDE DEF p
  <2>6. AfterLines(1) \in Loads /\ AfterLines(1).block = load.block /\ AfterLines(1).pComment = load.pComment
    BY <1>6
  <2>7. /\ load' \in Loads /\ load'.block = load.block /\ load'.pSection = p
        /\ load'.pComment = load.pComment
    BY <2>1, <2>2, <2>6 DEF Loads
  <2>4. StillLoading
    BY <1>15, <2>2, <2>7 DEF StillLoading
  <2>5. Safe(copy)
    BY <1>2, <2>3, SameSafe DEF ParseVars, TableVars
  <2>. QED
    BY <1>0, <1>16, <2>3, <2>4, <2>5 DEF ParseVars, TableVars
<1>11. CASE ReadHeader
  <2>. DEFINE p == InBlock(Title(Line.body.header))
  <2>1. /\ load' = [AfterLines(1) EXCEPT !.pSection = p, !.runsOn = FALSE, !.pComment = NULL]
        /\ AddSection(p, load.pComment, copy)
        /\ UNCHANGED ParseVars
    BY <1>11 DEF ReadHeader
  <2>2. p \in SectionNames
    BY <1>5, <1>7, <1>11, LineParts DEF ReadHeader
  <2>6. p.at = load.block /\ At(p) \cup At(load.pComment) \subseteq Given
    BY <1>15
  <2>3. NULL \in Comments
    BY DEF Comments
  <2>9. AfterLines(1) \in Loads /\ AfterLines(1).block = load.block
    BY <1>6
  <2>. HIDE DEF p
  <2>10. load' \in Loads
    BY <2>1, <2>2, <2>3, <2>9 DEF Loads
  <2>11. load'.block = load.block /\ load'.pSection = p /\ load'.pComment = NULL
    BY <2>1, <2>9 DEF Loads
  <2>4. StillLoading
    BY <1>15, <2>6, <2>10, <2>11 DEF StillLoading
  <2>. HIDE DEF copy
  <2>5. TableOK(m_data', m_nOrder')
    BY <1>2, <1>5, <2>1, <2>2, AddSectionTypes
  <2>7. m_pFileComment' = m_pFileComment
    BY <2>1 DEF ParseVars
  <2>8. Safe(copy)
    BY <1>2, <1>5, <2>1, <2>2, <2>6, <2>7, AddSectionSafe
  <2>. QED
    BY <1>16, <2>1, <2>4, <2>5, <2>8 DEF ParseVars
<1>12. CASE ReadKey \/ ReadMultiLine
  <2>. DEFINE p == SectionOfKey
              k == InBlock(KeyOf(Line))
  <2>1. PICK n \in Nat, value \in Seq(Lines) \ {<<>>} : AddKey(n, value)
    BY <1>0, <1>12, KeyAdded
  <2>. DEFINE v == InBlock(value)
  <2>2. /\ p \in SectionNames /\ p.at \in {0, load.block}
        /\ k \in Names /\ v \in Values
    BY <1>0, <1>7, <1>12, <1>15, KeyAdded
  <2>3. /\ load' = [AfterLines(n) EXCEPT !.pSection = p, !.runsOn = FALSE, !.pComment = NULL]
        /\ AddEntry(p, k, v, load.pComment, force, copy) /\ UNCHANGED ParseVars
    BY <2>1 DEF AddKey
  <2>4. At(p) \cup At(k) \cup At(v) \cup At(load.pComment) \subseteq Given
    BY <1>15, <2>2 DEF At
  <2>. HIDE DEF p, k, v, force, copy
  <2>5. NULL \in Comments
    BY DEF Comments
  <2>11. load' \in Loads /\ load'.block = load.block /\ load'.pSection = p /\ load'.pComment = NULL
    <3>. DEFINE l == AfterLines(n)
    <3>1. l \in Loads /\ l.block = load.block
      BY <1>6
    <3>2. load' = [l EXCEPT !.pSection = p, !.runsOn = FALSE, !.pComment = NULL]
      BY <2>3
    <3>. HIDE DEF l
    <3>. QED
      BY <2>2, <2>5, <3>1, <3>2 DEF Loads
  <2>6. StillLoading
    BY <1>15, <2>2, <2>11 DEF StillLoading
  <2>7. TableOK(m_data', m_nOrder')
    BY <1>2, <1>5, <2>2, <2>3, AddEntryTypes
  <2>8. m_pFileComment' = m_pFileComment
    BY <2>3 DEF ParseVars
  <2>9. Safe(copy)
    BY <1>2, <1>5, <2>2, <2>3, <2>4, <2>8, AddEntrySafe
  <2>. QED
    BY <1>16, <2>3, <2>6, <2>7, <2>9 DEF ParseVars
<1>. QED
  BY <1>3, <1>8, <1>9, <1>10, <1>11, <1>12 DEF LoadData

\* the table, empty at first, satisfies the invariant
THEOREM IniInitInv == IniInit => IniInv
<1>. SUFFICES ASSUME IniInit PROVE IniInv
  OBVIOUS
<1>1. m_data = <<>> /\ DOMAIN m_data = {}
  BY DEF IniInit
<1>2. IniTypeOK
  <2>1. m_nOrder = 0 /\ load = NULL /\ m_pFileComment = NULL
        /\ m_bAllowMultiKey \in BOOLEAN /\ m_bAllowMultiLine \in BOOLEAN
    BY DEF IniInit
  <2>2. TableOK(m_data, m_nOrder)
    BY <1>1, <2>1, FS_EmptySet DEF TableOK
  <2>3. file \in Seq(Lines)
    BY IniAssumption DEF IniInit
  <2>. QED
    BY <2>1, <2>2, <2>3, TypeParts DEF Comments
<1>3. StringsOK /\ LoadOK
  BY FS_EmptySet DEF IniInit, StringsOK, LoadOK
<1>4. InUse = {}
  BY <1>1, InUseParts DEF IniInit, UsesOf, Uses, At
<1>. QED
  BY <1>2, <1>3, <1>4 DEF IniInv, StringsLive

\* every step of the parser and every call keeps it
THEOREM IniNextInv == IniInv /\ [IniNext]_iniVars => IniInv'
<1>. SUFFICES ASSUME IniInv, [IniNext]_iniVars PROVE IniInv'
  OBVIOUS
<1>1. CASE LoadFile
  BY <1>1, LoadFileInv
<1>2. CASE LoadData
  BY <1>2, LoadDataInv
<1>3. CASE Reset
  BY <1>3, ResetInv
<1>4. CASE UNCHANGED iniVars
  <2>. DEFINE copy == Copying
  <2>1. UNCHANGED <<file, m_data, m_nOrder, m_pFileComment, m_pData, m_strings, options, load>>
    BY <1>4 DEF iniVars
  <2>2. IniTypeOK'
    BY <2>1, TypeParts, TypesNext DEF IniInv, options
  <2>3. copy \in BOOLEAN /\ (copy <=> Copying)
    BY DEF Copying
  <2>. HIDE DEF copy
  <2>4. Safe(copy)
    BY <2>1, <2>3, SameSafe
  <2>5. LoadStep
    <3>1. load # NULL => load \in Loads
      BY DEF IniInv, IniTypeOK
    <3>. QED
      BY <2>1, <3>1 DEF LoadStep, IniInv, LoadOK
  <2>. QED
    BY <2>1, <2>2, <2>3, <2>4, <2>5, SafeInv
<1>5. CASE Call /\ ~Reset
  BY <1>5, CallInv
<1>. QED
  BY <1>1, <1>2, <1>3, <1>4, <1>5 DEF IniNext

-----------------------------------------------------------------------------
(* The theorems *)

\* The inductive invariant: types, distinct load orders, and allocations that are
\* used once and are live, in every state of a behaviour.
THEOREM IniInvariant == IniSpec => []IniInv
BY IniInitInv, IniNextInv, PTL DEF IniSpec

\* Every variable keeps its type, and load orders are distinct, whatever is
\* loaded, parsed, added, replaced, deleted, saved and reset.
THEOREM IniTypes == IniSpec => []IniTypeOK
<1>1. IniInv => IniTypeOK
  BY DEF IniInv
<1>. QED
  BY <1>1, IniInvariant, PTL

\* What the table points to is allocated, and no copied string is pointed to
\* twice: no call of DeleteString frees what another entry uses.
THEOREM IniStringsLive == IniSpec => []StringsLive
<1>1. IniInv => StringsLive
  BY DEF IniInv
<1>. QED
  BY <1>1, IniInvariant, PTL

-----------------------------------------------------------------------------
(* Sorted sets with an entry more, another entry in place of one, or fewer *)
(* entries                                                                 *)

\* an instance has its own names for what its module takes from others
LEMMA DocumentOperators ==
  /\ \A S : Document!Cardinality(S) = Cardinality(S)
  /\ \A S : Document!Min(S) = Min(S)
  /\ \A q : Document!ToSet(q) = {q[i] : i \in DOMAIN q}
  /\ \A q : Document!Last(q) = q[Len(q)]
<1>1. ASSUME NEW S PROVE Document!Cardinality(S) = Cardinality(S)
  BY DEF Document!Cardinality, Cardinality
<1>2. ASSUME NEW S PROVE Document!Min(S) = Min(S)
  BY DEF Document!Min, Min
<1>3. ASSUME NEW q PROVE Document!ToSet(q) = {q[i] : i \in DOMAIN q}
  BY DEF Document!ToSet
<1>4. ASSUME NEW q PROVE Document!Last(q) = q[Len(q)]
  BY DEF Document!Last
<1>. QED
  BY <1>1, <1>2, <1>3, <1>4

LEMMA SortedAt ==
  ASSUME NEW S, Ordered(S), NEW e \in S
  PROVE  Rank(S, e) \in 1..Cardinality(S) /\ Sorted(S)[Rank(S, e)] = e
<1>1. Rank(S, e) \in 1..Cardinality(S)
  BY RankType
<1>2. Sorted(S)[Rank(S, e)] \in S /\ Rank(S, Sorted(S)[Rank(S, e)]) = Rank(S, e)
  BY <1>1, SortedIsSorted
<1>. QED
  BY <1>1, <1>2, RankInjective

LEMMA RankOrder ==
  ASSUME NEW S, Ordered(S), NEW e \in S, NEW f \in S
  PROVE  Rank(S, e) <= Rank(S, f) <=> e.nOrder <= f.nOrder
<1>1. e.nOrder \in Nat /\ f.nOrder \in Nat /\ Rank(S, e) \in Nat /\ Rank(S, f) \in Nat
  BY RankType, FS_CardinalityType DEF Ordered
<1>2. CASE e.nOrder < f.nOrder
  BY <1>1, <1>2, RankGrows
<1>3. CASE f.nOrder < e.nOrder
  BY <1>1, <1>3, RankGrows
<1>4. CASE e.nOrder = f.nOrder
  <2>1. e = f
    BY <1>4 DEF Ordered
  <2>. QED
    BY <1>1, <2>1
<1>. QED
  BY <1>1, <1>2, <1>3, <1>4

LEMMA SortedEmpty == Sorted({}) = <<>> /\ Ordered({})
<1>1. IsFiniteSet({}) /\ Cardinality({}) = 0
  BY FS_EmptySet
<1>. QED
  BY <1>1 DEF Sorted, Ordered

\* an entry with a later load order than all
LEMMA SortedAppend ==
  ASSUME NEW S, Ordered(S), NEW e, e.nOrder \in Nat, \A f \in S : f.nOrder < e.nOrder
  PROVE  Ordered(S \cup {e}) /\ Sorted(S \cup {e}) = Append(Sorted(S), e)
<1>. DEFINE T == S \cup {e}
            n == Cardinality(S)
<1>1. e \notin S
  BY DEF Ordered
<1>2. IsFiniteSet(T) /\ Cardinality(T) = n + 1 /\ n \in Nat
  BY <1>1, FS_AddElement, FS_CardinalityType DEF Ordered
<1>3. Ordered(T)
  BY <1>2 DEF Ordered
<1>4. ASSUME NEW f \in S PROVE Rank(T, f) = Rank(S, f)
  <2>1. {g \in T : g.nOrder <= f.nOrder} = {g \in S : g.nOrder <= f.nOrder}
    BY DEF Ordered
  <2>. QED
    BY <2>1 DEF Rank
<1>5. Rank(T, e) = n + 1
  <2>1. {g \in T : g.nOrder <= e.nOrder} = T
    BY DEF Ordered
  <2>. QED
    BY <1>2, <2>1 DEF Rank
<1>. DEFINE q == Append(Sorted(S), e)
<1>6. Sorted(S) \in Seq(S) /\ Len(Sorted(S)) = n /\ Sorted(S) \in [1..n -> S]
  BY SortedIsSorted
<1>7. q \in [1..n + 1 -> T] /\ q[n + 1] = e /\ \A i \in 1..n : q[i] = Sorted(S)[i]
  <2>. DEFINE s == Sorted(S)
  <2>1. s \in Seq(T) /\ Len(s) = n /\ e \in T
    BY <1>6
  <2>. HIDE DEF s, T, n
  <2>2. /\ Append(s, e) \in Seq(T) /\ Len(Append(s, e)) = n + 1 /\ Append(s, e)[n + 1] = e
        /\ \A i \in 1..n : Append(s, e)[i] = s[i]
    BY <2>1, AppendProperties
  <2>. DEFINE w == Append(s, e)
  <2>. HIDE DEF w
  <2>3. w \in Seq(T) /\ Len(w) = n + 1
    BY <2>2 DEF w
  <2>4. w \in [1..n + 1 -> T]
    BY <2>3
  <2>. QED
    BY <2>2, <2>4 DEF s, w
<1>8. Sorted(T) \in [1..n + 1 -> T]
  BY <1>2, <1>3, SortedIsSorted
<1>9. ASSUME NEW i \in 1..n + 1 PROVE Sorted(T)[i] = q[i]
  <2>1. CASE i = n + 1
    BY <1>3, <1>5, <1>7, <2>1, SortedAt
  <2>2. CASE i \in 1..n
    <3>1. Sorted(S)[i] \in S /\ Rank(S, Sorted(S)[i]) = i
      BY <2>2, SortedIsSorted
    <3>2. Rank(T, Sorted(S)[i]) = i
      BY <1>4, <3>1
    <3>3. Sorted(T)[i] = Sorted(S)[i]
      BY <1>3, <3>1, <3>2, SortedAt
    <3>. QED
      BY <1>7, <2>2, <3>3
  <2>3. i = n + 1 \/ i \in 1..n
    BY <1>2
  <2>. QED
    BY <2>1, <2>2, <2>3
<1>. HIDE DEF q, T, n
<1>10. Sorted(T) = q
  <2>1. q = [i \in 1..n + 1 |-> q[i]] /\ Sorted(T) = [i \in 1..n + 1 |-> Sorted(T)[i]]
    BY <1>7, <1>8
  <2>. QED
    BY <1>9, <2>1
<1>. QED
  BY <1>3, <1>10 DEF q, T

\* another entry with the load order of one
LEMMA SortedReplace ==
  ASSUME NEW S, Ordered(S), NEW g \in S, NEW e, e.nOrder = g.nOrder
  PROVE  /\ Ordered((S \ {g}) \cup {e})
         /\ Sorted((S \ {g}) \cup {e}) = [Sorted(S) EXCEPT ![Rank(S, g)] = e]
<1>. DEFINE T == (S \ {g}) \cup {e}
            n == Cardinality(S)
<1>1. e \notin S \ {g}
  BY DEF Ordered
<1>2. ASSUME NEW A \in SUBSET S, g \in A
      PROVE  /\ IsFiniteSet((A \ {g}) \cup {e})
             /\ Cardinality((A \ {g}) \cup {e}) = Cardinality(A)
  <2>1. IsFiniteSet(A)
    BY FS_Subset DEF Ordered
  <2>2. IsFiniteSet(A \ {g}) /\ Cardinality(A \ {g}) = Cardinality(A) - 1
    BY <1>2, <2>1, FS_RemoveElement
  <2>3. e \notin A \ {g}
    BY <1>1
  <2>4. Cardinality(A) \in Nat
    BY <2>1, FS_CardinalityType
  <2>. DEFINE B == A \ {g}
  <2>. HIDE DEF B
  <2>5. IsFiniteSet(B \cup {e}) /\ Cardinality(B \cup {e}) = Cardinality(B) + 1
    BY <2>2, <2>3, FS_AddElement DEF B
  <2>. QED
    BY <2>2, <2>4, <2>5 DEF B
<1>3. IsFiniteSet(T) /\ Cardinality(T) = n /\ n \in Nat
  BY <1>2, FS_CardinalityType DEF Ordered
<1>4. Ordered(T)
  BY <1>3 DEF Ordered
<1>5. ASSUME NEW f, f.nOrder \in Nat, NEW h, h.nOrder = f.nOrder PROVE Rank(T, f) = Rank(S, h)
  <2>. DEFINE A == {x \in S : x.nOrder <= h.nOrder}
              B == {x \in T : x.nOrder <= f.nOrder}
  <2>1. CASE g \in A
    <3>1. B = (A \ {g}) \cup {e}
      BY <1>5, <2>1
    <3>2. A \in SUBSET S
      OBVIOUS
    <3>3. Cardinality(B) = Cardinality(A)
      BY <1>2, <2>1, <3>1, <3>2
    <3>. QED
      BY <3>3 DEF Rank
  <2>2. CASE g \notin A
    <3>1. B = A
      BY <1>5, <2>2
    <3>. QED
      BY <3>1 DEF Rank
  <2>. QED
    BY <2>1, <2>2
<1>6. \A f \in S : f.nOrder \in Nat
  BY DEF Ordered
<1>. DEFINE q == [Sorted(S) EXCEPT ![Rank(S, g)] = e]
<1>7. Sorted(S) \in [1..n -> S] /\ Rank(S, g) \in 1..n
  BY SortedIsSorted, SortedAt
<1>8. Sorted(T) \in [1..n -> T]
  BY <1>3, <1>4, SortedIsSorted
<1>9. ASSUME NEW i \in 1..n PROVE Sorted(T)[i] = q[i]
  <2>. DEFINE f == Sorted(S)[i]
  <2>1. f \in S /\ Rank(S, f) = i
    BY SortedIsSorted
  <2>2. CASE i = Rank(S, g)
    <3>1. Rank(T, e) = i
      BY <1>5, <1>6, <2>2
    <3>2. Sorted(T)[i] = e
      BY <1>4, <3>1, SortedAt
    <3>. QED
      BY <1>7, <2>2, <3>2
  <2>3. CASE i # Rank(S, g)
    <3>1. f \in T
      BY <2>1, <2>3
    <3>2. Rank(T, f) = i
      BY <1>5, <1>6, <2>1
    <3>3. Sorted(T)[i] = f
      BY <1>4, <3>1, <3>2, SortedAt
    <3>. QED
      BY <1>7, <2>3, <3>3
  <2>. QED
    BY <2>2, <2>3
<1>10. q \in [1..n -> S \cup {e}] /\ DOMAIN q = 1..n
  BY <1>7
<1>. HIDE DEF q, T, n
<1>11. Sorted(T) = q
  <2>1. q = [i \in 1..n |-> q[i]] /\ Sorted(T) = [i \in 1..n |-> Sorted(T)[i]]
    BY <1>8, <1>10
  <2>. QED
    BY <1>9, <2>1
<1>. QED
  BY <1>4, <1>11 DEF q, T

\* some of the entries
LEMMA SortedSubset ==
  ASSUME NEW S, Ordered(S), NEW T \in SUBSET S
  PROVE  /\ Ordered(T)
         /\ \E at \in [1..Cardinality(T) -> 1..Cardinality(S)] :
              /\ \A m \in 1..Cardinality(T) : Sorted(T)[m] = Sorted(S)[at[m]]
              /\ \A p : DOMAIN p = 1..Cardinality(S) =>
                   Document!Remaining(p, {i \in 1..Cardinality(S) : Sorted(S)[i] \notin T})
                     = [m \in 1..Cardinality(T) |-> p[at[m]]]
<1>. DEFINE n == Cardinality(S)
            q == Sorted(S)
            gone == {i \in 1..n : q[i] \notin T}
            left == DOMAIN q \ gone
            upTo(i) == {j \in left : j <= i}
<1>1. Ordered(T)
  BY OrderedSubset
<1>2. q \in [1..n -> S] /\ DOMAIN q = 1..n /\ n \in Nat
  BY SortedIsSorted
<1>3. left = {i \in 1..n : q[i] \in T}
  BY <1>2
<1>4. \A i \in 1..n : q[i] \in S /\ Rank(S, q[i]) = i
  BY SortedIsSorted
<1>5. \A f \in S : Rank(S, f) \in 1..n /\ q[Rank(S, f)] = f
  BY SortedAt
<1>. HIDE DEF q, n, left
<1>6. \A A \in SUBSET left : IsFiniteSet(A)
  <2>1. IsFiniteSet(1..n)
    BY <1>2, FS_Interval
  <2>. QED
    BY <1>3, <2>1, FS_Subset
<1>7. ASSUME NEW A \in SUBSET left, NEW B \in SUBSET T,
             \A j \in A : q[j] \in B, \A f \in B : Rank(S, f) \in A
      PROVE  Cardinality(A) = Cardinality(B)
  <2>. DEFINE bij == [j \in A |-> q[j]]
  <2>1. \A j, k \in A : bij[j] = bij[k] => j = k
    BY <1>3, <1>4
  <2>2. bij \in Bijection(A, B)
    BY <1>5, <1>7, <2>1 DEF Bijection, Injection, Surjection, IsInjective
  <2>3. IsFiniteSet(A)
    BY <1>6
  <2>. QED
    BY <2>2, <2>3, FS_Bijection DEF ExistsBijection
<1>8. Cardinality(left) = Cardinality(T)
  <2>1. \A f \in T : Rank(S, f) \in left
    BY <1>3, <1>5
  <2>2. \A j \in left : q[j] \in T
    BY <1>3
  <2>. QED
    BY <1>7, <2>1, <2>2
<1>9. ASSUME NEW i \in left PROVE Cardinality(upTo(i)) = Rank(T, q[i])
  <2>. DEFINE B == {f \in T : f.nOrder <= q[i].nOrder}
  <2>1. q[i] \in T /\ Rank(S, q[i]) = i
    BY <1>3, <1>4
  <2>2. ASSUME NEW j \in upTo(i) PROVE q[j] \in B
    <3>1. q[j] \in T /\ Rank(S, q[j]) = j /\ j <= i
      BY <1>3, <1>4
    <3>. QED
      BY <2>1, <3>1, RankOrder
  <2>3. ASSUME NEW f \in B PROVE Rank(S, f) \in upTo(i)
    <3>1. Rank(S, f) \in left
      BY <1>3, <1>5
    <3>2. Rank(S, f) <= i
      BY <2>1, RankOrder
    <3>. QED
      BY <3>1, <3>2
  <2>4. upTo(i) \in SUBSET left /\ B \in SUBSET T
    OBVIOUS
  <2>. QED
    BY <1>7, <2>2, <2>3, <2>4 DEF Rank
<1>. DEFINE nth(m) == CHOOSE i \in left : Document!Cardinality(upTo(i)) = m
            at == [m \in 1..Cardinality(T) |-> nth(m)]
<1>10. Sorted(T) \in [1..Cardinality(T) -> T]
  BY <1>1, SortedIsSorted
<1>11. ASSUME NEW m \in 1..Cardinality(T)
      PROVE  nth(m) \in 1..n /\ q[nth(m)] = Sorted(T)[m]
  <2>. DEFINE f == Sorted(T)[m]
  <2>1. f \in T /\ Rank(T, f) = m
    BY <1>1, SortedIsSorted
  <2>2. Rank(S, f) \in left /\ q[Rank(S, f)] = f
    BY <1>3, <1>5, <2>1
  <2>3. \E i \in left : Document!Cardinality(upTo(i)) = m
    BY <1>9, <2>1, <2>2, DocumentOperators
  <2>4. nth(m) \in left /\ Document!Cardinality(upTo(nth(m))) = m
    BY <2>3
  <2>. HIDE DEF nth, f
  <2>5. q[nth(m)] \in T /\ Rank(T, q[nth(m)]) = m
    BY <1>3, <1>9, <2>4, DocumentOperators
  <2>. QED
    BY <1>1, <1>3, <2>1, <2>4, <2>5, RankInjective DEF f
<1>12. /\ at \in [1..Cardinality(T) -> 1..n]
       /\ \A m \in 1..Cardinality(T) : Sorted(T)[m] = q[at[m]]
  BY <1>11
<1>13. ASSUME NEW p, DOMAIN p = 1..n
       PROVE  Document!Remaining(p, gone) = [m \in 1..Cardinality(T) |-> p[at[m]]]
  <2>1. \A A : Document!Cardinality(A) = Cardinality(A)
    BY DocumentOperators
  <2>2. DOMAIN p \ gone = left
    BY <1>2, <1>13 DEF left
  <2>3. Document!Remaining(p, gone)
          = [m \in 1..Document!Cardinality(DOMAIN p \ gone) |->
               p[CHOOSE i \in DOMAIN p \ gone :
                   Document!Cardinality({j \in DOMAIN p \ gone : j <= i}) = m]]
    BY DEF Document!Remaining
  <2>. HIDE DEF gone
  <2>4. Document!Remaining(p, gone) = [m \in 1..Document!Cardinality(left) |-> p[nth(m)]]
    BY <2>2, <2>3
  <2>5. Document!Cardinality(left) = Cardinality(T)
    BY <1>8, <2>1
  <2>. HIDE DEF nth
  <2>. QED
    BY <2>4, <2>5
<1>. HIDE DEF at
<1>14. \A p : DOMAIN p = 1..n =>
         Document!Remaining(p, gone) = [m \in 1..Cardinality(T) |-> p[at[m]]]
  BY <1>13
<1>15. gone = {i \in 1..Cardinality(S) : Sorted(S)[i] \notin T}
  BY DEF q, n
<1>. HIDE DEF gone
<1>. QED
  BY <1>1, <1>12, <1>14, <1>15 DEF q, n

-----------------------------------------------------------------------------
(* The table as a document *)

SectionsOf(data) == {data[s] : s \in DOMAIN data}
DocEntries(keys) == [j \in 1..Cardinality(keys) |-> DocEntry(Sorted(keys)[j])]
DocOf(data) ==
  [i \in 1..Cardinality(SectionsOf(data)) |-> DocSection(Sorted(SectionsOf(data))[i])]

LEMMA DocIs ==
  /\ Ordered(SectionsOf(m_data)) => Doc = DocOf(m_data)
  /\ Ordered(SectionsOf(m_data')) => Doc' = DocOf(m_data')
<1>1. \A S : Ordered(S) => DOMAIN Sorted(S) = 1..Cardinality(S)
  BY SortedIsSorted
<1>2. GetAllSections = Sorted(SectionsOf(m_data)) /\ GetAllSections' = Sorted(SectionsOf(m_data'))
  BY DEF GetAllSections, SectionsOf
<1>3. Doc = [i \in DOMAIN GetAllSections |-> DocSection(GetAllSections[i])]
  BY DEF Doc
<1>4. Doc' = [i \in DOMAIN GetAllSections' |-> DocSection(GetAllSections'[i])]
  BY DEF Doc
<1>. QED
  BY <1>1, <1>2, <1>3, <1>4 DEF DocOf

LEMMA DocSectionIs ==
  ASSUME NEW section, Ordered(section.keys)
  PROVE  DocSection(section) = [name |-> section.pItem.text, comment |-> TextOf(section.pComment),
                                entries |-> DocEntries(section.keys)]
<1>1. DOMAIN Sorted(section.keys) = 1..Cardinality(section.keys)
  BY SortedIsSorted
<1>. QED
  BY <1>1 DEF DocSection, DocEntries

LEMMA TableSections ==
  ASSUME NEW data, NEW max, TableOK(data, max)
  PROVE  /\ Ordered(SectionsOf(data))
         /\ \A s \in DOMAIN data : /\ data[s] \in SectionsOf(data) /\ data[s].pItem.text = s
                                   /\ Ordered(data[s].keys)
         /\ \A section \in SectionsOf(data) : /\ section.pItem.text \in DOMAIN data
                                              /\ section = data[section.pItem.text]
                                              /\ section.nOrder \in 1..max
<1>1. IsFiniteSet(SectionsOf(data))
  <2>. DEFINE S == SectionsOf(data)
  <2>1. data \in Surjection(DOMAIN data, S)
    BY DEF TableOK, Surjection, SectionsOf
  <2>. HIDE DEF S
  <2>2. IsFiniteSet(S)
    BY <2>1, FS_Surjection DEF TableOK
  <2>. QED
    BY <2>2 DEF S
<1>2. \A s \in DOMAIN data : SectionOK(s, data[s], max)
  BY DEF TableOK
<1>3. \A s \in DOMAIN data : data[s].pItem.text = s /\ data[s].nOrder \in 1..max
  BY <1>2 DEF SectionOK
<1>4. \A section \in SectionsOf(data) : /\ section.pItem.text \in DOMAIN data
                                        /\ section = data[section.pItem.text]
                                        /\ section.nOrder \in 1..max
  BY <1>3 DEF SectionsOf
<1>5. max \in Nat
  BY DEF TableOK
<1>6. Ordered(SectionsOf(data))
  <2>1. ASSUME NEW x \in SectionsOf(data), NEW y \in SectionsOf(data), x.nOrder = y.nOrder PROVE x = y
    BY <1>4, <2>1 DEF TableOK
  <2>. QED
    BY <1>1, <1>4, <1>5, <2>1 DEF Ordered
<1>7. ASSUME NEW s \in DOMAIN data PROVE Ordered(data[s].keys)
  BY <1>2, <1>5 DEF SectionOK, Ordered
<1>. QED
  BY <1>3, <1>4, <1>6, <1>7 DEF SectionsOf

LEMMA OnlyPlace ==
  ASSUME NEW r \in Nat
  PROVE  Document!FirstOf({r}) = r /\ Document!FirstOf({}) = 0
<1>1. {r} \subseteq Nat /\ {r} # {}
  OBVIOUS
<1>2. Min({r}) \in {r}
  BY <1>1, MinIsLeast
<1>. QED
  BY <1>2, DocumentOperators DEF Document!FirstOf

\* where a section is in the document
LEMMA SectionPlace ==
  ASSUME TableOK(m_data, m_nOrder), NEW s
  PROVE  /\ s \in DOMAIN m_data =>
              /\ Document!SectionAt(s) = Rank(SectionsOf(m_data), m_data[s])
              /\ Document!SectionAt(s) \in 1..Cardinality(SectionsOf(m_data))
              /\ Doc[Document!SectionAt(s)] = DocSection(m_data[s])
         /\ s \notin DOMAIN m_data => Document!SectionAt(s) = 0
         /\ DOMAIN Doc = 1..Cardinality(SectionsOf(m_data))
<1>. DEFINE S == SectionsOf(m_data)
            n == Cardinality(S)
            q == Sorted(S)
            places == {i \in DOMAIN Doc : Doc[i].name = s}
<1>1. /\ Ordered(S)
      /\ \A t \in DOMAIN m_data : m_data[t] \in S /\ m_data[t].pItem.text = t
      /\ \A x \in S : x.pItem.text \in DOMAIN m_data /\ x = m_data[x.pItem.text]
  BY TableSections
<1>2. Doc = [i \in 1..n |-> DocSection(q[i])] /\ DOMAIN Doc = 1..n
  BY <1>1, DocIs DEF DocOf
<1>3. \A i \in 1..n : q[i] \in S /\ Rank(S, q[i]) = i
  BY <1>1, SortedIsSorted
<1>4. \A section : DocSection(section).name = section.pItem.text
  BY DEF DocSection
<1>. HIDE DEF S, n, q
<1>5. places = {i \in 1..n : q[i].pItem.text = s}
  BY <1>2, <1>4
<1>6. Document!SectionAt(s) = Document!FirstOf(places)
  BY DEF Document!SectionAt
<1>. HIDE DEF places
<1>7. CASE s \in DOMAIN m_data
  <2>. DEFINE r == Rank(S, m_data[s])
  <2>1. r \in 1..n /\ q[r] = m_data[s]
    BY <1>1, <1>7, SortedAt DEF n, q
  <2>2. ASSUME NEW i \in places PROVE i = r
    <3>1. q[i] \in S /\ q[i].pItem.text = s /\ Rank(S, q[i]) = i
      BY <1>3, <1>5
    <3>2. q[i] = m_data[s]
      BY <1>1, <3>1
    <3>. QED
      BY <3>1, <3>2
  <2>3. r \in places
    BY <1>1, <1>5, <1>7, <2>1
  <2>4. n \in Nat
    BY <1>1, SortedIsSorted DEF n
  <2>5. places = {r} /\ r \in Nat
    BY <2>1, <2>2, <2>3, <2>4
  <2>. HIDE DEF r
  <2>6. Document!SectionAt(s) = r
    BY <1>6, <2>5, OnlyPlace
  <2>7. Doc[r] = DocSection(m_data[s])
    BY <1>2, <2>1
  <2>. QED
    BY <1>2, <1>7, <2>1, <2>6, <2>7 DEF r, n, S
<1>8. CASE s \notin DOMAIN m_data
  <2>1. places = {}
    BY <1>1, <1>3, <1>5, <1>8
  <2>2. Document!SectionAt(s) = 0
    BY <1>6, <2>1, OnlyPlace
  <2>. QED
    BY <1>2, <1>8, <2>2 DEF n, S
<1>. QED
  BY <1>7, <1>8

LEMMA EntriesPlace ==
  ASSUME TableOK(m_data, m_nOrder), NEW s
  PROVE  Document!EntriesOf(s) = DocEntries(Entries(s)) /\ Ordered(Entries(s))
<1>1. CASE s \in DOMAIN m_data
  <2>1. Entries(s) = m_data[s].keys /\ Ordered(m_data[s].keys)
    BY <1>1, TableSections DEF Entries
  <2>2. DocSection(m_data[s]).entries = DocEntries(m_data[s].keys)
    BY <2>1, DocSectionIs
  <2>3. Document!SectionAt(s) # 0 /\ Doc[Document!SectionAt(s)] = DocSection(m_data[s])
    BY <1>1, SectionPlace
  <2>. QED
    BY <2>1, <2>2, <2>3 DEF Document!EntriesOf
<1>2. CASE s \notin DOMAIN m_data
  <2>1. Entries(s) = {} /\ Document!SectionAt(s) = 0
    BY <1>2, SectionPlace DEF Entries
  <2>2. Cardinality({}) = 0
    BY FS_EmptySet
  <2>3. DocEntries({}) = <<>>
    BY <2>2 DEF DocEntries
  <2>. QED
    BY <2>1, <2>3, SortedEmpty DEF Document!EntriesOf
<1>. QED
  BY <1>1, <1>2

\* the sequence of what f makes of the entries of S
View(S, f) == [j \in 1..Cardinality(S) |-> f[Sorted(S)[j]]]

LEMMA ViewAppend ==
  ASSUME NEW S, Ordered(S), NEW f, NEW e, e.nOrder \in Nat, \A y \in S : y.nOrder < e.nOrder
  PROVE  View(S \cup {e}, f) = Append(View(S, f), f[e])
<1>. DEFINE T == S \cup {e}
            n == Cardinality(S)
            q == Sorted(S)
            V == {f[y] : y \in T}
            d == View(S, f)
            x == f[e]
<1>1. Ordered(T) /\ Sorted(T) = Append(q, e)
  BY SortedAppend
<1>2. q \in Seq(S) /\ Len(q) = n /\ q \in [1..n -> S] /\ n \in Nat
  BY SortedIsSorted
<1>3. Cardinality(T) = n + 1
  <2>1. e \notin S
    BY DEF Ordered
  <2>. QED
    BY <1>2, <2>1, FS_AddElement DEF Ordered
<1>4. Sorted(T)[n + 1] = e /\ \A i \in 1..n : Sorted(T)[i] = q[i]
  <2>1. q \in Seq(T) /\ e \in T
    BY <1>2
  <2>. HIDE DEF q, T
  <2>2. Append(q, e)[n + 1] = e /\ \A i \in 1..n : Append(q, e)[i] = q[i]
    BY <1>2, <2>1, AppendProperties
  <2>. QED
    BY <1>1, <2>2
<1>5. d \in [1..n -> V] /\ \A i \in 1..n : d[i] = f[q[i]]
  BY <1>2 DEF View
<1>6. d \in Seq(V) /\ Len(d) = n /\ x \in V
  BY <1>2, <1>5
<1>7. View(T, f) = [j \in 1..n + 1 |-> f[Sorted(T)[j]]]
  BY <1>3 DEF View
<1>. HIDE DEF d, V, T, q, n, x
<1>8. /\ Append(d, x) \in Seq(V) /\ Len(Append(d, x)) = n + 1 /\ Append(d, x)[n + 1] = x
      /\ \A i \in 1..n : Append(d, x)[i] = d[i]
  BY <1>6, AppendProperties
<1>. DEFINE w == Append(d, x)
<1>. HIDE DEF w
<1>9. w \in Seq(V) /\ Len(w) = n + 1
  BY <1>8 DEF w
<1>10. w = [j \in 1..n + 1 |-> w[j]]
  BY <1>9
<1>11. ASSUME NEW j \in 1..n + 1 PROVE w[j] = f[Sorted(T)[j]]
  <2>1. CASE j = n + 1
    BY <1>4, <1>8, <2>1 DEF w, x
  <2>2. CASE j \in 1..n
    BY <1>4, <1>5, <1>8, <2>2 DEF w
  <2>. QED
    BY <1>2, <2>1, <2>2
<1>12. w = View(T, f)
  BY <1>7, <1>10, <1>11
<1>. QED
  BY <1>12 DEF w, d, x, T

LEMMA ViewReplace ==
  ASSUME NEW S, Ordered(S), NEW f, NEW g \in S, NEW e, e.nOrder = g.nOrder
  PROVE  View((S \ {g}) \cup {e}, f) = [View(S, f) EXCEPT ![Rank(S, g)] = f[e]]
<1>. DEFINE T == (S \ {g}) \cup {e}
            n == Cardinality(S)
            q == Sorted(S)
            r == Rank(S, g)
<1>1. Ordered(T) /\ Sorted(T) = [q EXCEPT ![r] = e]
  BY SortedReplace
<1>2. q \in [1..n -> S] /\ DOMAIN Sorted(T) = 1..Cardinality(T) /\ r \in 1..n
  BY <1>1, SortedIsSorted, SortedAt
<1>. HIDE DEF T, n, q, r
<1>3. 1..Cardinality(T) = 1..n
  BY <1>1, <1>2
<1>4. \A i \in 1..n : Sorted(T)[i] = IF i = r THEN e ELSE q[i]
  BY <1>1, <1>2
<1>5. View(T, f) = [j \in 1..n |-> f[Sorted(T)[j]]]
  BY <1>3 DEF View
<1>6. View(S, f) = [j \in 1..n |-> f[q[j]]]
  BY DEF View, n, q
<1>. DEFINE d == View(S, f)
<1>7. [d EXCEPT ![r] = f[e]] = [j \in 1..n |-> IF j = r THEN f[e] ELSE d[j]]
  BY <1>6
<1>8. \A j \in 1..n : d[j] = f[q[j]]
  BY <1>6
<1>. HIDE DEF d
<1>9. View(T, f) = [d EXCEPT ![r] = f[e]]
  BY <1>4, <1>5, <1>7, <1>8
<1>. QED
  BY <1>9 DEF T, r, d

LEMMA ViewSubset ==
  ASSUME NEW S, Ordered(S), NEW f, NEW T \in SUBSET S
  PROVE  View(T, f)
           = Document!Remaining(View(S, f), {i \in 1..Cardinality(S) : Sorted(S)[i] \notin T})
<1>. DEFINE gone == {i \in 1..Cardinality(S) : Sorted(S)[i] \notin T}
            d == View(S, f)
<1>. HIDE DEF gone
<1>1. PICK at \in [1..Cardinality(T) -> 1..Cardinality(S)] :
        /\ \A m \in 1..Cardinality(T) : Sorted(T)[m] = Sorted(S)[at[m]]
        /\ \A p : DOMAIN p = 1..Cardinality(S) =>
             Document!Remaining(p, gone) = [m \in 1..Cardinality(T) |-> p[at[m]]]
  BY SortedSubset DEF gone
<1>2. DOMAIN d = 1..Cardinality(S)
  BY DEF View
<1>3. Document!Remaining(d, gone) = [m \in 1..Cardinality(T) |-> d[at[m]]]
  BY <1>1, <1>2
<1>4. ASSUME NEW m \in 1..Cardinality(T) PROVE d[at[m]] = f[Sorted(T)[m]]
  BY <1>1 DEF View
<1>5. View(T, f) = [m \in 1..Cardinality(T) |-> f[Sorted(T)[m]]]
  BY DEF View
<1>. HIDE DEF d
<1>6. View(T, f) = Document!Remaining(d, gone)
  BY <1>3, <1>4, <1>5
<1>. QED
  BY <1>6 DEF d, gone

LEMMA ViewsOfTable ==
  /\ \A S, U : Ordered(S) /\ S \subseteq U => DocEntries(S) = View(S, [x \in U |-> DocEntry(x)])
  /\ \A data, max, U : TableOK(data, max) /\ SectionsOf(data) \subseteq U =>
       DocOf(data) = View(SectionsOf(data), [x \in U |-> DocSection(x)])
<1>1. \A S, i : Ordered(S) /\ i \in 1..Cardinality(S) => Sorted(S)[i] \in S
  BY SortedIsSorted
<1>2. ASSUME NEW S, NEW U, Ordered(S), S \subseteq U
      PROVE  DocEntries(S) = View(S, [x \in U |-> DocEntry(x)])
  <2>1. \A i \in 1..Cardinality(S) : Sorted(S)[i] \in U
    BY <1>1, <1>2
  <2>. QED
    BY <2>1 DEF DocEntries, View
<1>3. ASSUME NEW data, NEW max, NEW U, TableOK(data, max), SectionsOf(data) \subseteq U
      PROVE  DocOf(data) = View(SectionsOf(data), [x \in U |-> DocSection(x)])
  <2>. DEFINE S == SectionsOf(data)
  <2>1. Ordered(S)
    BY <1>3, TableSections
  <2>2. \A i \in 1..Cardinality(S) : Sorted(S)[i] \in U
    BY <1>1, <1>3, <2>1
  <2>. QED
    BY <2>2 DEF DocOf, View
<1>. QED
  BY <1>2, <1>3

\* a section is put into the table
LEMMA DocWithSection ==
  ASSUME TableOK(m_data, m_nOrder), NEW m \in Nat, m_nOrder <= m,
         NEW s, NEW section, SectionOK(s, section, m),
         \/ s \in DOMAIN m_data /\ section.nOrder = m_data[s].nOrder
         \/ section.nOrder > m_nOrder,
         m_data' = WithSection(s, section)
  PROVE  /\ s \in DOMAIN m_data /\ section.nOrder = m_data[s].nOrder =>
              Doc' = [Doc EXCEPT ![Document!SectionAt(s)] = DocSection(section)]
         /\ s \notin DOMAIN m_data => Doc' = Append(Doc, DocSection(section))
         /\ s \in DOMAIN m_data /\ section = m_data[s] => Doc' = Doc
<1>. DEFINE S == SectionsOf(m_data)
            T == SectionsOf(m_data')
            f == [x \in S \cup T |-> DocSection(x)]
<1>1. TableOK(m_data', m)
  BY WithSectionOK
<1>2. Ordered(S) /\ Ordered(T)
  BY <1>1, TableSections
<1>3. Doc = DocOf(m_data) /\ Doc' = DocOf(m_data')
  BY <1>2, DocIs
<1>4. Doc = View(S, f) /\ Doc' = View(T, f)
  <2>1. S \subseteq S \cup T /\ T \subseteq S \cup T
    OBVIOUS
  <2>. DEFINE U == S \cup T
  <2>. HIDE DEF U
  <2>2. DocOf(m_data) = View(S, [x \in U |-> DocSection(x)])
    BY <2>1, ViewsOfTable DEF U
  <2>3. DocOf(m_data') = View(T, [x \in U |-> DocSection(x)])
    BY <1>1, <2>1, ViewsOfTable DEF U
  <2>. QED
    BY <1>3, <2>2, <2>3 DEF U
<1>5. /\ DOMAIN m_data' = DOMAIN m_data \cup {s} /\ m_data'[s] = section
      /\ \A t \in DOMAIN m_data \ {s} : m_data'[t] = m_data[t]
  BY DEF WithSection
<1>6. section \in T
  BY <1>5 DEF SectionsOf
<1>7. f[section] = DocSection(section)
  BY <1>6
<1>8. /\ \A t \in DOMAIN m_data : m_data[t] \in S /\ m_data[t].pItem.text = t
      /\ \A x \in S : x.pItem.text \in DOMAIN m_data /\ x = m_data[x.pItem.text] /\ x.nOrder \in 1..m_nOrder
  BY TableSections
<1>9. section.nOrder \in Nat /\ m_nOrder \in Nat
  BY DEF SectionOK, TableOK
<1>. HIDE DEF f
<1>10. ASSUME s \in DOMAIN m_data, section.nOrder = m_data[s].nOrder
       PROVE  Doc' = [Doc EXCEPT ![Document!SectionAt(s)] = DocSection(section)]
  <2>. DEFINE g == m_data[s]
  <2>1. g \in S /\ section.nOrder = g.nOrder
    BY <1>8, <1>10
  <2>2. T = (S \ {g}) \cup {section}
    <3>1. ASSUME NEW x \in T PROVE x \in (S \ {g}) \cup {section}
      <4>1. PICK t \in DOMAIN m_data' : x = m_data'[t]
        BY DEF SectionsOf
      <4>2. CASE t = s
        BY <1>5, <4>1, <4>2
      <4>3. CASE t # s
        <5>1. t \in DOMAIN m_data /\ x = m_data[t]
          BY <1>5, <4>1, <4>3
        <5>. QED
          BY <1>8, <1>10, <4>3, <5>1
      <4>. QED
        BY <4>2, <4>3
    <3>2. ASSUME NEW x \in S, x # g PROVE x \in T
      <4>1. PICK t \in DOMAIN m_data : x = m_data[t]
        BY DEF SectionsOf
      <4>2. t # s
        BY <3>2, <4>1
      <4>3. m_data'[t] = x /\ t \in DOMAIN m_data'
        BY <1>5, <4>1, <4>2
      <4>. QED
        BY <4>3 DEF SectionsOf
    <3>. QED
      BY <1>6, <3>1, <3>2
  <2>3. Document!SectionAt(s) = Rank(S, g)
    BY <1>10, SectionPlace
  <2>. HIDE DEF g, S, T
  <2>4. View((S \ {g}) \cup {section}, f) = [View(S, f) EXCEPT ![Rank(S, g)] = f[section]]
    BY <1>2, <2>1, ViewReplace
  <2>. QED
    BY <1>4, <1>7, <2>2, <2>3, <2>4
<1>11. ASSUME s \notin DOMAIN m_data PROVE Doc' = Append(Doc, DocSection(section))
  <2>1. T = S \cup {section}
    BY <1>5, <1>11 DEF SectionsOf
  <2>2. \A y \in S : y.nOrder < section.nOrder
    BY <1>8, <1>9, <1>11
  <2>. HIDE DEF S, T
  <2>3. View(S \cup {section}, f) = Append(View(S, f), f[section])
    BY <1>2, <1>9, <2>2, ViewAppend
  <2>. QED
    BY <1>4, <1>7, <2>1, <2>3
<1>12. ASSUME s \in DOMAIN m_data, section = m_data[s] PROVE Doc' = Doc
  <2>1. T = S
    BY <1>5, <1>12 DEF SectionsOf
  <2>. QED
    BY <1>4, <2>1
<1>. QED
  BY <1>10, <1>11, <1>12

\* a section is removed
LEMMA DocWithout ==
  ASSUME TableOK(m_data, m_nOrder), NEW s \in DOMAIN m_data, m_data' = Without(s)
  PROVE  Doc' = Document!Remaining(Doc, {Document!SectionAt(s)})
<1>. DEFINE S == SectionsOf(m_data)
            T == SectionsOf(m_data')
            g == m_data[s]
            f == [x \in S |-> DocSection(x)]
            gone == {i \in 1..Cardinality(S) : Sorted(S)[i] \notin T}
<1>1. TableOK(m_data', m_nOrder)
  BY WithoutOK
<1>2. Ordered(S) /\ Ordered(T)
  BY <1>1, TableSections
<1>3. Doc = DocOf(m_data) /\ Doc' = DocOf(m_data')
  BY <1>2, DocIs
<1>4. /\ DOMAIN m_data' = DOMAIN m_data \ {s}
      /\ \A t \in DOMAIN m_data \ {s} : m_data'[t] = m_data[t]
  BY DEF Without
<1>5. /\ \A t \in DOMAIN m_data : m_data[t] \in S /\ m_data[t].pItem.text = t
      /\ \A x \in S : x.pItem.text \in DOMAIN m_data /\ x = m_data[x.pItem.text]
  BY TableSections
<1>6. T = S \ {g} /\ g \in S
  <2>1. ASSUME NEW x \in T PROVE x \in S \ {g}
    <3>1. PICK t \in DOMAIN m_data' : x = m_data'[t]
      BY DEF SectionsOf
    <3>. QED
      BY <1>4, <1>5, <3>1
  <2>2. ASSUME NEW x \in S, x # g PROVE x \in T
    <3>1. PICK t \in DOMAIN m_data : x = m_data[t]
      BY DEF SectionsOf
    <3>2. t \in DOMAIN m_data' /\ m_data'[t] = x
      BY <1>4, <2>2, <3>1
    <3>. QED
      BY <3>2 DEF SectionsOf
  <2>. QED
    BY <1>5, <2>1, <2>2
<1>7. Document!SectionAt(s) = Rank(S, g)
  BY SectionPlace
<1>. HIDE DEF S, T, g
<1>8. DocOf(m_data) = View(S, f) /\ DocOf(m_data') = View(T, f)
  <2>1. S \subseteq S /\ T \subseteq S
    BY <1>6
  <2>2. DocOf(m_data) = View(SectionsOf(m_data), [x \in S |-> DocSection(x)])
    BY <2>1, ViewsOfTable DEF S
  <2>3. DocOf(m_data') = View(SectionsOf(m_data'), [x \in S |-> DocSection(x)])
    BY <1>1, <2>1, ViewsOfTable DEF T
  <2>. QED
    BY <2>2, <2>3 DEF S, T
<1>. HIDE DEF f
<1>9. View(T, f) = Document!Remaining(View(S, f), gone)
  BY <1>2, <1>6, ViewSubset
<1>10. gone = {Rank(S, g)}
  <2>1. Rank(S, g) \in 1..Cardinality(S) /\ Sorted(S)[Rank(S, g)] = g
    BY <1>2, <1>6, SortedAt
  <2>2. \A i \in 1..Cardinality(S) : Sorted(S)[i] \in S /\ Rank(S, Sorted(S)[i]) = i
    BY <1>2, SortedIsSorted
  <2>. QED
    BY <1>6, <2>1, <2>2
<1>. HIDE DEF gone
<1>. QED
  BY <1>3, <1>7, <1>8, <1>9, <1>10

-----------------------------------------------------------------------------
(* The entries of a section *)

LEMMA EntriesAppended ==
  ASSUME NEW S, Ordered(S), NEW e, e.nOrder \in Nat, \A y \in S : y.nOrder < e.nOrder
  PROVE  DocEntries(S \cup {e}) = Append(DocEntries(S), DocEntry(e)) /\ Ordered(S \cup {e})
<1>. DEFINE U == S \cup {e}
            f == [x \in U |-> DocEntry(x)]
<1>1. Ordered(U)
  BY SortedAppend
<1>2. View(S \cup {e}, f) = Append(View(S, f), f[e])
  <2>. HIDE DEF f
  <2>. QED
    BY ViewAppend
<1>3. S \subseteq U /\ U \subseteq U /\ f[e] = DocEntry(e)
  OBVIOUS
<1>. HIDE DEF U
<1>4. DocEntries(S) = View(S, f) /\ DocEntries(U) = View(U, f)
  BY <1>1, <1>3, ViewsOfTable
<1>. HIDE DEF f
<1>. QED
  BY <1>1, <1>2, <1>3, <1>4 DEF U

LEMMA EntriesReplaced ==
  ASSUME NEW S, Ordered(S), NEW g \in S, NEW e, e.nOrder = g.nOrder
  PROVE  /\ DocEntries((S \ {g}) \cup {e}) = [DocEntries(S) EXCEPT ![Rank(S, g)] = DocEntry(e)]
         /\ Ordered((S \ {g}) \cup {e})
<1>. DEFINE T == (S \ {g}) \cup {e}
            U == S \cup {e}
            f == [x \in U |-> DocEntry(x)]
<1>1. Ordered(T)
  BY SortedReplace
<1>2. View(T, f) = [View(S, f) EXCEPT ![Rank(S, g)] = f[e]]
  <2>. HIDE DEF f
  <2>. QED
    BY ViewReplace
<1>3. S \subseteq U /\ T \subseteq U /\ f[e] = DocEntry(e)
  OBVIOUS
<1>. HIDE DEF U, T
<1>4. DocEntries(S) = View(S, f) /\ DocEntries(T) = View(T, f)
  BY <1>1, <1>3, ViewsOfTable
<1>. HIDE DEF f
<1>. QED
  BY <1>1, <1>2, <1>3, <1>4 DEF T

LEMMA EntriesRemaining ==
  ASSUME NEW S, Ordered(S), NEW T \in SUBSET S
  PROVE  /\ DocEntries(T)
              = Document!Remaining(DocEntries(S), {i \in 1..Cardinality(S) : Sorted(S)[i] \notin T})
         /\ Ordered(T)
<1>. DEFINE f == [x \in S |-> DocEntry(x)]
<1>1. Ordered(T)
  BY OrderedSubset
<1>2. View(T, f)
        = Document!Remaining(View(S, f), {i \in 1..Cardinality(S) : Sorted(S)[i] \notin T})
  <2>. HIDE DEF f
  <2>. QED
    BY ViewSubset
<1>3. DocEntries(S) = View(S, f) /\ DocEntries(T) = View(T, f)
  BY <1>1, ViewsOfTable
<1>. HIDE DEF f
<1>. QED
  BY <1>1, <1>2, <1>3

\* an entry is where its rank says
LEMMA EntryListed ==
  ASSUME NEW S, Ordered(S), NEW e \in S
  PROVE  /\ DOMAIN DocEntries(S) = 1..Cardinality(S)
         /\ DocEntries(S)[Rank(S, e)] = DocEntry(e)
         /\ DocEntry(e) \in Document!ToSet(DocEntries(S))
<1>1. Rank(S, e) \in 1..Cardinality(S) /\ Sorted(S)[Rank(S, e)] = e
  BY SortedAt
<1>2. DOMAIN DocEntries(S) = 1..Cardinality(S) /\ DocEntries(S)[Rank(S, e)] = DocEntry(e)
  BY <1>1 DEF DocEntries
<1>. QED
  BY <1>1, <1>2, DocumentOperators

\* a section is one of the document
LEMMA SectionListed ==
  ASSUME NEW data, NEW max, TableOK(data, max), NEW s \in DOMAIN data
  PROVE  DocSection(data[s]) \in Document!ToSet(DocOf(data))
<1>. DEFINE S == SectionsOf(data)
<1>1. Ordered(S) /\ data[s] \in S
  BY TableSections
<1>2. Rank(S, data[s]) \in 1..Cardinality(S) /\ Sorted(S)[Rank(S, data[s])] = data[s]
  BY <1>1, SortedAt
<1>3. /\ DOMAIN DocOf(data) = 1..Cardinality(S)
      /\ DocOf(data)[Rank(S, data[s])] = DocSection(data[s])
  BY <1>2 DEF DocOf
<1>. QED
  BY <1>2, <1>3, DocumentOperators

\* a section is put into the table with other entries, or as a new one
LEMMA DocWithEntries ==
  ASSUME TableOK(m_data, m_nOrder), NEW m \in Nat, m_nOrder <= m,
         NEW s, NEW section, SectionOK(s, section, m),
         s \in DOMAIN m_data => section.nOrder = m_data[s].nOrder
                                /\ section.pComment = m_data[s].pComment,
         s \notin DOMAIN m_data => section.nOrder > m_nOrder /\ section.pComment = NULL,
         m_data' = WithSection(s, section)
  PROVE  Document!WithEntries(s, DocEntries(section.keys))
<1>. DEFINE entries == DocEntries(section.keys)
            r == Document!SectionAt(s)
<1>1. Ordered(section.keys) /\ section.pItem.text = s
  BY DEF SectionOK, Ordered
<1>2. DocSection(section) = [name |-> s, comment |-> TextOf(section.pComment), entries |-> entries]
  BY <1>1, DocSectionIs
<1>3. CASE s \in DOMAIN m_data
  <2>1. Doc' = [Doc EXCEPT ![r] = DocSection(section)]
    BY <1>3, DocWithSection
  <2>2. Ordered(m_data[s].keys) /\ m_data[s].pItem.text = s
    BY <1>3, TableSections
  <2>3. DocSection(m_data[s]) = [name |-> s, comment |-> TextOf(m_data[s].pComment),
                                 entries |-> DocEntries(m_data[s].keys)]
    BY <2>2, DocSectionIs
  <2>4. r \in 1..Cardinality(SectionsOf(m_data)) /\ Doc[r] = DocSection(m_data[s])
    BY <1>3, SectionPlace
  <2>5. r # 0
    BY <2>4
  <2>. HIDE DEF entries, r
  <2>6. DocSection(section) = [Doc[r] EXCEPT !.entries = entries]
    BY <1>2, <1>3, <2>3, <2>4
  <2>7. Doc' = [Doc EXCEPT ![r].entries = entries]
    BY <2>1, <2>6
  <2>. QED
    BY <2>5, <2>7 DEF Document!WithEntries, r, entries
<1>4. CASE s \notin DOMAIN m_data
  <2>1. Doc' = Append(Doc, DocSection(section)) /\ r = 0
    BY <1>4, DocWithSection, SectionPlace
  <2>2. TextOf(section.pComment) = NULL
    BY <1>4 DEF TextOf
  <2>. HIDE DEF entries
  <2>3. Doc' = Append(Doc, [name |-> s, comment |-> NULL, entries |-> entries])
    BY <1>2, <2>1, <2>2
  <2>. QED
    BY <2>1, <2>3 DEF Document!WithEntries, entries
<1>. QED
  BY <1>3, <1>4

\* where the entries of a key are in the document, and the first of them
LEMMA EntryPlace ==
  ASSUME IniTypeOK, NEW s, NEW k
  PROVE  /\ Document!PlacesOf(s, k)
              = {i \in 1..Cardinality(Entries(s)) : Sorted(Entries(s))[i] \in SameKey(s, k)}
         /\ Document!EntryAt(s, k)
              = IF SameKey(s, k) = {} THEN 0 ELSE Rank(Entries(s), First(SameKey(s, k)))
         /\ SameKey(s, k) # {} => Document!EntryAt(s, k) \in 1..Cardinality(Entries(s))
<1>. DEFINE S == Entries(s)
            n == Cardinality(S)
            q == Sorted(S)
            same == SameKey(s, k)
            places == Document!PlacesOf(s, k)
<1>1. Ordered(S) /\ Document!EntriesOf(s) = DocEntries(S)
  <2>1. TableOK(m_data, m_nOrder)
    BY TypeParts
  <2>. QED
    BY <2>1, EntriesPlace
<1>2. Document!EntriesOf(s) = [j \in 1..n |-> DocEntry(q[j])]
  BY <1>1 DEF DocEntries
<1>3. same \in SUBSET S /\ \A e \in S : e \in same <=> e.pItem.text = k
  BY DEF SameKey
<1>4. \A i \in 1..n : q[i] \in S /\ Rank(S, q[i]) = i
  BY <1>1, SortedIsSorted
<1>5. \A e \in S : Rank(S, e) \in 1..n /\ q[Rank(S, e)] = e
  BY <1>1, SortedAt
<1>6. n \in Nat /\ \A e \in S : e.nOrder \in Nat
  BY <1>1, SortedIsSorted DEF Ordered
<1>7. places = {i \in 1..n : q[i].pItem.text = k}
  BY <1>2 DEF Document!PlacesOf, DocEntry
<1>. HIDE DEF S, n, q, same, places
<1>8. places = {i \in 1..n : q[i] \in same}
  BY <1>3, <1>4, <1>7
<1>9. Document!EntryAt(s, k) = IF places = {} THEN 0 ELSE Min(places)
  BY DocumentOperators DEF Document!EntryAt, Document!FirstOf, places
<1>10. CASE same = {}
  <2>1. places = {}
    BY <1>8, <1>10
  <2>. QED
    BY <1>8, <1>9, <1>10, <2>1 DEF places, same, n, q, S
<1>11. CASE same # {}
  <2>. DEFINE r == Rank(S, First(same))
  <2>1. First(same) \in same /\ \A f \in same : First(same).nOrder <= f.nOrder
    BY <1>3, <1>6, <1>11, FirstIsFirst
  <2>2. r \in places /\ r \in 1..n
    BY <1>3, <1>5, <1>8, <2>1
  <2>3. ASSUME NEW i \in places PROVE r <= i
    <3>1. q[i] \in same /\ q[i] \in S /\ Rank(S, q[i]) = i
      BY <1>4, <1>8
    <3>. QED
      BY <1>1, <1>3, <2>1, <3>1, RankOrder DEF S
  <2>4. places \subseteq Nat /\ places # {}
    BY <1>6, <1>8, <2>2
  <2>. HIDE DEF r
  <2>5. Min(places) \in places /\ \A i \in places : Min(places) <= i
    BY <2>4, MinIsLeast
  <2>6. Min(places) = r
    <3>1. Min(places) \in Nat /\ r \in Nat /\ Min(places) <= r
      BY <2>2, <2>4, <2>5
    <3>2. r <= Min(places)
      BY <2>3, <2>5
    <3>. QED
      BY <3>1, <3>2
  <2>. QED
    BY <1>8, <1>9, <1>11, <2>2, <2>4, <2>6 DEF places, same, n, q, S, r
<1>. QED
  BY <1>10, <1>11

-----------------------------------------------------------------------------
(* The steps of the table are steps of the document *)

LEMMA AppendLast ==
  ASSUME NEW n \in Nat, NEW d, d = [i \in 1..n |-> d[i]], NEW x
  PROVE  Append(d, x) # <<>> /\ Document!Last(Append(d, x)) = x
<1>. DEFINE V == {d[i] : i \in 1..n} \cup {x}
<1>1. d \in [1..n -> V] /\ x \in V
  OBVIOUS
<1>. HIDE DEF V
<1>2. d \in Seq(V) /\ Len(d) = n
  BY <1>1
<1>3. Len(Append(d, x)) = n + 1 /\ Append(d, x)[n + 1] = x /\ Append(d, x) \in Seq(V)
  BY <1>1, <1>2, AppendProperties
<1>4. Append(d, x) # <<>>
  BY <1>3
<1>. QED
  BY <1>3, <1>4, DocumentOperators

LEMMA AddSectionKept ==
  ASSUME IniInv, NEW p \in SectionNames, NEW c \in Comments, NEW copy \in BOOLEAN,
         AddSection(p, c, copy), UNCHANGED <<m_pFileComment, m_bAllowMultiKey>>
  PROVE  Document!DocNext
<1>. DEFINE comment == IF copy THEN CopyString(c, 1) ELSE c
            s == p.text
            section == SectionFor(p, comment, copy)
            m == OrderAfter(p)
<1>1. comment \in Comments
  BY CopyType
<1>2. /\ m_data' = WithSection(s, section)
      /\ rc' = IF s \in DOMAIN m_data THEN "SI_UPDATED" ELSE "SI_INSERTED"
  BY DEF AddSection
<1>. HIDE DEF comment
<1>3. /\ SectionOK(s, section, m) /\ m \in Nat /\ m_nOrder <= m
      /\ IF s \in DOMAIN m_data THEN section = m_data[s] ELSE section.nOrder > m_nOrder
  BY <1>1, SectionForOK
<1>4. s \notin DOMAIN m_data => section.keys = {}
  BY DEF SectionFor
<1>5. TableOK(m_data, m_nOrder)
  BY TypeParts DEF IniInv
<1>. HIDE DEF section, m, s
<1>6. CASE s \in DOMAIN m_data
  <2>1. Doc' = Doc
    BY <1>2, <1>3, <1>5, <1>6, DocWithSection
  <2>2. Document!KeepSection
    BY <2>1 DEF Document!KeepSection
  <2>. QED
    BY <1>2, <1>6, <2>2 DEF Document!DocNext
<1>7. CASE s \notin DOMAIN m_data
  <2>. DEFINE new == DocSection(section)
  <2>1. Doc' = Append(Doc, new)
    BY <1>2, <1>3, <1>5, <1>7, DocWithSection
  <2>2. Ordered(section.keys) /\ section.pItem.text = s
    BY <1>3 DEF SectionOK, Ordered
  <2>3. new.name = s /\ new.entries = DocEntries({})
    BY <1>4, <1>7, <2>2, DocSectionIs
  <2>4. DocEntries({}) = <<>>
    <3>1. Cardinality({}) = 0
      BY FS_EmptySet
    <3>. QED
      BY <3>1 DEF DocEntries
  <2>5. Document!SectionAt(s) = 0
    BY <1>5, <1>7, SectionPlace
  <2>. HIDE DEF new
  <2>6. Document!Last(Doc') = new /\ Doc' # <<>>
    <3>1. Ordered(SectionsOf(m_data))
      BY <1>5, TableSections
    <3>2. Doc = [i \in 1..Cardinality(SectionsOf(m_data)) |-> Doc[i]]
      BY <3>1, DocIs DEF DocOf
    <3>3. Cardinality(SectionsOf(m_data)) \in Nat
      BY <3>1, SortedIsSorted
    <3>. QED
      BY <2>1, <3>2, <3>3, AppendLast
  <2>7. Document!PutSection(new)
    BY <2>1, <2>3, <2>4, <2>5 DEF Document!PutSection
  <2>. QED
    BY <1>2, <1>7, <2>6, <2>7 DEF Document!DocNext
<1>. QED
  BY <1>6, <1>7

\* an entry of the table is one of the document
LEMMA EntryOfDocument ==
  ASSUME NEW data, NEW max, TableOK(data, max), NEW s \in DOMAIN data, NEW e \in data[s].keys
  PROVE  \E section \in Document!ToSet(DocOf(data)) :
           section.name = s /\ DocEntry(e) \in Document!ToSet(section.entries)
<1>1. Ordered(data[s].keys) /\ data[s].pItem.text = s
  BY TableSections
<1>2. DocSection(data[s]).name = s /\ DocSection(data[s]).entries = DocEntries(data[s].keys)
  BY <1>1, DocSectionIs
<1>3. DocEntry(e) \in Document!ToSet(DocEntries(data[s].keys))
  BY <1>1, EntryListed
<1>4. DocSection(data[s]) \in Document!ToSet(DocOf(data))
  BY SectionListed
<1>. QED
  BY <1>2, <1>3, <1>4

\* what is put into the table is put into the document
LEMMA SetsStep ==
  ASSUME NEW max, TableOK(m_data', max), NEW s \in DOMAIN m_data', NEW e \in m_data'[s].keys,
         \/ Document!Update(s, DocEntry(e)) /\ rc' = "SI_UPDATED"
         \/ Document!Insert(s, DocEntry(e)) /\ rc' = "SI_INSERTED"
         \/ Document!ReplaceKey(s, DocEntry(e)) /\ rc' = "SI_INSERTED"
  PROVE  Document!DocNext
<1>1. Ordered(SectionsOf(m_data')) /\ Doc' = DocOf(m_data')
  BY TableSections, DocIs
<1>2. PICK section \in Document!ToSet(Doc') :
        section.name = s /\ DocEntry(e) \in Document!ToSet(section.entries)
  BY <1>1, EntryOfDocument
<1>3. Document!Sets
  BY <1>2 DEF Document!Sets
<1>. QED
  BY <1>3 DEF Document!DocNext

LEMMA InsertKeyKept ==
  ASSUME IniInv, NEW p \in SectionNames, NEW k \in Names, NEW v \in Values, NEW c \in Comments,
         NEW force \in BOOLEAN, NEW copy \in BOOLEAN, InsertKey(p, k, v, c, force, copy),
         UNCHANGED <<m_pFileComment, m_bAllowMultiKey>>
  PROVE  Document!DocNext
<1>. DEFINE s == p.text
            S == Entries(s)
<1>. HIDE DEF s, S
<1>1. m_nOrder' \in Nat /\ m_nOrder <= m_nOrder'
  BY InsertKeyTable
<1>2. PICK new, e : KeyInserted(s, k.text, new, e)
  BY InsertKeyTable DEF s
<1>3. IniTypeOK /\ TableOK(m_data, m_nOrder)
  BY TypeParts DEF IniInv
<1>4. SameKey(s, k.text) = {} \/ m_bAllowMultiKey
  BY DEF InsertKey, s
<1>5. rc' = "SI_INSERTED"
  BY DEF InsertKey
<1>6. Ordered(S) /\ Document!EntriesOf(s) = DocEntries(S)
  BY <1>3, EntriesPlace DEF S
<1>7. DocEntries(new.keys) = Append(Document!EntriesOf(s), DocEntry(e))
  BY <1>1, <1>2, <1>6, EntriesAppended DEF KeyInserted, S
<1>8. Document!WithEntries(s, DocEntries(new.keys))
  BY <1>1, <1>2, <1>3, DocWithEntries DEF KeyInserted
<1>9. DocEntry(e).key = k.text
  BY <1>2 DEF DocEntry, KeyInserted
<1>10. Document!EntryAt(s, DocEntry(e).key) = 0 \/ m_bAllowMultiKey
  BY <1>3, <1>4, <1>9, EntryPlace
<1>11. Document!Insert(s, DocEntry(e))
  BY <1>7, <1>8, <1>10 DEF Document!Insert
<1>12. TableOK(m_data', m_nOrder')
  BY <1>1, <1>2, <1>3, WithSectionOK DEF KeyInserted
<1>13. s \in DOMAIN m_data' /\ e \in m_data'[s].keys
  BY <1>2 DEF WithSection, KeyInserted
<1>. QED
  BY <1>5, <1>11, <1>12, <1>13, SetsStep

\* some entries of a section are replaced by one with the load order of one of them
LEMMA ReplacedKept ==
  ASSUME IniInv, NEW s \in DOMAIN m_data, NEW gone, gone \subseteq m_data[s].keys,
         NEW first \in gone, NEW e \in KeyEntries, e.nOrder = first.nOrder,
         m_data' = Replaced(s, gone, e)
  PROVE  /\ Document!WithEntries(s, DocEntries((m_data[s].keys \ gone) \cup {e}))
         /\ TableOK(m_data', m_nOrder + 1) /\ s \in DOMAIN m_data' /\ e \in m_data'[s].keys
<1>1. TableOK(m_data, m_nOrder)
  BY TypeParts DEF IniInv
<1>2. m_nOrder + 1 \in Nat /\ m_nOrder <= m_nOrder + 1
  BY <1>1, ReplaceTable
<1>3. PICK new : /\ m_data' = WithSection(s, new) /\ SectionOK(s, new, m_nOrder + 1)
                 /\ new.nOrder = m_data[s].nOrder /\ new.pComment = m_data[s].pComment
                 /\ new.keys = (m_data[s].keys \ gone) \cup {e}
  BY <1>1, ReplaceTable
<1>4. Document!WithEntries(s, DocEntries(new.keys))
  BY <1>1, <1>2, <1>3, DocWithEntries
<1>5. TableOK(m_data', m_nOrder + 1)
  BY <1>1, <1>2, <1>3, WithSectionOK
<1>6. s \in DOMAIN m_data' /\ e \in m_data'[s].keys
  BY <1>3 DEF WithSection
<1>. QED
  BY <1>3, <1>4, <1>5, <1>6

LEMMA UpdateKeyKept ==
  ASSUME IniInv, NEW p \in SectionNames, NEW k \in Names, NEW v \in Values, NEW c \in Comments,
         NEW copy \in BOOLEAN, UpdateKey(p, k, v, c, copy),
         UNCHANGED <<m_pFileComment, m_bAllowMultiKey>>
  PROVE  Document!DocNext
<1>. DEFINE value == IF copy THEN CopyString(v, 4) ELSE v
            s == p.text
            S == Entries(s)
            first == First(SameKey(s, k.text))
            e == [first EXCEPT !.value = value]
            at == Document!EntryAt(s, k.text)
<1>1. value \in Values
  BY CopyType
<1>2. /\ SameKey(s, k.text) # {} /\ ~m_bAllowMultiKey /\ rc' = "SI_UPDATED"
      /\ m_data' = Replaced(s, {first}, e)
  BY DEF UpdateKey, Replaced
<1>. HIDE DEF value, s
<1>3. IniTypeOK /\ TableOK(m_data, m_nOrder)
  BY TypeParts DEF IniInv
<1>4. /\ s \in DOMAIN m_data /\ first \in m_data[s].keys /\ first \in SameKey(s, k.text)
      /\ SectionOK(s, m_data[s], m_nOrder)
  BY <1>2, <1>3, SameKeyFirst
<1>5. S = m_data[s].keys /\ first.pItem.text = k.text
  BY <1>4 DEF Entries, SameKey
<1>6. Ordered(S) /\ Document!EntriesOf(s) = DocEntries(S)
  BY <1>3, EntriesPlace
<1>7. at = Rank(S, first)
  BY <1>2, <1>3, EntryPlace
<1>8. at # 0
  BY <1>2, <1>3, EntryPlace
<1>. HIDE DEF first, S, at
<1>9. first \in KeyEntries
  BY <1>4 DEF SectionOK, SectionEntries
<1>10. e \in KeyEntries /\ e.nOrder = first.nOrder /\ e.pItem = first.pItem
       /\ e.value = value /\ e.pComment = first.pComment
  BY <1>1, <1>9 DEF KeyEntries
<1>. HIDE DEF e
<1>11. {first} \subseteq m_data[s].keys /\ first \in {first}
  BY <1>4
<1>12. /\ Document!WithEntries(s, DocEntries((S \ {first}) \cup {e}))
       /\ TableOK(m_data', m_nOrder + 1) /\ s \in DOMAIN m_data' /\ e \in m_data'[s].keys
  BY <1>2, <1>4, <1>5, <1>10, <1>11, ReplacedKept
<1>13. DocEntries((S \ {first}) \cup {e}) = [DocEntries(S) EXCEPT ![Rank(S, first)] = DocEntry(e)]
  BY <1>4, <1>5, <1>6, <1>10, EntriesReplaced
<1>14. DocEntries(S)[Rank(S, first)] = DocEntry(first)
  BY <1>4, <1>5, <1>6, EntryListed
<1>15. DocEntry(e) = [DocEntry(first) EXCEPT !.value = DocEntry(e).value]
       /\ DocEntry(e).key = k.text
  BY <1>5, <1>10 DEF DocEntry
<1>. DEFINE d == DocEntries(S)
            x == DocEntry(e)
<1>. HIDE DEF d, x
<1>16. [d EXCEPT ![at] = x] = [d EXCEPT ![at].value = x.value]
  <2>1. x = [d[at] EXCEPT !.value = x.value]
    BY <1>7, <1>14, <1>15 DEF d, x
  <2>. QED
    BY <2>1
<1>17. Document!WithEntries(s, [Document!EntriesOf(s) EXCEPT ![Document!EntryAt(s, x.key)].value = x.value])
  BY <1>6, <1>7, <1>12, <1>13, <1>15, <1>16 DEF d, x, at
<1>18. Document!Update(s, DocEntry(e))
  BY <1>2, <1>8, <1>15, <1>17 DEF Document!Update, x, at
<1>. QED
  BY <1>2, <1>12, <1>18, SetsStep

\* all the entries of a key make way for one that has the place of the first
LEMMA EntriesOfKeyReplaced ==
  ASSUME IniTypeOK, NEW s, NEW k, SameKey(s, k) # {},
         NEW e, e.nOrder = First(SameKey(s, k)).nOrder
  PROVE  DocEntries((Entries(s) \ SameKey(s, k)) \cup {e})
           = Document!Remaining(
               [DocEntries(Entries(s)) EXCEPT ![Document!EntryAt(s, k)] = DocEntry(e)],
               Document!PlacesOf(s, k) \ {Document!EntryAt(s, k)})
<1>. DEFINE S == Entries(s)
            same == SameKey(s, k)
            first == First(same)
            T == (S \ {first}) \cup {e}
            left == (S \ same) \cup {e}
            at == Document!EntryAt(s, k)
            n == Cardinality(S)
            gone == Document!PlacesOf(s, k) \ {at}
<1>1. Ordered(S) /\ same \in SUBSET S
  <2>1. TableOK(m_data, m_nOrder)
    BY TypeParts
  <2>. QED
    BY <2>1, EntriesPlace DEF SameKey
<1>2. first \in same /\ first \in S
  BY <1>1, SameKeyFirst
<1>3. at = Rank(S, first) /\ at \in 1..n
  BY EntryPlace
<1>4. Document!PlacesOf(s, k) = {i \in 1..n : Sorted(S)[i] \in same}
  BY EntryPlace
<1>. HIDE DEF S, same, first, at
<1>5. e.nOrder = first.nOrder
  BY DEF first, same
<1>6. Ordered(T) /\ Sorted(T) = [Sorted(S) EXCEPT ![at] = e]
  BY <1>1, <1>2, <1>3, <1>5, SortedReplace
<1>7. DocEntries(T) = [DocEntries(S) EXCEPT ![at] = DocEntry(e)]
  BY <1>1, <1>2, <1>3, <1>5, EntriesReplaced
<1>8. left \in SUBSET T
  BY <1>2
<1>9. /\ DocEntries(left) = Document!Remaining(DocEntries(T), {i \in 1..Cardinality(T) : Sorted(T)[i] \notin left})
  <2>. HIDE DEF T, left
  <2>. QED
    BY <1>6, <1>8, EntriesRemaining
<1>10. \A i \in 1..n : Sorted(S)[i] \in S /\ Rank(S, Sorted(S)[i]) = i
  BY <1>1, SortedIsSorted
<1>11. Sorted(S) \in [1..n -> S] /\ DOMAIN Sorted(T) = 1..Cardinality(T)
  <2>. HIDE DEF T
  <2>. QED
    BY <1>1, <1>6, SortedIsSorted
<1>12. 1..Cardinality(T) = 1..n
  <2>. HIDE DEF T, n
  <2>. QED
    BY <1>6, <1>11
<1>. HIDE DEF n
<1>13. ASSUME NEW i \in 1..n PROVE Sorted(T)[i] \notin left <=> i \in gone
  <2>1. CASE i = at
    <3>1. Sorted(T)[i] = e
      BY <1>6, <1>11, <2>1
    <3>. QED
      BY <2>1, <3>1
  <2>2. CASE i # at
    <3>1. Sorted(T)[i] = Sorted(S)[i]
      BY <1>6, <1>11, <2>2
    <3>2. Sorted(S)[i] # e
      <4>1. ASSUME Sorted(S)[i] = e PROVE FALSE
        <5>1. e \in S
          BY <1>10, <4>1
        <5>2. e = first
          BY <1>1, <1>2, <1>5, <5>1 DEF Ordered
        <5>. QED
          BY <1>3, <1>10, <2>2, <4>1, <5>2
      <4>. QED
        BY <4>1
    <3>. QED
      BY <1>4, <1>10, <2>2, <3>1, <3>2
  <2>. QED
    BY <2>1, <2>2
<1>14. gone \subseteq 1..n
  BY <1>4
<1>. HIDE DEF T, left, gone
<1>15. {i \in 1..Cardinality(T) : Sorted(T)[i] \notin left} = gone
  BY <1>12, <1>13, <1>14
<1>16. DocEntries(left) = Document!Remaining([DocEntries(S) EXCEPT ![at] = DocEntry(e)], gone)
  BY <1>7, <1>9, <1>15
<1>. QED
  BY <1>16 DEF left, S, same, at, gone

LEMMA ReplaceKeysKept ==
  ASSUME IniInv, NEW p \in SectionNames, NEW k \in Names, NEW v \in Values, NEW c \in Comments,
         ReplaceKeys(p, k, v, c), UNCHANGED <<m_pFileComment, m_bAllowMultiKey>>,
         k.at \notin m_strings
  PROVE  Document!DocNext
<1>0. PICK key \in Names, value \in Values, comment \in Comments :
        ReplacedBy(p.text, k.text, c, key, value, comment) /\ key.text = k.text
  BY ReplaceKeysIs
<1>. DEFINE s == p.text
            S == Entries(s)
            same == SameKey(s, k.text)
            first == First(same)
            kept == first.pComment
            e == [pItem |-> key, pComment |-> comment, value |-> value, nOrder |-> first.nOrder]
            at == Document!EntryAt(s, k.text)
<1>1. /\ same # {} /\ m_bAllowMultiKey /\ rc' = "SI_INSERTED"
      /\ m_data' = Replaced(s, same, e)
      /\ comment = IF kept = NULL THEN CopyString(c, 1) ELSE CopyString(kept, 5)
  BY <1>0 DEF ReplacedBy
<1>2. IniTypeOK /\ TableOK(m_data, m_nOrder)
  BY TypeParts DEF IniInv
<1>3. /\ s \in DOMAIN m_data /\ same \subseteq m_data[s].keys /\ first \in same
      /\ SectionOK(s, m_data[s], m_nOrder)
  BY <1>1, <1>2, SameKeyFirst
<1>4. Entries(s) = m_data[s].keys
  BY <1>3 DEF Entries
<1>5. at \in 1..Cardinality(S) /\ at = Rank(S, first)
  BY <1>1, <1>2, EntryPlace
<1>6. at # 0
  BY <1>5
<1>7. Document!EntriesOf(s) = DocEntries(S) /\ Ordered(S)
  BY <1>2, EntriesPlace
<1>. HIDE DEF first, same, at, S, s
<1>8. first \in KeyEntries
  BY <1>3 DEF SectionOK, SectionEntries
<1>9. kept \in Comments /\ first.nOrder \in Nat
  BY <1>8 DEF KeyEntries
<1>. HIDE DEF kept
<1>10. comment \in Comments
  BY <1>1, <1>9, CopyType
<1>11. TextOf(kept) \in {NULL, TextOf(comment)}
  <2>1. CASE kept = NULL
    BY <2>1 DEF TextOf
  <2>2. CASE kept # NULL
    <3>. DEFINE copy == CopyString(kept, 5)
    <3>1. copy \in Comments
      BY <1>9, CopyType
    <3>2. copy = Ptr(kept.text, NewAllocation(5)) /\ comment = copy
      BY <1>1, <2>2 DEF CopyString
    <3>3. NewAllocation(5) \in Nat
      BY Fresh
    <3>4. copy \in [text : Seq(Lines), at : Nat] /\ copy.text = kept.text
      BY <1>9, <2>2, <3>2, <3>3 DEF Ptr, Comments
    <3>5. copy # NULL
      BY <3>4, IniAssumption
    <3>. QED
      BY <2>2, <3>2, <3>4, <3>5 DEF TextOf
  <2>. QED
    BY <2>1, <2>2
<1>12. /\ e \in KeyEntries /\ e.nOrder = first.nOrder /\ e.pItem.text = k.text
       /\ e.pComment = comment
  BY <1>0, <1>9, <1>10 DEF KeyEntries
<1>. HIDE DEF e
<1>. DEFINE x == DocEntry(e)
<1>13. x.key = k.text /\ x.comment = TextOf(comment)
  BY <1>12 DEF DocEntry
<1>14. /\ Document!WithEntries(s, DocEntries((m_data[s].keys \ same) \cup {e}))
       /\ TableOK(m_data', m_nOrder + 1) /\ s \in DOMAIN m_data' /\ e \in m_data'[s].keys
  BY <1>1, <1>3, <1>12, ReplacedKept
<1>15. DocEntries((S \ same) \cup {e})
         = Document!Remaining([DocEntries(S) EXCEPT ![at] = x],
                              Document!PlacesOf(s, k.text) \ {at})
  BY <1>1, <1>2, <1>12, EntriesOfKeyReplaced DEF S, same, at, first
<1>16. Document!EntriesOf(s)[at].comment \in {NULL, x.comment}
  <2>1. DocEntries(S)[at] = DocEntry(first)
    BY <1>3, <1>4, <1>5, <1>7, EntryListed DEF S
  <2>2. DocEntry(first).comment = TextOf(kept)
    BY DEF DocEntry, kept
  <2>. QED
    BY <1>7, <1>11, <1>13, <2>1, <2>2
<1>. HIDE DEF x
<1>17. Document!WithEntries(s, Document!Remaining(
         [Document!EntriesOf(s) EXCEPT ![at] = x], Document!PlacesOf(s, x.key) \ {at}))
  BY <1>4, <1>7, <1>13, <1>14, <1>15 DEF S
<1>18. Document!ReplaceKey(s, x)
  <2>1. at = Document!EntryAt(s, x.key)
    BY <1>13 DEF at
  <2>. HIDE DEF at
  <2>. QED
    BY <1>1, <1>6, <1>16, <1>17, <2>1 DEF Document!ReplaceKey
<1>. QED
  BY <1>1, <1>14, <1>18, SetsStep DEF x

LEMMA AddEntryKept ==
  ASSUME IniInv, NEW p \in SectionNames, NEW k \in Names, NEW v \in Values, NEW c \in Comments,
         NEW force \in BOOLEAN, NEW copy \in BOOLEAN, AddEntry(p, k, v, c, force, copy),
         UNCHANGED <<m_pFileComment, m_bAllowMultiKey>>, force => k.at \notin m_strings
  PROVE  Document!DocNext
BY InsertKeyKept, UpdateKeyKept, ReplaceKeysKept DEF AddEntry

\* all the entries of a key, or those with a value, are removed
WithValue(s, k, all, value) == {e \in SameKey(s, k) : all \/ e.value.text = value}
PlacesOfValue(s, k, all, value) ==
  {i \in Document!PlacesOf(s, k) : all \/ Document!EntriesOf(s)[i].value = value}

LEMMA EntriesOfKeyRemoved ==
  ASSUME IniTypeOK, NEW s, NEW k, NEW all, NEW value
  PROVE  DocEntries(Entries(s) \ WithValue(s, k, all, value))
           = Document!Remaining(Document!EntriesOf(s), PlacesOfValue(s, k, all, value))
<1>. DEFINE S == Entries(s)
            same == SameKey(s, k)
            n == Cardinality(S)
            gone == WithValue(s, k, all, value)
            T == S \ gone
            d == Document!EntriesOf(s)
            places == PlacesOfValue(s, k, all, value)
<1>1. Ordered(S) /\ d = DocEntries(S) /\ same \in SUBSET S
  <2>1. TableOK(m_data, m_nOrder)
    BY TypeParts
  <2>. QED
    BY <2>1, EntriesPlace DEF SameKey
<1>2. Document!PlacesOf(s, k) = {i \in 1..n : Sorted(S)[i] \in same}
  BY EntryPlace
<1>3. \A i \in 1..n : Sorted(S)[i] \in S
  BY <1>1, SortedIsSorted
<1>4. \A i \in 1..n : d[i].value = Sorted(S)[i].value.text
  BY <1>1 DEF DocEntries, DocEntry
<1>. HIDE DEF S, same, n, d
<1>5. DocEntries(T) = Document!Remaining(d, {i \in 1..n : Sorted(S)[i] \notin T})
  <2>1. T \in SUBSET S
    OBVIOUS
  <2>. HIDE DEF T
  <2>. QED
    BY <1>1, <2>1, EntriesRemaining DEF n
<1>6. \A i \in 1..n : Sorted(S)[i] \notin T <=> i \in places
  BY <1>2, <1>3, <1>4 DEF same, d, PlacesOfValue, WithValue
<1>7. places \subseteq 1..n
  BY <1>2 DEF PlacesOfValue
<1>. HIDE DEF T, places
<1>8. {i \in 1..n : Sorted(S)[i] \notin T} = places
  BY <1>6, <1>7
<1>. QED
  BY <1>5, <1>8 DEF T, S, places, d

LEMMA NoEntries ==
  ASSUME NEW S, Ordered(S)
  PROVE  DocEntries(S) = <<>> <=> S = {}
<1>1. Cardinality({}) = 0 /\ (Cardinality(S) = 0 => S = {})
  BY FS_EmptySet DEF Ordered
<1>2. DOMAIN DocEntries(S) = 1..Cardinality(S) /\ Cardinality(S) \in Nat
  BY SortedIsSorted DEF DocEntries
<1>3. DocEntries({}) = <<>>
  BY <1>1 DEF DocEntries
<1>4. DocEntries(S) = <<>> => Cardinality(S) = 0
  BY <1>2
<1>. QED
  BY <1>1, <1>3, <1>4

LEMMA DeleteValueKept ==
  ASSUME IniInv, NEW s, NEW k, NEW v, NEW removeEmpty \in BOOLEAN, DeleteValue(s, k, v, removeEmpty)
  PROVE  Document!DocNext
<1>. DEFINE same == SameKey(s, k)
            all == v = NULL
            gone == {e \in same : v = NULL \/ e.value.text = v}
            keys == Entries(s) \ gone
            S == Entries(s)
<1>1. /\ gone # {} /\ rc' = "true" /\ UNCHANGED <<m_pFileComment, m_bAllowMultiKey>>
      /\ m_data' = IF removeEmpty /\ Entries(s) = gone THEN Without(s)
                   ELSE [m_data EXCEPT ![s].keys = @ \ gone]
  BY DEF DeleteValue, CallVars, options
<1>2. IniTypeOK /\ TableOK(m_data, m_nOrder)
  BY TypeParts DEF IniInv
<1>3. s \in DOMAIN m_data /\ same \subseteq m_data[s].keys
  BY <1>1, <1>2, SameKeyFirst
<1>4. S = m_data[s].keys
  BY <1>3 DEF Entries
<1>5. Ordered(S) /\ Document!EntriesOf(s) = DocEntries(S)
  BY <1>2, EntriesPlace
<1>6. PICK e \in gone : TRUE
  BY <1>1
<1>7. e \in S /\ e.pItem.text = k /\ (all \/ e.value.text = v)
  BY <1>6 DEF SameKey
<1>. DEFINE x == DocEntry(e)
<1>8. x.key = k /\ x.value = e.value.text
  BY <1>7 DEF DocEntry
<1>9. all \in BOOLEAN /\ gone = WithValue(s, k, all, x.value)
  BY <1>7, <1>8 DEF WithValue
<1>10. DocEntries(keys) = Document!Remaining(Document!EntriesOf(s), PlacesOfValue(s, k, all, x.value))
  BY <1>2, <1>9, EntriesOfKeyRemoved
<1>11. keys \in SUBSET S /\ gone \subseteq S
  BY <1>3, <1>4
<1>12. DocEntries(keys) = <<>> <=> S = gone
  <2>1. Ordered(keys)
    BY <1>5, <1>11, OrderedSubset
  <2>2. keys = {} <=> S = gone
    BY <1>11
  <2>. HIDE DEF keys, gone, S
  <2>. QED
    BY <2>1, <2>2, NoEntries
<1>. HIDE DEF gone, all, x
<1>13. IF DocEntries(keys) = <<>> /\ removeEmpty
       THEN Doc' = Document!Remaining(Doc, {Document!SectionAt(s)})
       ELSE Document!WithEntries(s, DocEntries(keys))
  <2>1. CASE S = gone /\ removeEmpty
    <3>1. m_data' = Without(s)
      BY <1>1, <2>1
    <3>2. Doc' = Document!Remaining(Doc, {Document!SectionAt(s)})
      BY <1>2, <1>3, <3>1, DocWithout
    <3>. QED
      BY <1>12, <2>1, <3>2
  <2>2. CASE ~(S = gone /\ removeEmpty)
    <3>1. m_data' = [m_data EXCEPT ![s].keys = keys]
      BY <1>1, <1>4, <2>2
    <3>2. keys \in SUBSET m_data[s].keys
      BY <1>4, <1>11
    <3>. HIDE DEF keys
    <3>3. m_data' = WithSection(s, Left(s, keys))
      BY <1>2, <1>3, <3>1, ExceptKeys DEF Left
    <3>. DEFINE left == Left(s, keys)
    <3>4. /\ SectionOK(s, left, m_nOrder) /\ m_nOrder \in Nat /\ m_nOrder <= m_nOrder
          /\ left.nOrder = m_data[s].nOrder /\ left.pComment = m_data[s].pComment
          /\ left.keys = keys
      BY <1>2, <1>3, <3>2, LeftTable
    <3>. HIDE DEF left
    <3>5. Document!WithEntries(s, DocEntries(left.keys))
      BY <1>2, <1>3, <3>3, <3>4, DocWithEntries DEF left
    <3>. QED
      BY <1>12, <2>2, <3>4, <3>5
  <2>. QED
    BY <2>1, <2>2
<1>. HIDE DEF keys
<1>14. Document!RemoveEntries(s, x.key, x.value, all, removeEmpty)
  BY <1>1, <1>8, <1>10, <1>13 DEF Document!RemoveEntries, PlacesOfValue
<1>15. PICK section \in Document!ToSet(Doc) :
         section.name = s /\ x \in Document!ToSet(section.entries)
  <2>1. Doc = DocOf(m_data)
    BY <1>2, TableSections, DocIs
  <2>. QED
    BY <1>2, <1>3, <1>4, <1>7, <2>1, EntryOfDocument DEF x
<1>16. Document!Deletes
  BY <1>9, <1>14, <1>15 DEF Document!Deletes
<1>. QED
  BY <1>1, <1>16 DEF Document!DocNext

LEMMA DeleteSectionKept ==
  ASSUME IniInv, NEW s, DeleteSection(s)
  PROVE  Document!DocNext
<1>1. /\ s \in DOMAIN m_data /\ m_data' = Without(s) /\ rc' = "true"
      /\ UNCHANGED <<m_pFileComment, m_bAllowMultiKey>>
  BY DEF DeleteSection, CallVars, options
<1>2. TableOK(m_data, m_nOrder)
  BY TypeParts DEF IniInv
<1>3. Doc' = Document!Remaining(Doc, {Document!SectionAt(s)})
  BY <1>1, <1>2, DocWithout
<1>4. Document!RemoveSection(s)
  BY <1>1, <1>3 DEF Document!RemoveSection
<1>5. DocSection(m_data[s]) \in Document!ToSet(Doc) /\ DocSection(m_data[s]).name = s
  <2>1. Doc = DocOf(m_data) /\ m_data[s].pItem.text = s /\ Ordered(m_data[s].keys)
    BY <1>1, <1>2, TableSections, DocIs
  <2>. QED
    BY <1>1, <1>2, <2>1, SectionListed, DocSectionIs
<1>6. Document!Deletes
  BY <1>4, <1>5 DEF Document!Deletes
<1>. QED
  BY <1>1, <1>6 DEF Document!DocNext

\* the table is as before
LEMMA SameDoc ==
  ASSUME m_data' = m_data
  PROVE  Doc' = Doc
<1>1. GetAllSections' = GetAllSections
  BY DEF GetAllSections
<1>. QED
  BY <1>1 DEF Doc

LEMMA EmptyDoc ==
  /\ m_data = <<>> => Doc = <<>>
  /\ m_data' = <<>> => Doc' = <<>>
<1>1. \A data : data = <<>> => SectionsOf(data) = {}
  BY DEF SectionsOf
<1>2. \A data : data = <<>> => DocOf(data) = <<>>
  <2>1. Cardinality({}) = 0
    BY FS_EmptySet
  <2>. QED
    BY <1>1, <2>1 DEF DocOf
<1>3. Ordered({})
  BY SortedEmpty
<1>. QED
  BY <1>1, <1>2, <1>3, DocIs

LEMMA LoadDataKept ==
  ASSUME IniInv, LoadData
  PROVE  Document!DocNext \/ UNCHANGED Document!docVars
<1>0. IniTypeOK
  BY DEF IniInv
<1>. DEFINE force == FALSE
            copy == Copying
<1>1. copy \in BOOLEAN /\ force \in BOOLEAN
  BY DEF Copying
<1>2. CASE LoadEnd
  <2>1. rc' = "SI_OK" /\ UNCHANGED <<m_data, m_pFileComment, m_bAllowMultiKey>>
    BY <1>2 DEF LoadEnd, options
  <2>2. Document!Transfer
    BY <2>1, SameDoc DEF Document!Transfer
  <2>. QED
    BY <2>2 DEF Document!DocNext
<1>. SUFFICES ASSUME Parsing PROVE Document!DocNext \/ UNCHANGED Document!docVars
  BY <1>2 DEF LoadData, SkipLine, ReadComment, SkipHeader, ReadHeader, ReadKey, ReadMultiLine
<1>3. /\ load.block \in Nat \ {0} /\ load.data \in Seq(Lines)
      /\ load.pSection \in SectionNames /\ load.pComment \in Comments
      /\ Line \in Lines /\ Len(load.data) \in Nat \ {0} /\ Tail(load.data) \in Seq(Lines)
  BY <1>0, ParseTypes
<1>4. /\ \A w \in STRING : InBlock(w) \in Names /\ InBlock(Title(w)) \in SectionNames
      /\ \A t \in Seq(Lines) : t # <<>> => InBlock(t) \in Values
  BY <1>3, PtrTypes DEF InBlock
<1>5. CASE SkipLine \/ ReadComment \/ SkipHeader
  <2>1. UNCHANGED <<m_data, m_pFileComment, m_bAllowMultiKey, rc>>
    BY <1>5 DEF SkipLine, ReadComment, SkipHeader, ParseVars, TableVars, options
  <2>2. UNCHANGED Document!docVars
    BY <2>1, SameDoc DEF Document!docVars
  <2>. QED
    BY <2>2
<1>6. CASE ReadHeader
  <2>. DEFINE p == InBlock(Title(Line.body.header))
  <2>1. AddSection(p, load.pComment, copy) /\ UNCHANGED <<m_pFileComment, m_bAllowMultiKey>>
    BY <1>6 DEF ReadHeader, ParseVars, options
  <2>2. p \in SectionNames
    BY <1>3, <1>4, <1>6, LineParts DEF ReadHeader
  <2>. HIDE DEF p, copy
  <2>. QED
    BY <1>1, <1>3, <2>1, <2>2, AddSectionKept
<1>7. CASE ReadKey \/ ReadMultiLine
  <2>. DEFINE p == SectionOfKey
              k == InBlock(KeyOf(Line))
  <2>1. PICK n \in Nat, value \in Seq(Lines) \ {<<>>} : AddKey(n, value)
    BY <1>0, <1>7, KeyAdded
  <2>. DEFINE v == InBlock(value)
  <2>2. p \in SectionNames /\ k \in Names /\ v \in Values
    BY <1>0, <1>4, <1>7, KeyAdded
  <2>3. /\ AddEntry(p, k, v, load.pComment, force, copy)
        /\ UNCHANGED <<m_pFileComment, m_bAllowMultiKey>> /\ ~force
    BY <2>1 DEF AddKey, ParseVars, options
  <2>. HIDE DEF p, k, v, force, copy
  <2>. QED
    BY <1>1, <1>3, <2>2, <2>3, AddEntryKept
<1>. QED
  BY <1>2, <1>5, <1>6, <1>7 DEF LoadData

LEMMA CallKept ==
  ASSUME IniInv, ~FromTable,
         \/ \E p \in GivenSections, c \in GivenComments :
              \/ SetSection(p, c)
              \/ \E k \in GivenKeys, v \in GivenValues, force \in BOOLEAN : SetValue(p, k, v, c, force)
         \/ LoadFile \/ SaveFile \/ Reset
         \/ \E b \in BOOLEAN : SetMultiKey(b)
  PROVE  Document!DocNext
<1>. DEFINE copy == TRUE
<1>1. copy \in BOOLEAN
  OBVIOUS
<1>. HIDE DEF copy
<1>2. ASSUME NEW p \in GivenSections, NEW c \in GivenComments, SetSection(p, c)
      PROVE  Document!DocNext
  <2>1. AddSection(p, c, copy) /\ UNCHANGED <<m_pFileComment, m_bAllowMultiKey>>
    BY <1>2 DEF SetSection, CallVars, options, copy
  <2>2. p \in SectionNames /\ c \in Comments
    BY GivenTypes DEF IniInv
  <2>. QED
    BY <1>1, <2>1, <2>2, AddSectionKept
<1>3. ASSUME NEW p \in GivenSections, NEW k \in GivenKeys, NEW v \in GivenValues,
             NEW c \in GivenComments, NEW force \in BOOLEAN, SetValue(p, k, v, c, force)
      PROVE  Document!DocNext
  <2>1. p \in SectionNames /\ k \in Names /\ v \in Values /\ c \in Comments
    BY GivenTypes DEF IniInv
  <2>2. AddEntry(p, k, v, c, force, copy) /\ UNCHANGED <<m_pFileComment, m_bAllowMultiKey>>
    BY <1>3 DEF SetValue, CallVars, options, copy
  <2>3. k.at \notin m_strings
    <3>1. k.at = 0
      BY DEF GivenKeys, Own, Or, Ptr
    <3>. QED
      BY <3>1 DEF IniInv, StringsOK
  <2>. QED
    BY <1>1, <2>1, <2>2, <2>3, AddEntryKept
<1>4. CASE LoadFile
  <2>1. rc' = "SI_OK" /\ UNCHANGED <<m_data, m_bAllowMultiKey>>
        /\ (m_pFileComment # NULL => m_pFileComment' = m_pFileComment)
    BY <1>4 DEF LoadFile, options
  <2>2. TextOf(m_pFileComment)' # TextOf(m_pFileComment) => TextOf(m_pFileComment) = NULL
    BY <2>1 DEF TextOf
  <2>3. Document!Transfer
    BY <2>1, <2>2, SameDoc DEF Document!Transfer
  <2>. QED
    BY <2>3 DEF Document!DocNext
<1>5. CASE SaveFile
  <2>1. rc' = "SI_OK" /\ UNCHANGED <<m_data, m_pFileComment, m_bAllowMultiKey>>
    BY <1>5 DEF SaveFile, options
  <2>2. Document!Transfer
    BY <2>1, SameDoc DEF Document!Transfer
  <2>. QED
    BY <2>2 DEF Document!DocNext
<1>6. CASE Reset
  <2>1. m_data' = <<>> /\ m_pFileComment' = NULL /\ UNCHANGED <<m_bAllowMultiKey, rc>>
    BY <1>6 DEF Reset, options
  <2>2. Doc' = <<>>
    BY <2>1, EmptyDoc
  <2>3. Document!Clear
    BY <2>1, <2>2 DEF Document!Clear, TextOf
  <2>. QED
    BY <2>3 DEF Document!DocNext
<1>7. ASSUME NEW b \in BOOLEAN, SetMultiKey(b) PROVE Document!DocNext
  <2>1. m_bAllowMultiKey' \in BOOLEAN /\ UNCHANGED <<m_data, m_pFileComment, rc>>
    BY <1>7 DEF SetMultiKey
  <2>2. Document!Allow
    BY <2>1, SameDoc DEF Document!Allow
  <2>. QED
    BY <2>2 DEF Document!DocNext
<1>. QED
  BY <1>2, <1>3, <1>4, <1>5, <1>6, <1>7

LEMMA DocumentStarts == IniInit => Document!DocInit
<1>. SUFFICES ASSUME IniInit PROVE Document!DocInit
  OBVIOUS
<1>1. /\ m_data = <<>> /\ m_pFileComment = NULL /\ rc = "SI_OK"
      /\ m_bAllowMultiKey \in BOOLEAN
  BY DEF IniInit
<1>2. Doc = <<>>
  BY <1>1, EmptyDoc
<1>. QED
  BY <1>1, <1>2 DEF Document!DocInit, TextOf

LEMMA DocumentStep ==
  ~FromTable /\ IniInv /\ [IniNext]_iniVars => [Document!DocNext]_(Document!docVars)
<1>. SUFFICES ASSUME ~FromTable, IniInv, [IniNext]_iniVars PROVE Document!DocNext \/ UNCHANGED Document!docVars
  OBVIOUS
<1>1. CASE UNCHANGED iniVars
  <2>1. UNCHANGED <<m_data, m_pFileComment, m_bAllowMultiKey, rc>>
    BY <1>1 DEF iniVars, options
  <2>2. UNCHANGED Document!docVars
    BY <2>1, SameDoc DEF Document!docVars
  <2>. QED
    BY <2>2
<1>2. ASSUME NEW s, NEW k, NEW v, NEW removeEmpty \in BOOLEAN, DeleteValue(s, k, v, removeEmpty)
      PROVE  Document!DocNext
  BY <1>2, DeleteValueKept
<1>3. ASSUME NEW s, DeleteSection(s) PROVE Document!DocNext
  BY <1>3, DeleteSectionKept
<1>. QED
  BY <1>1, <1>2, <1>3, LoadDataKept, CallKept DEF IniNext, Call

\* The table with its load orders, comments and copied strings implements the
\* document: whatever is loaded, added, replaced, removed and saved, sections and
\* keys stay in the order they were created in, with the comment they were
\* created with.  The application passes SetValue strings of its own: with those
\* of the table a forced replacement may store anything (SimpleIni.h:1945).
THEOREM IniKeepsDocument ==
  ASSUME ~FromTable
  PROVE  IniSpec => KeepsDocument
<1>1. IniInv /\ [IniNext]_iniVars => [Document!DocNext]_(Document!docVars)
  BY DocumentStep
<1>. QED
  BY <1>1, IniInvariant, DocumentStarts, PTL DEF IniSpec, KeepsDocument, Document!DocSpec
=============================================================================
