-------------------------- MODULE ConvertUTFProofs --------------------------
(***************************************************************************)
(* What TLAPS proves of ConvertUTF, for all texts, target forms, flags and *)
(* sizes of buffers.                                                       *)
(***************************************************************************)
EXTENDS ConvertUTF, FiniteSetTheorems, SequenceTheorems, TLAPS

-----------------------------------------------------------------------------
(* Recursive functions.  The library's induction theorems take an operator *)
(* as their parameter; this form takes a set.                              *)

LEMMA SetInduction ==
  ASSUME NEW S, 0 \in S, \A n \in Nat : n \in S => n + 1 \in S
  PROVE  Nat \subseteq S
<1>. DEFINE R == OpToRel(<, Nat)
            left == Nat \ S
<1>. SUFFICES ASSUME left # {} PROVE FALSE
  OBVIOUS
<1>1. IsWellFoundedOn(R, Nat)
  BY NatLessThanWellFounded
<1>2. \A x, y \in Nat : <<y, x>> \in R <=> y < x
  BY DEF OpToRel
<1>. HIDE DEF R
<1>3. \E x \in left : \A y \in left : ~(<<y, x>> \in R)
  <2>1. left \subseteq Nat
    OBVIOUS
  <2>. HIDE DEF left
  <2>. QED
    BY <1>1, <2>1, WFMin
<1>4. PICK n \in left : \A m \in left : ~(<<m, n>> \in R)
  BY <1>3
<1>5. n \in Nat /\ n # 0
  BY <1>4
<1>6. n - 1 \in Nat /\ n - 1 < n
  BY <1>5
<1>7. n - 1 \in S
  BY <1>2, <1>4, <1>5, <1>6
<1>8. (n - 1) + 1 \in S
  BY <1>6, <1>7
<1>. QED
  BY <1>4, <1>5, <1>8

\* p[i] is step[i] and what follows at next[i]
Unrolls(n, step, next, p) ==
  p = [i \in 1..n + 1 |-> IF i = n + 1 THEN <<>> ELSE step[i] \o p[next[i]]]

\* the same from k on
UnrollsFrom(k, n, step, next, p) ==
  /\ p \in [1..n + 1 -> Seq(Int)]
  /\ p[n + 1] = <<>>
  /\ \A i \in 1..n : i >= k => p[i] = step[i] \o p[next[i]]

LEMMA UnrollsFrom1 ==
  ASSUME NEW n \in Nat, NEW step, NEW next, NEW p, UnrollsFrom(1, n, step, next, p)
  PROVE  Unrolls(n, step, next, p)
<1>1. p = [i \in 1..n + 1 |-> p[i]]
  BY DEF UnrollsFrom
<1>2. ASSUME NEW i \in 1..n + 1
      PROVE  p[i] = IF i = n + 1 THEN <<>> ELSE step[i] \o p[next[i]]
  <2>1. CASE i = n + 1
    BY <2>1 DEF UnrollsFrom
  <2>2. CASE i # n + 1
    <3>1. i \in 1..n /\ i >= 1
      BY <2>2
    <3>2. p[i] = step[i] \o p[next[i]]
      BY <3>1 DEF UnrollsFrom
    <3>. QED
      BY <2>2, <3>2
  <2>. QED
    BY <2>1, <2>2
<1>. QED
  BY <1>1, <1>2 DEF Unrolls

LEMMA Unroll ==
  ASSUME NEW n \in Nat, NEW step \in [1..n -> Seq(Int)], NEW next \in [1..n -> 1..n + 1],
         \A i \in 1..n : next[i] > i
  PROVE  \E p : UnrollsFrom(1, n, step, next, p)
<1>. DEFINE S == {k \in Nat : k <= n => \E p : UnrollsFrom(n + 1 - k, n, step, next, p)}
<1>1. 0 \in S
  <2>. DEFINE p == [i \in 1..n + 1 |-> <<>>]
  <2>1. UnrollsFrom(n + 1 - 0, n, step, next, p)
    BY DEF UnrollsFrom
  <2>. HIDE DEF p
  <2>. QED
    BY <2>1
<1>2. ASSUME NEW k \in Nat, k \in S PROVE k + 1 \in S
  <2>. SUFFICES ASSUME k + 1 <= n
                PROVE  \E q : UnrollsFrom(n + 1 - (k + 1), n, step, next, q)
    OBVIOUS
  <2>. DEFINE j == n - k
  <2>1. j \in 1..n /\ n + 1 - (k + 1) = j /\ n + 1 - k = j + 1
    OBVIOUS
  <2>2. PICK p : UnrollsFrom(j + 1, n, step, next, p)
    BY <1>2, <2>1
  <2>. HIDE DEF j
  <2>. DEFINE q == [p EXCEPT ![j] = step[j] \o p[next[j]]]
  <2>3. p \in [1..n + 1 -> Seq(Int)] /\ p[n + 1] = <<>>
    BY <2>2 DEF UnrollsFrom
  <2>4. step[j] \in Seq(Int) /\ next[j] \in 1..n + 1
    BY <2>1
  <2>5. p[next[j]] \in Seq(Int)
    BY <2>3, <2>4
  <2>6. step[j] \o p[next[j]] \in Seq(Int)
    BY <2>4, <2>5, ConcatProperties
  <2>7. q \in [1..n + 1 -> Seq(Int)] /\ q[n + 1] = <<>>
    BY <2>1, <2>3, <2>6
  <2>8. \A i \in 1..n + 1 : i # j => q[i] = p[i]
    BY <2>3
  <2>9. q[j] = step[j] \o p[next[j]]
    <3>1. j \in 1..n + 1
      BY <2>1
    <3>. QED
      BY <2>3, <3>1
  <2>10. ASSUME NEW i \in 1..n, i >= j PROVE q[i] = step[i] \o q[next[i]]
    <3>1. next[i] \in 1..n + 1 /\ next[i] # j
      BY <2>1, <2>10
    <3>2. q[next[i]] = p[next[i]]
      BY <2>8, <3>1
    <3>3. CASE i = j
      BY <2>9, <3>2, <3>3
    <3>4. CASE i # j
      <4>1. i >= j + 1
        BY <2>1, <2>10, <3>4
      <4>2. p[i] = step[i] \o p[next[i]]
        BY <2>2, <4>1 DEF UnrollsFrom
      <4>3. i \in 1..n + 1
        OBVIOUS
      <4>4. q[i] = p[i]
        BY <2>8, <3>4, <4>3
      <4>. QED
        BY <3>2, <4>2, <4>4
    <3>. QED
      BY <3>3, <3>4
  <2>. HIDE DEF q
  <2>11. UnrollsFrom(j, n, step, next, q)
    BY <2>7, <2>10 DEF UnrollsFrom
  <2>. QED
    BY <2>1, <2>11
<1>3. Nat \subseteq S
  <2>. HIDE DEF S
  <2>. QED
    BY <1>1, <1>2, SetInduction
<1>4. n + 1 - n = 1 /\ n <= n
  OBVIOUS
<1>. QED
  BY <1>3, <1>4

-----------------------------------------------------------------------------
(* Numbers shifted together *)

\* what Shifted sums up, for as many numbers as a code point has bytes
Sums(s) ==
  <<s[1], s[1] * 64 + s[2], (s[1] * 64 + s[2]) * 64 + s[3],
    ((s[1] * 64 + s[2]) * 64 + s[3]) * 64 + s[4]>>

LEMMA ShiftedSums ==
  ASSUME NEW n \in 1..4, NEW s, \A i \in 1..n : s[i] \in Int
  PROVE  Shifted(s, n) = Sums(s)[n]
<1>. DEFINE next(sum, i) == IF i = 0 THEN 0 ELSE sum[i - 1] * 64 + s[i]
            f == [i \in 0..n |-> IF i = 0 THEN 0 ELSE Sums(s)[i]]
            sum == CHOOSE g : g = [i \in 0..n |-> next(g, i)]
<1>1. f = [i \in 0..n |-> next(f, i)]
  <2>1. ASSUME NEW i \in 0..n PROVE f[i] = next(f, i)
    <3>1. CASE i = 0
      BY <3>1
    <3>2. CASE i = 1
      BY <3>2 DEF Sums
    <3>3. CASE i = 2
      BY <3>3 DEF Sums
    <3>4. CASE i = 3
      BY <3>4 DEF Sums
    <3>5. CASE i = 4
      BY <3>5 DEF Sums
    <3>. QED
      BY <3>1, <3>2, <3>3, <3>4, <3>5
  <2>. QED
    BY <2>1
<1>. HIDE DEF f
<1>2. sum = [i \in 0..n |-> next(sum, i)]
  BY <1>1
<1>3. Shifted(s, n) = sum[n]
  BY DEF Shifted
<1>. HIDE DEF sum
<1>4. \A i \in 0..n : sum[i] = next(sum, i)
  BY <1>2
<1>5. sum[0] = 0 /\ sum[1] = sum[0] * 64 + s[1]
  BY <1>4
<1>6. sum[1] = s[1]
  BY <1>5
<1>7. n >= 2 => sum[2] = sum[1] * 64 + s[2]
  BY <1>4
<1>8. n >= 3 => sum[3] = sum[2] * 64 + s[3]
  BY <1>4
<1>9. n >= 4 => sum[4] = sum[3] * 64 + s[4]
  BY <1>4
<1>. QED
  BY <1>3, <1>6, <1>7, <1>8, <1>9 DEF Sums

-----------------------------------------------------------------------------
(* The code point a sequence of bytes begins with *)

Bytes == {b \in Nat : b < 256}

\* the bytes a first byte announces
Need(b) == IF b < 192 THEN 1 ELSE IF b < 224 THEN 2 ELSE IF b < 240 THEN 3 ELSE 4

LEMMA NeedType ==
  ASSUME NEW b \in Bytes
  PROVE  Need(b) \in 1..4
BY DEF Need, Bytes

\* bytes are numbers
LEMMA ByteIs ==
  ASSUME NEW b \in Bytes
  PROVE  b \in Int /\ b >= 0 /\ b <= 255
BY DEF Bytes

LEMMA ByteAt ==
  ASSUME NEW u \in Seq(Bytes), NEW i \in 1..Len(u)
  PROVE  u[i] \in Bytes /\ u[i] \in Int /\ u[i] >= 0 /\ u[i] <= 255
<1>1. u[i] \in Bytes
  OBVIOUS
<1>. QED
  BY <1>1, ByteIs

\* the first byte of a character of n bytes
Leads(b, n) ==
  \/ n = 1 /\ b \in 0..127
  \/ n = 2 /\ b \in 192..223
  \/ n = 3 /\ b \in 224..239
  \/ n = 4 /\ b \in 240..247

LEMMA LeadsNeed ==
  ASSUME NEW b \in Int, NEW n, Leads(b, n)
  PROVE  n = Need(b)
BY DEF Leads, Need

LEMMA LeadsMark ==
  ASSUME NEW b \in Int, NEW n \in 1..4
  PROVE  b \in <<0, 192, 224, 240>>[n]..<<0, 192, 224, 240>>[n] + (<<128, 32, 16, 8>>[n] - 1)
           <=> Leads(b, n)
<1>1. CASE n = 1
  BY <1>1 DEF Leads
<1>2. CASE n = 2
  BY <1>2 DEF Leads
<1>3. CASE n = 3
  BY <1>3 DEF Leads
<1>4. CASE n = 4
  BY <1>4 DEF Leads
<1>. QED
  BY <1>1, <1>2, <1>3, <1>4

\* n bytes with the marks of a character of n bytes
Marked(u, n) == Leads(u[1], n) /\ \A i \in 2..n : u[i] \in 128..191

\* what the bytes of a character amount to, by their number
Plain(u) ==
  <<u[1],
    (u[1] - 192) * 64 + (u[2] - 128),
    ((u[1] - 224) * 64 + (u[2] - 128)) * 64 + (u[3] - 128),
    (((u[1] - 240) * 64 + (u[2] - 128)) * 64 + (u[3] - 128)) * 64 + (u[4] - 128)>>

LEMMA Value8Is ==
  ASSUME NEW u \in Seq(Bytes), NEW n \in 1..4, n <= Len(u)
  PROVE  Value8(u, n) = IF Marked(u, n) THEN Plain(u)[n] ELSE Malformed
<1>. DEFINE mark == <<0, 192, 224, 240>>[n]
            s == [i \in 1..n |-> IF i = 1 THEN u[1] - mark ELSE u[i] - 128]
            marked == /\ u[1] \in mark..mark + (<<128, 32, 16, 8>>[n] - 1)
                      /\ \A i \in 2..n : u[i] \in 128..191
<1>1. Value8(u, n) = IF marked THEN Shifted(s, n) ELSE Malformed
  BY DEF Value8
<1>3. \A i \in 1..n : u[i] \in Int
  BY ByteAt
<1>2. marked <=> Marked(u, n)
  <2>1. u[1] \in mark..mark + (<<128, 32, 16, 8>>[n] - 1) <=> Leads(u[1], n)
    BY <1>3, LeadsMark
  <2>. QED
    BY <2>1 DEF Marked
<1>4. mark \in Int
  <2>1. n = 1 \/ n = 2 \/ n = 3 \/ n = 4
    OBVIOUS
  <2>. QED
    BY <2>1
<1>5. \A i \in 1..n : s[i] = IF i = 1 THEN u[1] - mark ELSE u[i] - 128
  OBVIOUS
<1>6. \A i \in 1..n : s[i] \in Int
  BY <1>3, <1>4, <1>5
<1>7. Shifted(s, n) = Sums(s)[n]
  <2>. HIDE DEF s
  <2>. QED
    BY <1>6, ShiftedSums
<1>8. Sums(s)[n] = Plain(u)[n]
  <2>. HIDE DEF s
  <2>1. CASE n = 1
    BY <1>3, <1>5, <2>1 DEF Sums, Plain
  <2>2. CASE n = 2
    BY <1>3, <1>5, <2>2 DEF Sums, Plain
  <2>3. CASE n = 3
    BY <1>3, <1>5, <2>3 DEF Sums, Plain
  <2>4. CASE n = 4
    <3>1. s[1] = u[1] - 240 /\ s[2] = u[2] - 128 /\ s[3] = u[3] - 128 /\ s[4] = u[4] - 128
      BY <1>5, <2>4
    <3>2. Sums(s)[4] = ((s[1] * 64 + s[2]) * 64 + s[3]) * 64 + s[4]
      BY DEF Sums
    <3>3. Plain(u)[4] = (((u[1] - 240) * 64 + (u[2] - 128)) * 64 + (u[3] - 128)) * 64 + (u[4] - 128)
      BY DEF Plain
    <3>. QED
      BY <2>4, <3>1, <3>2, <3>3
  <2>. QED
    BY <2>1, <2>2, <2>3, <2>4
<1>. HIDE DEF s, marked
<1>. QED
  BY <1>1, <1>2, <1>7, <1>8

LEMMA Fits8Is ==
  ASSUME NEW u \in Seq(Bytes), NEW n \in 1..4
  PROVE  Fits8(u, n) <=>
           /\ n <= Len(u) /\ Marked(u, n)
           /\ Plain(u)[n] \in CodeSpace /\ Plain(u)[n] >= <<0, 128, 2048, 65536>>[n]
<1>1. CASE n <= Len(u)
  <2>1. Value8(u, n) = IF Marked(u, n) THEN Plain(u)[n] ELSE Malformed
    BY <1>1, Value8Is
  <2>2. Malformed \notin CodeSpace
    BY DEF Malformed, CodeSpace
  <2>. QED
    BY <1>1, <2>1, <2>2 DEF Fits8
<1>2. CASE ~(n <= Len(u))
  BY <1>2 DEF Fits8
<1>. QED
  BY <1>1, <1>2

LEMMA Fits8Need ==
  ASSUME NEW u \in Seq(Bytes), NEW n \in 1..4, Fits8(u, n)
  PROVE  n = Need(u[1])
<1>1. Marked(u, n)
  BY Fits8Is
<1>2. u[1] \in Int
  <2>1. n <= Len(u)
    BY DEF Fits8
  <2>2. 1 \in 1..Len(u)
    BY <2>1
  <2>. QED
    BY <2>2, ByteAt
<1>3. Leads(u[1], n)
  BY <1>1 DEF Marked
<1>. QED
  BY <1>2, <1>3, LeadsNeed

LEMMA Head8Is ==
  ASSUME NEW u \in Seq(Bytes), u # <<>>
  PROVE  Head8(u) = IF Fits8(u, Need(u[1])) THEN <<Need(u[1]), Value8(u, Need(u[1]))>>
                    ELSE <<1, Malformed>>
<1>1. u[1] \in Bytes
  OBVIOUS
<1>2. Need(u[1]) \in 1..4
  BY <1>1, NeedType
<1>3. CASE Fits8(u, Need(u[1]))
  <2>1. \E n \in 1..4 : Fits8(u, n)
    BY <1>2, <1>3
  <2>2. (CHOOSE n \in 1..4 : Fits8(u, n)) = Need(u[1])
    BY <2>1, Fits8Need
  <2>. QED
    BY <1>3, <2>1, <2>2 DEF Head8
<1>4. CASE ~Fits8(u, Need(u[1]))
  <2>1. ~\E n \in 1..4 : Fits8(u, n)
    BY <1>4, Fits8Need
  <2>. QED
    BY <1>4, <2>1 DEF Head8
<1>. QED
  BY <1>3, <1>4

\* the character is in the bytes its first byte announces
LEMMA Head8Local ==
  ASSUME NEW u \in Seq(Bytes), NEW v \in Seq(Bytes), u # <<>>, v # <<>>,
         \A i \in 1..Need(u[1]) : u[i] = v[i],
         Need(u[1]) <= Len(u), Need(u[1]) <= Len(v)
  PROVE  Head8(u) = Head8(v)
<1>. DEFINE n == Need(u[1])
<1>1. n \in 1..4
  <2>1. u[1] \in Bytes
    OBVIOUS
  <2>. QED
    BY <2>1, NeedType
<1>2. u[1] = v[1] /\ n = Need(v[1])
  BY <1>1
<1>3. Value8(u, n) = Value8(v, n)
  <2>. DEFINE mark == <<0, 192, 224, 240>>[n]
              s(w) == [i \in 1..n |-> IF i = 1 THEN w[1] - mark ELSE w[i] - 128]
              lead(b) == b \in mark..mark + (<<128, 32, 16, 8>>[n] - 1)
              tail(w) == \A i \in 2..n : w[i] \in 128..191
              marked(w) == lead(w[1]) /\ tail(w)
  <2>1. \A i \in 1..n : u[i] = v[i]
    OBVIOUS
  <2>. HIDE DEF n
  <2>2. s(u) = s(v)
    BY <1>2, <2>1
  <2>5. \A i \in 2..n : i \in 1..n
    BY <1>1
  <2>6. (\A i \in 2..n : u[i] \in 128..191) <=> \A i \in 2..n : v[i] \in 128..191
    BY <2>1, <2>5
  <2>7. marked(u) <=> marked(v)
    <3>. HIDE DEF lead
    <3>. QED
      BY <1>2, <2>6
  <2>3. Value8(u, n) = IF marked(u) THEN Shifted(s(u), n) ELSE Malformed
    BY DEF Value8
  <2>4. Value8(v, n) = IF marked(v) THEN Shifted(s(v), n) ELSE Malformed
    BY DEF Value8
  <2>. HIDE DEF s, marked
  <2>. QED
    BY <2>2, <2>3, <2>4, <2>7
<1>. HIDE DEF n
<1>4. Fits8(u, n) <=> Fits8(v, n)
  BY <1>3 DEF Fits8, n
<1>5. Head8(u) = IF Fits8(u, n) THEN <<n, Value8(u, n)>> ELSE <<1, Malformed>>
  BY Head8Is DEF n
<1>6. Head8(v) = IF Fits8(v, n) THEN <<n, Value8(v, n)>> ELSE <<1, Malformed>>
  BY <1>2, Head8Is
<1>. QED
  BY <1>3, <1>4, <1>5, <1>6

-----------------------------------------------------------------------------
(* Heads, and the code points of a text *)

Kp(cp, kept) == IF cp \in kept THEN <<cp>> ELSE <<>>
From(u, i) == SubSeq(u, i, Len(u))

LEMMA UnitsAre == Units("UTF8") = Bytes
BY DEF Units, Bytes

LEMMA UnitIs ==
  ASSUME NEW form \in Forms, NEW x \in Units(form)
  PROVE  x \in Nat
BY DEF Units

LEMMA TextIs ==
  ASSUME NEW form \in Forms, NEW u \in Seq(Units(form))
  PROVE  u \in Seq(Nat) /\ u \in Seq(Int) /\ Len(u) \in Nat
<1>1. Units(form) \subseteq Nat /\ Units(form) \subseteq Int
  BY UnitIs
<1>. HIDE DEF Units
<1>2. u \in Seq(Nat)
  BY <1>1, SeqMonotonic
<1>3. u \in Seq(Int)
  BY <1>1, SeqMonotonic
<1>. QED
  BY <1>2, <1>3

LEMMA FromIs ==
  ASSUME NEW S, NEW u \in Seq(S), NEW i \in 1..Len(u)
  PROVE  /\ From(u, i) \in Seq(S)
         /\ Len(From(u, i)) = Len(u) - i + 1
         /\ From(u, i) # <<>>
         /\ \A k \in 1..Len(u) - i + 1 : From(u, i)[k] = u[i + k - 1]
<1>1. i \in Int /\ Len(u) \in Int /\ i <= Len(u)
  OBVIOUS
<1>2. \A k \in i..Len(u) : u[k] \in S
  BY ElementOfSeq
<1>3. /\ From(u, i) \in Seq(S)
      /\ Len(From(u, i)) = IF i <= Len(u) THEN Len(u) - i + 1 ELSE 0
      /\ \A k \in 1..Len(u) - i + 1 : From(u, i)[k] = u[i + k - 1]
  BY <1>1, <1>2, SubSeqProperties DEF From
<1>4. Len(From(u, i)) = Len(u) - i + 1
  BY <1>1, <1>3
<1>5. From(u, i) # <<>>
  BY <1>1, <1>4, EmptySeq
<1>. QED
  BY <1>3, <1>4, <1>5

\* the head of a text is a part of it
LEMMA Head8Type ==
  ASSUME NEW u \in Seq(Bytes), u # <<>>
  PROVE  Head8(u)[1] \in 1..Len(u) /\ Head8(u)[2] \in Int
<1>. DEFINE n == Need(u[1])
<1>1. Len(u) \in Nat /\ 1 <= Len(u)
  OBVIOUS
<1>2. n \in 1..4
  BY <1>1, ByteAt, NeedType
<1>3. Malformed \in Int
  BY DEF Malformed
<1>4. CASE Fits8(u, n)
  <2>1. Head8(u) = <<n, Value8(u, n)>>
    BY <1>4, Head8Is
  <2>. HIDE DEF n
  <2>2. n <= Len(u) /\ Value8(u, n) \in CodeSpace
    BY <1>4 DEF Fits8
  <2>3. Value8(u, n) \in Int
    BY <2>2 DEF CodeSpace
  <2>. QED
    BY <1>1, <1>2, <2>1, <2>2, <2>3
<1>5. CASE ~Fits8(u, n)
  <2>1. Head8(u) = <<1, Malformed>>
    BY <1>5, Head8Is
  <2>. QED
    BY <1>1, <1>3, <2>1
<1>. QED
  BY <1>4, <1>5

LEMMA Head16Type ==
  ASSUME NEW u \in Seq(Nat), u # <<>>
  PROVE  Head16(u)[1] \in 1..Len(u) /\ Head16(u)[2] \in Int
<1>. DEFINE pair == Len(u) > 1 /\ IsHigh(u[1]) /\ IsLow(u[2])
<1>1. Len(u) \in Nat /\ 1 <= Len(u) /\ u[1] \in Nat
  OBVIOUS
<1>2. CASE pair
  <2>1. Head16(u) = <<2, 65536 + (u[1] % 1024) * 1024 + (u[2] % 1024)>>
    BY <1>2 DEF Head16
  <2>2. u[2] \in Nat
    BY <1>1, <1>2
  <2>. HIDE DEF pair
  <2>3. 65536 + (u[1] % 1024) * 1024 + (u[2] % 1024) \in Int
    BY <1>1, <2>2
  <2>. QED
    BY <1>1, <1>2, <2>1, <2>3 DEF pair
<1>3. CASE ~pair
  BY <1>1, <1>3 DEF Head16
<1>. QED
  BY <1>2, <1>3

LEMMA HeadType ==
  ASSUME NEW form \in Forms, NEW u \in Seq(Units(form)), u # <<>>
  PROVE  HeadOf(form, u)[1] \in 1..Len(u) /\ HeadOf(form, u)[2] \in Int
<1>1. CASE form = "UTF8"
  <2>1. u \in Seq(Bytes)
    BY <1>1, UnitsAre
  <2>2. HeadOf(form, u) = Head8(u)
    BY <1>1 DEF HeadOf
  <2>. QED
    BY <2>1, <2>2, Head8Type
<1>2. CASE form = "UTF16"
  <2>1. u \in Seq(Nat)
    BY TextIs
  <2>2. HeadOf(form, u) = Head16(u)
    BY <1>2 DEF HeadOf
  <2>. QED
    BY <2>1, <2>2, Head16Type
<1>3. CASE form = "UTF32"
  <2>1. u \in Seq(Nat) /\ Len(u) \in Nat /\ 1 <= Len(u)
    BY TextIs
  <2>2. HeadOf(form, u) = <<1, u[1]>>
    BY <1>3 DEF HeadOf
  <2>. QED
    BY <2>1, <2>2
<1>. QED
  BY <1>1, <1>2, <1>3 DEF Forms

LEMMA UnrollsType ==
  ASSUME NEW n \in Nat, NEW step \in [1..n -> Seq(Int)], NEW next \in [1..n -> 1..n + 1],
         \A i \in 1..n : next[i] > i, NEW f, Unrolls(n, step, next, f)
  PROVE  UnrollsFrom(1, n, step, next, f)
<1>. DEFINE S == {k \in Nat : \A i \in 1..n + 1 : i >= n + 1 - k => f[i] \in Seq(Int)}
<1>1. DOMAIN f = 1..n + 1 /\ f = [i \in 1..n + 1 |-> f[i]]
  BY DEF Unrolls
<1>2. f[n + 1] = <<>>
  BY DEF Unrolls
<1>3. ASSUME NEW i \in 1..n PROVE f[i] = step[i] \o f[next[i]]
  <2>1. i \in 1..n + 1 /\ i # n + 1
    OBVIOUS
  <2>. QED
    BY <2>1 DEF Unrolls
<1>4. 0 \in S
  <2>1. \A i \in 1..n + 1 : i >= n + 1 - 0 => i = n + 1
    OBVIOUS
  <2>2. <<>> \in Seq(Int)
    OBVIOUS
  <2>. QED
    BY <1>2, <2>1, <2>2
<1>5. ASSUME NEW k \in Nat, k \in S PROVE k + 1 \in S
  <2>. SUFFICES ASSUME NEW i \in 1..n + 1, i >= n + 1 - (k + 1) PROVE f[i] \in Seq(Int)
    OBVIOUS
  <2>1. CASE i >= n + 1 - k
    BY <1>5, <2>1
  <2>2. CASE ~(i >= n + 1 - k)
    <3>1. i \in 1..n
      BY <2>2
    <3>2. next[i] \in 1..n + 1 /\ next[i] > i
      BY <3>1
    <3>3. next[i] >= n + 1 - k
      BY <3>1, <3>2
    <3>4. f[next[i]] \in Seq(Int)
      BY <1>5, <3>2, <3>3
    <3>5. step[i] \in Seq(Int)
      BY <3>1
    <3>6. step[i] \o f[next[i]] \in Seq(Int)
      BY <3>4, <3>5, ConcatProperties
    <3>. QED
      BY <1>3, <3>1, <3>6
  <2>. QED
    BY <2>1, <2>2
<1>6. Nat \subseteq S
  <2>. HIDE DEF S
  <2>. QED
    BY <1>4, <1>5, SetInduction
<1>7. \A i \in 1..n + 1 : f[i] \in Seq(Int)
  <2>1. n \in S
    BY <1>6
  <2>2. \A i \in 1..n + 1 : i >= n + 1 - n
    OBVIOUS
  <2>. QED
    BY <2>1, <2>2
<1>8. f \in [1..n + 1 -> Seq(Int)]
  BY <1>1, <1>7
<1>. QED
  BY <1>2, <1>3, <1>8 DEF UnrollsFrom

\* the code points from each unit of a text on
Points(form, u, kept, p) ==
  /\ p \in [1..Len(u) + 1 -> Seq(Int)]
  /\ p[Len(u) + 1] = <<>>
  /\ \A i \in 1..Len(u) :
       p[i] = Kp(HeadOf(form, From(u, i))[2], kept) \o p[i + HeadOf(form, From(u, i))[1]]

LEMMA DecodedIs ==
  ASSUME NEW form \in Forms, NEW u \in Seq(Units(form)), NEW kept
  PROVE  \E p : Points(form, u, kept, p) /\ Decoded(form, u, kept) = p[1]
<1>. DEFINE n == Len(u)
            head(i) == HeadOf(form, From(u, i))
            step == [i \in 1..n |-> Kp(head(i)[2], kept)]
            next == [i \in 1..n |-> i + head(i)[1]]
            equation(f) == f = [i \in 1..n + 1 |-> IF i = n + 1 THEN <<>>
                                                   ELSE Kp(head(i)[2], kept) \o f[i + head(i)[1]]]
            points == CHOOSE f : equation(f)
<1>1. n \in Nat
  BY TextIs
<1>2. ASSUME NEW i \in 1..n
      PROVE  head(i)[1] \in 1..n - i + 1 /\ head(i)[2] \in Int
  <2>1. From(u, i) \in Seq(Units(form)) /\ Len(From(u, i)) = n - i + 1 /\ From(u, i) # <<>>
    BY FromIs
  <2>. HIDE DEF n
  <2>2. HeadOf(form, From(u, i))[1] \in 1..Len(From(u, i)) /\ HeadOf(form, From(u, i))[2] \in Int
    BY <2>1, HeadType
  <2>. QED
    BY <2>1, <2>2
<1>3. step \in [1..n -> Seq(Int)]
  <2>1. \A i \in 1..n : Kp(head(i)[2], kept) \in Seq(Int)
    <3>. HIDE DEF head, n
    <3>. QED
      BY <1>2 DEF Kp
  <2>. QED
    BY <2>1
<1>4. next \in [1..n -> 1..n + 1] /\ \A i \in 1..n : next[i] > i
  <2>1. \A i \in 1..n : i + head(i)[1] \in 1..n + 1 /\ i + head(i)[1] > i
    <3>. HIDE DEF head, n
    <3>. QED
      BY <1>1, <1>2
  <2>. HIDE DEF head, n
  <2>. QED
    BY <2>1
<1>5. \A i \in 1..n : step[i] = Kp(head(i)[2], kept) /\ next[i] = i + head(i)[1]
  OBVIOUS
<1>. HIDE DEF step, next
<1>6. PICK f : UnrollsFrom(1, n, step, next, f)
  <2>. HIDE DEF n
  <2>. QED
    BY <1>1, <1>3, <1>4, Unroll
<1>7. Unrolls(n, step, next, f)
  <2>. HIDE DEF n
  <2>. QED
    BY <1>1, <1>6, UnrollsFrom1
<1>8. ASSUME NEW g PROVE equation(g) <=> Unrolls(n, step, next, g)
  <2>1. [i \in 1..n + 1 |-> IF i = n + 1 THEN <<>> ELSE Kp(head(i)[2], kept) \o g[i + head(i)[1]]]
        = [i \in 1..n + 1 |-> IF i = n + 1 THEN <<>> ELSE step[i] \o g[next[i]]]
    <3>. HIDE DEF n, head
    <3>1. \A i \in 1..n + 1 : i # n + 1 => i \in 1..n
      BY <1>1
    <3>. QED
      BY <1>5, <3>1
  <2>. HIDE DEF n, head
  <2>. QED
    BY <2>1 DEF Unrolls
<1>9. equation(f)
  BY <1>7, <1>8
<1>10. equation(points)
  <2>. HIDE DEF equation
  <2>. QED
    BY <1>9
<1>11. Decoded(form, u, kept) = points[1]
  BY DEF Decoded, Kp, From
<1>. HIDE DEF points, equation
<1>12. Unrolls(n, step, next, points)
  BY <1>8, <1>10
<1>13. UnrollsFrom(1, n, step, next, points)
  <2>. HIDE DEF n
  <2>. QED
    BY <1>1, <1>3, <1>4, <1>12, UnrollsType
<1>14. Points(form, u, kept, points)
  <2>. HIDE DEF n, head
  <2>3. \A i \in 1..n : i >= 1
    BY <1>1
  <2>4. \A i \in 1..n : points[i] = step[i] \o points[next[i]]
    BY <1>13, <2>3 DEF UnrollsFrom
  <2>1. \A i \in 1..n : points[i] = Kp(head(i)[2], kept) \o points[i + head(i)[1]]
    BY <1>5, <2>4
  <2>2. points \in [1..n + 1 -> Seq(Int)] /\ points[n + 1] = <<>>
    BY <1>13 DEF UnrollsFrom
  <2>. QED
    BY <2>1, <2>2 DEF Points, n, head
<1>. QED
  BY <1>11, <1>14

\* a text begins with its head
LEMMA CodePointsFront ==
  ASSUME NEW form \in Forms, NEW u \in Seq(Units(form)), u # <<>>
  PROVE  1 \in DOMAIN CodePoints(form, u) /\ CodePoints(form, u)[1] = HeadOf(form, u)[2]
<1>1. PICK p : Points(form, u, Int, p) /\ Decoded(form, u, Int) = p[1]
  BY DecodedIs
<1>2. Len(u) \in Nat /\ 1 \in 1..Len(u)
  BY TextIs
<1>3. From(u, 1) = u
  BY SubSeqFull DEF From
<1>4. HeadOf(form, u)[1] \in 1..Len(u) /\ HeadOf(form, u)[2] \in Int
  BY HeadType
<1>. DEFINE cp == HeadOf(form, u)[2]
            k == 1 + HeadOf(form, u)[1]
<1>5. p[1] = Kp(cp, Int) \o p[k]
  BY <1>1, <1>2, <1>3 DEF Points
<1>6. k \in 1..Len(u) + 1
  BY <1>2, <1>4
<1>7. p[k] \in Seq(Int)
  BY <1>1, <1>6 DEF Points
<1>8. cp \in Int
  BY <1>4
<1>. HIDE DEF cp, k
<1>9. Kp(cp, Int) = <<cp>> /\ <<cp>> \in Seq(Int) /\ Len(<<cp>>) = 1 /\ <<cp>>[1] = cp
  BY <1>8 DEF Kp
<1>10. /\ p[1] \in Seq(Int) /\ Len(p[1]) = 1 + Len(p[k])
       /\ \A i \in 1..1 + Len(p[k]) : p[1][i] = IF i <= 1 THEN <<cp>>[i] ELSE p[k][i - 1]
  <2>. DEFINE one == <<cp>>
              rest == p[k]
  <2>1. p[1] = one \o rest /\ one \in Seq(Int) /\ rest \in Seq(Int) /\ Len(one) = 1
    BY <1>5, <1>7, <1>9
  <2>. HIDE DEF one, rest
  <2>2. /\ one \o rest \in Seq(Int)
        /\ Len(one \o rest) = Len(one) + Len(rest)
        /\ \A i \in 1..Len(one) + Len(rest) :
             (one \o rest)[i] = IF i <= Len(one) THEN one[i] ELSE rest[i - Len(one)]
    BY <2>1, ConcatProperties
  <2>3. /\ p[1] \in Seq(Int) /\ Len(p[1]) = 1 + Len(rest)
        /\ \A i \in 1..1 + Len(rest) : p[1][i] = IF i <= 1 THEN one[i] ELSE rest[i - 1]
    BY <2>1, <2>2
  <2>. QED
    BY <2>3 DEF one, rest
<1>11. Len(p[k]) \in Nat
  BY <1>7
<1>12. p[1][1] = cp /\ 1 \in DOMAIN p[1]
  BY <1>9, <1>10, <1>11
<1>. QED
  BY <1>1, <1>12 DEF CodePoints, cp

-----------------------------------------------------------------------------
(* A text and one more character *)

\* no character of u goes on in h
Joins(form, u, h) ==
  /\ form = "UTF8" => \A i \in 1..Len(u) : i + Need(u[i]) - 1 <= Len(u)
  /\ form = "UTF16" => ~(Len(u) > 0 /\ IsHigh(u[Len(u)]) /\ IsLow(h[1]))

LEMMA ConcatIs ==
  ASSUME NEW S, NEW u \in Seq(S), NEW h \in Seq(S)
  PROVE  /\ u \o h \in Seq(S)
         /\ Len(u \o h) = Len(u) + Len(h)
         /\ \A i \in 1..Len(u) : (u \o h)[i] = u[i]
         /\ \A i \in 1..Len(h) : (u \o h)[Len(u) + i] = h[i]
<1>1. Len(u) \in Nat /\ Len(h) \in Nat
  OBVIOUS
<1>2. /\ u \o h \in Seq(S)
      /\ Len(u \o h) = Len(u) + Len(h)
      /\ \A i \in 1..Len(u) + Len(h) : (u \o h)[i] = IF i <= Len(u) THEN u[i] ELSE h[i - Len(u)]
  BY ConcatProperties
<1>3. \A i \in 1..Len(u) : i \in 1..Len(u) + Len(h) /\ i <= Len(u)
  BY <1>1
<1>4. \A i \in 1..Len(h) : /\ Len(u) + i \in 1..Len(u) + Len(h) /\ ~(Len(u) + i <= Len(u))
                           /\ Len(u) + i - Len(u) = i
  BY <1>1
<1>5. \A i \in 1..Len(u) : (u \o h)[i] = u[i]
  BY <1>2, <1>3
<1>6. \A i \in 1..Len(h) : (u \o h)[Len(u) + i] = h[i]
  BY <1>2, <1>4
<1>. QED
  BY <1>2, <1>5, <1>6

LEMMA FromConcat ==
  ASSUME NEW S, NEW u \in Seq(S), NEW h \in Seq(S), h # <<>>
  PROVE  From(u \o h, Len(u) + 1) = h
<1>. DEFINE k == Len(u) + 1
            w == From(u \o h, k)
<1>1. Len(u) \in Nat /\ Len(h) \in Nat /\ Len(h) > 0
  OBVIOUS
<1>2. u \o h \in Seq(S) /\ Len(u \o h) = Len(u) + Len(h)
  BY ConcatIs
<1>3. \A i \in 1..Len(h) : (u \o h)[Len(u) + i] = h[i]
  BY ConcatIs
<1>4. k \in 1..Len(u \o h)
  BY <1>1, <1>2
<1>5. /\ w \in Seq(S)
      /\ Len(w) = Len(u \o h) - k + 1
      /\ \A i \in 1..Len(u \o h) - k + 1 : w[i] = (u \o h)[k + i - 1]
  <2>. HIDE DEF k
  <2>. QED
    BY <1>2, <1>4, FromIs
<1>6. Len(w) = Len(h)
  BY <1>1, <1>2, <1>5
<1>7. ASSUME NEW i \in 1..Len(h) PROVE w[i] = h[i]
  <2>1. i \in 1..Len(u \o h) - k + 1 /\ k + i - 1 = Len(u) + i
    BY <1>1, <1>2
  <2>2. w[i] = (u \o h)[k + i - 1]
    BY <1>5, <2>1
  <2>. QED
    BY <1>3, <2>1, <2>2
<1>. HIDE DEF w
<1>8. w = h
  BY <1>5, <1>6, <1>7, SeqEqual
<1>. QED
  BY <1>8 DEF w

LEMMA HeadStable ==
  ASSUME NEW form \in Forms, NEW u \in Seq(Units(form)), NEW h \in Seq(Units(form)), h # <<>>,
         Joins(form, u, h), NEW i \in 1..Len(u)
  PROVE  HeadOf(form, From(u \o h, i)) = HeadOf(form, From(u, i))
<1>. DEFINE v == From(u, i)
            w == From(u \o h, i)
            S == Units(form)
<1>. HIDE DEF S
<1>1. u \in Seq(S) /\ h \in Seq(S)
  BY DEF S
<1>2. Len(u) \in Nat /\ Len(h) \in Nat /\ Len(h) > 0
  BY <1>1
<1>3. u \o h \in Seq(S) /\ Len(u \o h) = Len(u) + Len(h)
  BY <1>1, ConcatIs
<1>4. \A k \in 1..Len(u) : (u \o h)[k] = u[k]
  BY <1>1, ConcatIs
<1>5. (u \o h)[Len(u) + 1] = h[1]
  <2>1. \A k \in 1..Len(h) : (u \o h)[Len(u) + k] = h[k]
    BY <1>1, ConcatIs
  <2>2. 1 \in 1..Len(h)
    BY <1>2
  <2>. QED
    BY <2>1, <2>2
<1>6. i \in 1..Len(u \o h)
  BY <1>2, <1>3
<1>7. v \in Seq(S) /\ Len(v) = Len(u) - i + 1 /\ v # <<>>
  BY <1>1, FromIs
<1>8. w \in Seq(S) /\ Len(w) = Len(u) + Len(h) - i + 1 /\ w # <<>>
  <2>1. w \in Seq(S) /\ Len(w) = Len(u \o h) - i + 1 /\ w # <<>>
    BY <1>3, <1>6, FromIs
  <2>. QED
    BY <1>3, <2>1
<1>9. \A k \in 1..Len(u) - i + 1 : v[k] = u[i + k - 1]
  BY <1>1, FromIs
<1>10. \A k \in 1..Len(u) + Len(h) - i + 1 : w[k] = (u \o h)[i + k - 1]
  <2>1. \A k \in 1..Len(u \o h) - i + 1 : w[k] = (u \o h)[i + k - 1]
    BY <1>3, <1>6, FromIs
  <2>. QED
    BY <1>3, <2>1
<1>. HIDE DEF v, w
<1>11. ASSUME NEW k \in 1..Len(v) PROVE v[k] = w[k]
  <2>1. k \in 1..Len(u) - i + 1 /\ k \in 1..Len(u) + Len(h) - i + 1 /\ i + k - 1 \in 1..Len(u)
    BY <1>2, <1>7
  <2>2. v[k] = u[i + k - 1]
    BY <1>9, <2>1
  <2>3. w[k] = (u \o h)[i + k - 1]
    BY <1>10, <2>1
  <2>. QED
    BY <1>4, <2>1, <2>2, <2>3
<1>12. v[1] = u[i] /\ v[1] = w[1]
  <2>1. 1 \in 1..Len(v) /\ 1 \in 1..Len(u) - i + 1 /\ i + 1 - 1 = i
    BY <1>2, <1>7
  <2>. QED
    BY <1>9, <1>11, <2>1
<1>13. CASE form = "UTF8"
  <2>1. S = Bytes
    BY <1>13, UnitsAre DEF S
  <2>2. v \in Seq(Bytes) /\ w \in Seq(Bytes)
    BY <1>7, <1>8, <2>1
  <2>3. i + Need(u[i]) - 1 <= Len(u)
    BY <1>13 DEF Joins
  <2>4. Need(v[1]) \in Nat
    <3>1. 1 \in 1..Len(v)
      BY <1>2, <1>7
    <3>2. v[1] \in Bytes
      BY <2>2, <3>1
    <3>. QED
      BY <3>2, NeedType
  <2>5. Need(v[1]) <= Len(v) /\ Need(v[1]) <= Len(w)
    BY <1>2, <1>7, <1>8, <1>12, <2>3, <2>4
  <2>6. \A k \in 1..Need(v[1]) : v[k] = w[k]
    <3>1. \A k \in 1..Need(v[1]) : k \in 1..Len(v)
      BY <1>2, <1>7, <2>4, <2>5
    <3>. QED
      BY <1>11, <3>1
  <2>7. Head8(v) = Head8(w)
    BY <1>7, <1>8, <2>2, <2>5, <2>6, Head8Local
  <2>. QED
    BY <1>13, <2>7 DEF HeadOf, v, w
<1>14. CASE form = "UTF16"
  <2>. DEFINE pair(x) == Len(x) > 1 /\ IsHigh(x[1]) /\ IsLow(x[2])
  <2>1. CASE i < Len(u)
    <3>1. Len(v) > 1 /\ Len(w) > 1 /\ 2 \in 1..Len(v)
      BY <1>2, <1>7, <1>8, <2>1
    <3>2. v[2] = w[2]
      BY <1>11, <3>1
    <3>3. Head16(v) = Head16(w)
      BY <1>12, <3>1, <3>2 DEF Head16
    <3>. QED
      BY <1>14, <3>3 DEF HeadOf, v, w
  <2>2. CASE ~(i < Len(u))
    <3>1. i = Len(u) /\ Len(v) = 1 /\ Len(u) > 0
      BY <1>2, <1>7, <2>2
    <3>2. w[2] = h[1]
      <4>1. 2 \in 1..Len(u) + Len(h) - i + 1 /\ i + 2 - 1 = Len(u) + 1
        BY <1>2, <3>1
      <4>. QED
        BY <1>5, <1>10, <4>1
    <3>3. ~(IsHigh(w[1]) /\ IsLow(w[2]))
      BY <1>12, <1>14, <3>1, <3>2 DEF Joins
    <3>4. Head16(w) = <<1, w[1]>>
      BY <3>3 DEF Head16
    <3>5. Head16(v) = <<1, v[1]>>
      BY <3>1 DEF Head16
    <3>. QED
      BY <1>12, <1>14, <3>4, <3>5 DEF HeadOf, v, w
  <2>. QED
    BY <2>1, <2>2
<1>15. CASE form = "UTF32"
  BY <1>12, <1>15 DEF HeadOf, v, w
<1>. QED
  BY <1>13, <1>14, <1>15 DEF Forms

LEMMA IntConcatIs ==
  ASSUME NEW u \in Seq(Int), NEW h \in Seq(Int)
  PROVE  /\ u \o h \in Seq(Int)
         /\ Len(u \o h) = Len(u) + Len(h)
         /\ \A i \in 1..Len(u) : (u \o h)[i] = u[i]
         /\ \A i \in 1..Len(h) : (u \o h)[Len(u) + i] = h[i]
BY ConcatIs

LEMMA IntConcatAssociative ==
  ASSUME NEW a \in Seq(Int), NEW b \in Seq(Int), NEW c \in Seq(Int)
  PROVE  (a \o b) \o c = a \o (b \o c)
BY ConcatAssociative

LEMMA KpType ==
  ASSUME NEW cp \in Int, NEW kept
  PROVE  Kp(cp, kept) \in Seq(Int)
BY DEF Kp

LEMMA DecodedType ==
  ASSUME NEW form \in Forms, NEW u \in Seq(Units(form)), NEW kept
  PROVE  Decoded(form, u, kept) \in Seq(Int)
<1>1. PICK p : Points(form, u, kept, p) /\ Decoded(form, u, kept) = p[1]
  BY DecodedIs
<1>2. 1 \in 1..Len(u) + 1
  BY TextIs
<1>. QED
  BY <1>1, <1>2 DEF Points

LEMMA DecodedEmpty ==
  ASSUME NEW form \in Forms, NEW kept
  PROVE  Decoded(form, <<>>, kept) = <<>>
<1>1. <<>> \in Seq(Units(form)) /\ Len(<<>>) = 0
  OBVIOUS
<1>2. PICK p : Points(form, <<>>, kept, p) /\ Decoded(form, <<>>, kept) = p[1]
  BY <1>1, DecodedIs
<1>. QED
  BY <1>1, <1>2 DEF Points

\* the code points of a text and one more character
LEMMA DecodedSnoc ==
  ASSUME NEW form \in Forms, NEW u \in Seq(Units(form)), NEW h \in Seq(Units(form)), h # <<>>,
         NEW cp \in Int, NEW kept, Joins(form, u, h), HeadOf(form, h) = <<Len(h), cp>>
  PROVE  Decoded(form, u \o h, kept) = Decoded(form, u, kept) \o Kp(cp, kept)
<1>. DEFINE w == u \o h
            n == Len(u)
            k == Kp(cp, kept)
            head(i) == HeadOf(form, From(u, i))
<1>1. n \in Nat /\ Len(h) \in Nat /\ Len(h) > 0 /\ n = Len(u)
  BY TextIs
<1>2. w \in Seq(Units(form)) /\ Len(w) = n + Len(h)
  BY ConcatIs
<1>3. k \in Seq(Int)
  BY KpType
<1>4. From(w, n + 1) = h
  BY FromConcat
<1>5. \A i \in 1..n : HeadOf(form, From(w, i)) = head(i)
  BY HeadStable
<1>6. ASSUME NEW i \in 1..n PROVE head(i)[1] \in 1..n - i + 1 /\ head(i)[2] \in Int
  <2>1. From(u, i) \in Seq(Units(form)) /\ Len(From(u, i)) = n - i + 1 /\ From(u, i) # <<>>
    BY FromIs
  <2>2. HeadOf(form, From(u, i))[1] \in 1..Len(From(u, i)) /\ HeadOf(form, From(u, i))[2] \in Int
    BY <2>1, HeadType
  <2>. HIDE DEF n
  <2>. QED
    BY <2>1, <2>2
<1>. HIDE DEF w, k
<1>7. PICK p : Points(form, u, kept, p) /\ Decoded(form, u, kept) = p[1]
  BY DecodedIs
<1>8. PICK q : Points(form, w, kept, q) /\ Decoded(form, w, kept) = q[1]
  BY <1>2, DecodedIs
<1>9. /\ p \in [1..n + 1 -> Seq(Int)] /\ p[n + 1] = <<>>
      /\ \A i \in 1..n : p[i] = Kp(head(i)[2], kept) \o p[i + head(i)[1]]
  BY <1>7 DEF Points
<1>. HIDE DEF n, head
<1>10. q[n + 1] = k
  <2>1. n + 1 \in 1..Len(w)
    BY <1>1, <1>2
  <2>2. q[n + 1] = Kp(HeadOf(form, From(w, n + 1))[2], kept) \o q[n + 1 + HeadOf(form, From(w, n + 1))[1]]
    BY <1>8, <2>1 DEF Points
  <2>3. HeadOf(form, From(w, n + 1))[2] = cp /\ HeadOf(form, From(w, n + 1))[1] = Len(h)
    BY <1>4
  <2>4. n + 1 + Len(h) = Len(w) + 1
    BY <1>1, <1>2
  <2>5. q[Len(w) + 1] = <<>>
    BY <1>8 DEF Points
  <2>6. q[n + 1] = k \o <<>>
    BY <2>2, <2>3, <2>4, <2>5 DEF k
  <2>. QED
    BY <1>3, <2>6, ConcatEmptySeq
<1>11. ASSUME NEW i \in 1..n PROVE q[i] = Kp(head(i)[2], kept) \o q[i + head(i)[1]]
  <2>1. i \in 1..Len(w)
    BY <1>1, <1>2
  <2>2. q[i] = Kp(HeadOf(form, From(w, i))[2], kept) \o q[i + HeadOf(form, From(w, i))[1]]
    BY <1>8, <2>1 DEF Points
  <2>. QED
    BY <1>5, <2>2
<1>. DEFINE S == {m \in Nat : \A i \in 1..n + 1 : i >= n + 1 - m => q[i] = p[i] \o k}
<1>12. 0 \in S
  <2>1. \A i \in 1..n + 1 : i >= n + 1 - 0 => i = n + 1
    BY <1>1
  <2>2. <<>> \o k = k
    BY <1>3, ConcatEmptySeq
  <2>3. q[n + 1] = p[n + 1] \o k
    BY <1>9, <1>10, <2>2
  <2>. QED
    BY <2>1, <2>3
<1>13. ASSUME NEW m \in Nat, m \in S PROVE m + 1 \in S
  <2>. SUFFICES ASSUME NEW i \in 1..n + 1, i >= n + 1 - (m + 1) PROVE q[i] = p[i] \o k
    OBVIOUS
  <2>1. CASE i >= n + 1 - m
    BY <1>13, <2>1
  <2>2. CASE ~(i >= n + 1 - m)
    <3>1. i \in 1..n
      BY <1>1, <2>2
    <3>. DEFINE j == i + head(i)[1]
                a == Kp(head(i)[2], kept)
                b == p[j]
    <3>2. j \in 1..n + 1 /\ j >= n + 1 - m
      BY <1>1, <1>6, <3>1
    <3>3. q[j] = p[j] \o k
      BY <1>13, <3>2
    <3>4. p[j] \in Seq(Int)
      BY <1>9, <3>2
    <3>5. a \in Seq(Int)
      BY <1>6, <3>1, KpType
    <3>6. q[i] = a \o q[j]
      BY <1>11, <3>1
    <3>7. p[i] = a \o p[j]
      BY <1>9, <3>1
    <3>. HIDE DEF a, b, S
    <3>8. b \in Seq(Int)
      BY <3>4 DEF b
    <3>9. (a \o b) \o k = a \o (b \o k)
      BY <1>3, <3>5, <3>8, IntConcatAssociative
    <3>. QED
      BY <3>3, <3>6, <3>7, <3>9 DEF b
  <2>. QED
    BY <2>1, <2>2
<1>14. n \in S
  <2>. HIDE DEF S
  <2>1. Nat \subseteq S
    BY <1>12, <1>13, SetInduction
  <2>. QED
    BY <1>1, <2>1
<1>15. q[1] = p[1] \o k
  <2>1. 1 \in 1..n + 1 /\ 1 >= n + 1 - n
    BY <1>1
  <2>. QED
    BY <1>14, <2>1
<1>. QED
  BY <1>7, <1>8, <1>15 DEF w, k

-----------------------------------------------------------------------------
(* What the conversions write is read back *)

LEMMA CodeSpaceIs ==
  ASSUME NEW cp \in CodeSpace
  PROVE  cp \in Nat /\ cp <= 1114111 /\ cp \in Int
BY DEF CodeSpace, IsHuge

\* h is one character, the code point cp, and nothing goes on behind it
OneCharacter8(h, cp) ==
  /\ h \in Seq(Bytes) /\ h # <<>>
  /\ Head8(h) = <<Len(h), cp>>
  /\ \A i \in 1..Len(h) : i + Need(h[i]) - 1 <= Len(h)

LEMMA OneCharacter8Is ==
  ASSUME NEW n \in 1..4, NEW h \in Seq(Bytes), Len(h) = n, Marked(h, n),
         NEW cp \in CodeSpace, Plain(h)[n] = cp, cp >= <<0, 128, 2048, 65536>>[n]
  PROVE  OneCharacter8(h, cp)
<1>1. Fits8(h, n)
  <2>1. n <= Len(h)
    OBVIOUS
  <2>. QED
    BY <2>1, Fits8Is
<1>2. n = Need(h[1])
  BY <1>1, Fits8Need
<1>3. h # <<>>
  BY EmptySeq
<1>4. Value8(h, n) = cp
  <2>1. n <= Len(h)
    OBVIOUS
  <2>. QED
    BY <2>1, Value8Is
<1>5. Head8(h) = <<n, cp>>
  BY <1>1, <1>2, <1>3, <1>4, Head8Is
<1>6. ASSUME NEW i \in 1..Len(h) PROVE i + Need(h[i]) - 1 <= Len(h)
  <2>1. CASE i = 1
    BY <1>2, <2>1
  <2>2. CASE i # 1
    <3>1. h[i] \in 128..191
      BY <2>2 DEF Marked
    <3>2. Need(h[i]) = 1
      <4>. DEFINE b == h[i]
      <4>1. b \in 128..191
        BY <3>1
      <4>. HIDE DEF b
      <4>2. b < 192
        BY <4>1
      <4>3. Need(b) = 1
        BY <4>2 DEF Need
      <4>. QED
        BY <4>3 DEF b
    <3>. QED
      BY <3>2
  <2>. QED
    BY <2>1, <2>2
<1>. QED
  BY <1>3, <1>5, <1>6 DEF OneCharacter8

\* sixty-fours and the rest
LEMMA Digits ==
  ASSUME NEW ch \in Nat
  PROVE  /\ (ch \div 64) * 64 + ((ch \div 1) % 64) = ch
         /\ (ch \div 4096) * 64 + ((ch \div 64) % 64) = ch \div 64
         /\ (ch \div 262144) * 64 + ((ch \div 4096) % 64) = ch \div 4096
OBVIOUS

\* a trailing byte
Tail64(ch, n) == 128 + ((ch \div n) % 64)

LEMMA Tail64Is ==
  ASSUME NEW ch \in Nat, NEW n \in {1, 64, 4096}
  PROVE  Tail64(ch, n) \in 128..191 /\ Tail64(ch, n) \in Bytes
BY DEF Tail64, Bytes

LEMMA UTF8BytesRead ==
  ASSUME NEW cp \in CodeSpace
  PROVE  OneCharacter8(UTF8Bytes(cp), cp)
<1>. DEFINE h == UTF8Bytes(cp)
<1>1. cp \in Nat /\ cp <= 1114111
  BY CodeSpaceIs
<1>2. CASE cp < 128
  <2>1. h = <<cp>>
    BY <1>2 DEF UTF8Bytes
  <2>2. cp \in Bytes
    BY <1>1, <1>2 DEF Bytes
  <2>3. h \in Seq(Bytes) /\ Len(h) = 1 /\ h[1] = cp
    BY <2>1, <2>2
  <2>. HIDE DEF h
  <2>4. Marked(h, 1)
    BY <1>1, <1>2, <2>3 DEF Marked, Leads
  <2>5. Plain(h)[1] = cp
    BY <2>3 DEF Plain
  <2>6. cp >= <<0, 128, 2048, 65536>>[1]
    BY <1>1
  <2>7. OneCharacter8(h, cp)
    BY <2>3, <2>4, <2>5, <2>6, OneCharacter8Is
  <2>. QED
    BY <2>7 DEF h
<1>3. CASE cp >= 128 /\ cp < 2048
  <2>. DEFINE a == 192 + cp \div 64
              b == Tail64(cp, 1)
  <2>1. h = <<a, b>>
    BY <1>1, <1>3 DEF UTF8Bytes, Tail64
  <2>2. a \in 192..223 /\ a \in Bytes
    BY <1>1, <1>3 DEF Bytes
  <2>3. b \in 128..191 /\ b \in Bytes
    BY <1>1, Tail64Is
  <2>4. (a - 192) * 64 + (b - 128) = cp
    BY <1>1, Digits DEF Tail64
  <2>. HIDE DEF a, b
  <2>5. h \in Seq(Bytes) /\ Len(h) = 2 /\ h[1] = a /\ h[2] = b
    BY <2>1, <2>2, <2>3
  <2>. HIDE DEF h
  <2>6. Marked(h, 2)
    <3>1. Leads(h[1], 2)
      BY <2>2, <2>5 DEF Leads
    <3>2. \A i \in 2..2 : i = 2
      OBVIOUS
    <3>3. \A i \in 2..2 : h[i] \in 128..191
      BY <2>3, <2>5, <3>2
    <3>. QED
      BY <3>1, <3>3 DEF Marked
  <2>7. Plain(h)[2] = cp
    BY <2>4, <2>5 DEF Plain
  <2>8. cp >= <<0, 128, 2048, 65536>>[2]
    BY <1>3
  <2>9. OneCharacter8(h, cp)
    BY <2>5, <2>6, <2>7, <2>8, OneCharacter8Is
  <2>. QED
    BY <2>9 DEF h
<1>4. CASE cp >= 2048 /\ cp < 65536
  <2>. DEFINE a == 224 + cp \div 4096
              b == Tail64(cp, 64)
              c == Tail64(cp, 1)
  <2>1. h = <<a, b, c>>
    BY <1>1, <1>4 DEF UTF8Bytes, Tail64
  <2>2. a \in 224..239 /\ a \in Bytes
    BY <1>1, <1>4 DEF Bytes
  <2>3. b \in 128..191 /\ b \in Bytes /\ c \in 128..191 /\ c \in Bytes
    BY <1>1, Tail64Is
  <2>4. ((a - 224) * 64 + (b - 128)) * 64 + (c - 128) = cp
    BY <1>1, Digits DEF Tail64
  <2>. HIDE DEF a, b, c
  <2>5. h \in Seq(Bytes) /\ Len(h) = 3 /\ h[1] = a /\ h[2] = b /\ h[3] = c
    BY <2>1, <2>2, <2>3
  <2>. HIDE DEF h
  <2>6. Marked(h, 3)
    <3>1. Leads(h[1], 3)
      BY <2>2, <2>5 DEF Leads
    <3>2. \A i \in 2..3 : i = 2 \/ i = 3
      OBVIOUS
    <3>3. \A i \in 2..3 : h[i] \in 128..191
      BY <2>3, <2>5, <3>2
    <3>. QED
      BY <3>1, <3>3 DEF Marked
  <2>7. Plain(h)[3] = cp
    BY <2>4, <2>5 DEF Plain
  <2>8. cp >= <<0, 128, 2048, 65536>>[3]
    BY <1>4
  <2>9. OneCharacter8(h, cp)
    BY <2>5, <2>6, <2>7, <2>8, OneCharacter8Is
  <2>. QED
    BY <2>9 DEF h
<1>5. CASE cp >= 65536
  <2>. DEFINE a == 240 + cp \div 262144
              b == Tail64(cp, 4096)
              c == Tail64(cp, 64)
              d == Tail64(cp, 1)
  <2>1. h = <<a, b, c, d>>
    BY <1>1, <1>5 DEF UTF8Bytes, Tail64
  <2>2. a \in 240..247 /\ a \in Bytes
    BY <1>1, <1>5 DEF Bytes
  <2>3. /\ b \in 128..191 /\ b \in Bytes /\ c \in 128..191 /\ c \in Bytes
        /\ d \in 128..191 /\ d \in Bytes
    BY <1>1, Tail64Is
  <2>4. (((a - 240) * 64 + (b - 128)) * 64 + (c - 128)) * 64 + (d - 128) = cp
    BY <1>1, Digits DEF Tail64
  <2>. HIDE DEF a, b, c, d
  <2>5. h \in Seq(Bytes) /\ Len(h) = 4 /\ h[1] = a /\ h[2] = b /\ h[3] = c /\ h[4] = d
    BY <2>1, <2>2, <2>3
  <2>. HIDE DEF h
  <2>6. Marked(h, 4)
    <3>1. Leads(h[1], 4)
      BY <2>2, <2>5 DEF Leads
    <3>2. \A i \in 2..4 : i = 2 \/ i = 3 \/ i = 4
      OBVIOUS
    <3>3. \A i \in 2..4 : h[i] \in 128..191
      BY <2>3, <2>5, <3>2
    <3>. QED
      BY <3>1, <3>3 DEF Marked
  <2>7. Plain(h)[4] = cp
    BY <2>4, <2>5 DEF Plain
  <2>8. cp >= <<0, 128, 2048, 65536>>[4]
    BY <1>5
  <2>9. OneCharacter8(h, cp)
    BY <2>5, <2>6, <2>7, <2>8, OneCharacter8Is
  <2>. QED
    BY <2>9 DEF h
<1>. QED
  BY <1>1, <1>2, <1>3, <1>4, <1>5

\* nothing behind u belongs to its last character
Closed(form, u) ==
  /\ form = "UTF8" => \A i \in 1..Len(u) : i + Need(u[i]) - 1 <= Len(u)
  /\ form = "UTF16" => ~(Len(u) > 0 /\ IsHigh(u[Len(u)]))

LEMMA ClosedJoins ==
  ASSUME NEW form, NEW u, NEW h, Closed(form, u)
  PROVE  Joins(form, u, h)
BY DEF Closed, Joins

LEMMA ClosedEmpty ==
  ASSUME NEW form
  PROVE  Closed(form, <<>>)
<1>1. Len(<<>>) = 0
  OBVIOUS
<1>. QED
  BY <1>1 DEF Closed

LEMMA WholeConcat ==
  ASSUME NEW u \in Seq(Bytes), NEW h \in Seq(Bytes),
         \A i \in 1..Len(u) : i + Need(u[i]) - 1 <= Len(u),
         \A i \in 1..Len(h) : i + Need(h[i]) - 1 <= Len(h)
  PROVE  \A i \in 1..Len(u \o h) : i + Need((u \o h)[i]) - 1 <= Len(u \o h)
<1>. DEFINE w == u \o h
<1>1. Len(u) \in Nat /\ Len(h) \in Nat
  OBVIOUS
<1>2. /\ Len(w) = Len(u) + Len(h)
      /\ \A i \in 1..Len(u) : w[i] = u[i]
      /\ \A i \in 1..Len(h) : w[Len(u) + i] = h[i]
  BY ConcatIs
<1>. HIDE DEF w
<1>3. ASSUME NEW i \in 1..Len(w) PROVE i + Need(w[i]) - 1 <= Len(w)
  <2>1. CASE i <= Len(u)
    <3>1. i \in 1..Len(u)
      BY <1>1, <1>2, <2>1
    <3>2. w[i] = u[i] /\ i + Need(u[i]) - 1 <= Len(u)
      BY <1>2, <3>1
    <3>3. Need(u[i]) \in Nat
      BY <3>1, ByteAt, NeedType
    <3>. QED
      BY <1>1, <1>2, <3>2, <3>3
  <2>2. CASE ~(i <= Len(u))
    <3>. DEFINE j == i - Len(u)
    <3>1. j \in 1..Len(h) /\ Len(u) + j = i
      BY <1>1, <1>2, <2>2
    <3>. HIDE DEF j
    <3>2. w[i] = h[j] /\ j + Need(h[j]) - 1 <= Len(h)
      BY <1>2, <3>1
    <3>3. Need(h[j]) \in Nat
      BY <3>1, ByteAt, NeedType
    <3>. QED
      BY <1>1, <1>2, <3>1, <3>2, <3>3
  <2>. QED
    BY <2>1, <2>2
<1>. QED
  BY <1>3 DEF w

LEMMA ClosedConcat ==
  ASSUME NEW form \in Forms, NEW u \in Seq(Units(form)), NEW h \in Seq(Units(form)), h # <<>>,
         Closed(form, u), Closed(form, h)
  PROVE  Closed(form, u \o h)
<1>1. CASE form = "UTF8"
  <2>1. u \in Seq(Bytes) /\ h \in Seq(Bytes)
    BY <1>1, UnitsAre
  <2>2. /\ \A i \in 1..Len(u) : i + Need(u[i]) - 1 <= Len(u)
        /\ \A i \in 1..Len(h) : i + Need(h[i]) - 1 <= Len(h)
    BY <1>1 DEF Closed
  <2>3. \A i \in 1..Len(u \o h) : i + Need((u \o h)[i]) - 1 <= Len(u \o h)
    BY <2>1, <2>2, WholeConcat
  <2>. QED
    BY <1>1, <2>3 DEF Closed
<1>2. CASE form = "UTF16"
  <2>1. /\ Len(u \o h) = Len(u) + Len(h)
        /\ \A i \in 1..Len(h) : (u \o h)[Len(u) + i] = h[i]
    BY ConcatIs
  <2>2. Len(h) \in Nat /\ Len(h) > 0
    OBVIOUS
  <2>3. Len(h) \in 1..Len(h)
    BY <2>2
  <2>4. (u \o h)[Len(u \o h)] = h[Len(h)]
    BY <2>1, <2>3
  <2>. QED
    BY <1>2, <2>2, <2>4 DEF Closed
<1>3. CASE form = "UTF32"
  BY <1>3 DEF Closed
<1>. QED
  BY <1>1, <1>2, <1>3 DEF Forms

\* h is the character cp of the form
OneCharacter(form, h, cp) ==
  /\ h \in Seq(Units(form)) /\ h # <<>> /\ cp \in Int
  /\ HeadOf(form, h) = <<Len(h), cp>>
  /\ Closed(form, h)

LEMMA Surrogates ==
  ASSUME NEW c \in Int
  PROVE  /\ IsHigh(c) <=> (c >= 55296 /\ c <= 56319)
         /\ IsLow(c) <=> (c >= 56320 /\ c <= 57343)
BY DEF IsHigh, IsLow

LEMMA InUTF8 ==
  ASSUME NEW cp \in CodeSpace
  PROVE  OneCharacter("UTF8", UTF8Bytes(cp), cp)
<1>. DEFINE h == UTF8Bytes(cp)
<1>1. OneCharacter8(h, cp)
  BY UTF8BytesRead
<1>2. cp \in Int
  BY CodeSpaceIs
<1>. HIDE DEF h
<1>3. h \in Seq(Bytes) /\ h # <<>>
  BY <1>1 DEF OneCharacter8
<1>4. Head8(h) = <<Len(h), cp>>
  BY <1>1 DEF OneCharacter8
<1>5. Closed("UTF8", h)
  BY <1>1 DEF OneCharacter8, Closed
<1>6. HeadOf("UTF8", h) = Head8(h)
  BY DEF HeadOf
<1>7. h \in Seq(Units("UTF8"))
  BY <1>3, UnitsAre
<1>8. OneCharacter("UTF8", h, cp)
  BY <1>2, <1>3, <1>4, <1>5, <1>6, <1>7 DEF OneCharacter
<1>. QED
  BY <1>8 DEF h

LEMMA InUTF16 ==
  ASSUME NEW cp \in CodeSpace, ~IsSurrogate(cp)
  PROVE  OneCharacter("UTF16", UTF16Units(cp), cp)
<1>. DEFINE h == UTF16Units(cp)
            Word == Units("UTF16")
<1>1. cp \in Nat /\ cp <= 1114111 /\ cp \in Int
  BY CodeSpaceIs
<1>2. HeadOf("UTF16", h) = Head16(h)
  BY DEF HeadOf
<1>3. \A x \in Nat : x < 65536 => x \in Word
  BY DEF Units
<1>. HIDE DEF Word
<1>4. CASE cp <= 65535
  <2>1. h = <<cp>>
    BY <1>4 DEF UTF16Units
  <2>2. cp \in Word
    BY <1>1, <1>3, <1>4
  <2>3. h \in Seq(Word) /\ Len(h) = 1 /\ h[1] = cp /\ h # <<>>
    BY <2>1, <2>2
  <2>. HIDE DEF h
  <2>4. Head16(h) = <<1, cp>>
    BY <2>3 DEF Head16
  <2>5. ~IsHigh(cp)
    BY DEF IsSurrogate
  <2>6. Closed("UTF16", h)
    BY <2>3, <2>5 DEF Closed
  <2>7. OneCharacter("UTF16", h, cp)
    BY <1>1, <1>2, <2>3, <2>4, <2>6 DEF OneCharacter, Word
  <2>. QED
    BY <2>7 DEF h
<1>5. CASE cp > 65535
  <2>. DEFINE a == (cp - 65536) \div 1024 + 55296
              b == ((cp - 65536) % 1024) + 56320
  <2>1. h = <<a, b>>
    BY <1>1, <1>5 DEF UTF16Units
  <2>2. a \in Nat /\ a >= 55296 /\ a <= 56319 /\ b \in Nat /\ b >= 56320 /\ b <= 57343
    BY <1>1, <1>5
  <2>3. (a - 55296) * 1024 + (b - 56320) + 65536 = cp
    BY <1>1, <1>5
  <2>. HIDE DEF a, b
  <2>4. a % 1024 = a - 55296 /\ b % 1024 = b - 56320
    BY <2>2
  <2>5. a \in Word /\ b \in Word
    BY <1>3, <2>2
  <2>6. h \in Seq(Word) /\ Len(h) = 2 /\ h[1] = a /\ h[2] = b /\ h # <<>>
    BY <2>1, <2>5
  <2>. HIDE DEF h
  <2>7. IsHigh(a) /\ IsLow(b) /\ ~IsHigh(b)
    BY <2>2, Surrogates
  <2>8. Head16(h) = <<2, 65536 + (a % 1024) * 1024 + (b % 1024)>>
    BY <2>6, <2>7 DEF Head16
  <2>9. 65536 + (a % 1024) * 1024 + (b % 1024) = cp
    BY <2>2, <2>3, <2>4
  <2>10. Head16(h) = <<Len(h), cp>>
    BY <2>6, <2>8, <2>9
  <2>11. Closed("UTF16", h)
    BY <2>6, <2>7 DEF Closed
  <2>12. OneCharacter("UTF16", h, cp)
    BY <1>1, <1>2, <2>6, <2>10, <2>11 DEF OneCharacter, Word
  <2>. QED
    BY <2>12 DEF h
<1>. QED
  BY <1>1, <1>4, <1>5

LEMMA InUTF32 ==
  ASSUME NEW cp \in Nat
  PROVE  OneCharacter("UTF32", <<cp>>, cp)
<1>. DEFINE h == <<cp>>
<1>1. cp \in Units("UTF32")
  BY DEF Units
<1>2. h \in Seq(Units("UTF32")) /\ Len(h) = 1 /\ h[1] = cp /\ h # <<>> /\ cp \in Int
  BY <1>1
<1>. HIDE DEF h
<1>3. HeadOf("UTF32", h) = <<1, cp>>
  BY <1>2 DEF HeadOf
<1>4. Closed("UTF32", h)
  BY DEF Closed
<1>5. OneCharacter("UTF32", h, cp)
  BY <1>2, <1>3, <1>4 DEF OneCharacter
<1>. QED
  BY <1>5 DEF h

-----------------------------------------------------------------------------
(* What isLegalUTF8 lets pass *)

LEMMA TrailingIs ==
  ASSUME NEW b \in Bytes
  PROVE  /\ trailingBytesForUTF8(b) \in 0..5
         /\ b < 240 => trailingBytesForUTF8(b) + 1 = Need(b)
         /\ b < 248 => trailingBytesForUTF8(b) + 1 = Need(b)
         /\ b < 192 <=> trailingBytesForUTF8(b) = 0
         /\ (b >= 192 /\ b < 224) <=> trailingBytesForUTF8(b) = 1
         /\ (b >= 224 /\ b < 240) <=> trailingBytesForUTF8(b) = 2
         /\ (b >= 240 /\ b < 248) <=> trailingBytesForUTF8(b) = 3
<1>1. b \in Int
  BY ByteIs
<1>. QED
  BY <1>1 DEF trailingBytesForUTF8, Need

\* n bytes that isLegalUTF8 lets pass, and their code point
Passed(r, n) ==
  n \in 1..4 /\ n <= Len(r) /\ n = trailingBytesForUTF8(r[1]) + 1 /\ isLegalUTF8(r, n)
Passes(r, n) == Shifted(r, n) - offsetsFromUTF8[n]

\* the same in numbers
LegalBytes(a, b, n) ==
  /\ n = 1 => a < 128
  /\ n = 2 => a >= 194 /\ a < 224
  /\ n = 3 => a >= 224 /\ a < 240
  /\ n = 4 => a >= 240 /\ a <= 244
  /\ n > 1 =>
       /\ b <= 191
       /\ a # 237 /\ a # 244 => b >= 128
       /\ a = 224 => b >= 160
       /\ a = 237 => b <= 159
       /\ a = 240 => b >= 144
       /\ a = 244 => b <= 143

LEMMA PassedBytes ==
  ASSUME NEW r \in Seq(Bytes), NEW n, Passed(r, n)
  PROVE  LegalBytes(r[1], r[2], n) /\ \A i \in 3..n : r[i] \in 128..191
<1>. DEFINE a == r[1]
            b == r[2]
<1>1. n \in 1..4 /\ n <= Len(r) /\ Len(r) \in Nat /\ n = trailingBytesForUTF8(a) + 1
  BY DEF Passed
<1>2. a \in Bytes /\ a \in Int
  BY <1>1, ByteAt
<1>3. n > 1 => b \in Int
  BY <1>1, ByteAt
<1>4. isLegalUTF8(r, n)
  BY DEF Passed
<1>5. \A i \in 3..n : r[i] \in 128..191
  BY <1>4 DEF isLegalUTF8
<1>6. n > 1 =>
       /\ b <= 191
       /\ IF a = 224 THEN b >= 160 ELSE IF a = 237 THEN b <= 159
          ELSE IF a = 240 THEN b >= 144 ELSE IF a = 244 THEN b <= 143
          ELSE b >= 128
  BY <1>4 DEF isLegalUTF8
<1>7. a \notin 128..193 /\ a <= 244
  BY <1>4 DEF isLegalUTF8
<1>. HIDE DEF a, b
<1>8. a < 128 \/ a >= 194
  BY <1>2, <1>7
<1>9. /\ a < 192 <=> n = 1
      /\ (a >= 192 /\ a < 224) <=> n = 2
      /\ (a >= 224 /\ a < 240) <=> n = 3
      /\ (a >= 240 /\ a < 248) <=> n = 4
  BY <1>1, <1>2, TrailingIs
<1>10. LegalBytes(a, b, n)
  BY <1>1, <1>2, <1>3, <1>6, <1>7, <1>8, <1>9 DEF LegalBytes
<1>. QED
  BY <1>5, <1>10 DEF a, b

LEMMA PassedValue ==
  ASSUME NEW r \in Seq(Bytes), NEW n, Passed(r, n)
  PROVE  /\ Passes(r, n) \in CodeSpace /\ ~IsSurrogate(Passes(r, n))
         /\ Passes(r, n) = Plain(r)[n]
         /\ (n > 1 => r[2] >= 128) => Passes(r, n) >= <<0, 128, 2048, 65536>>[n]
<1>. DEFINE a == r[1]
            b == r[2]
            c == r[3]
            d == r[4]
            v == Passes(r, n)
<1>1. n \in 1..4 /\ n <= Len(r) /\ Len(r) \in Nat
  BY DEF Passed
<1>2. \A i \in 1..n : r[i] \in Int /\ r[i] >= 0
  BY <1>1, ByteAt
<1>3. LegalBytes(a, b, n)
  BY PassedBytes
<1>4. \A i \in 3..n : r[i] \in 128..191
  BY PassedBytes
<1>5. Shifted(r, n) = Sums(r)[n]
  BY <1>1, <1>2, ShiftedSums
<1>6. v = Sums(r)[n] - offsetsFromUTF8[n]
  BY <1>5 DEF Passes
<1>. HIDE DEF v
<1>7. v \in Nat /\ v <= 1114111 => v \in CodeSpace
  BY DEF CodeSpace, IsHuge
<1>8. v \in Nat /\ (v < 55296 \/ v > 57343) => ~IsSurrogate(v)
  BY Surrogates DEF IsSurrogate
<1>9. CASE n = 1
  <2>1. a \in Nat /\ a < 128
    BY <1>2, <1>3, <1>9 DEF LegalBytes
  <2>2. v = a /\ Plain(r)[1] = a
    BY <1>6, <1>9, <2>1 DEF Sums, Plain, offsetsFromUTF8
  <2>. HIDE DEF a, b, c, d
  <2>. QED
    BY <1>7, <1>8, <1>9, <2>1, <2>2 DEF v
<1>10. CASE n = 2
  <2>1. a \in Nat /\ b \in Nat /\ a >= 194 /\ a < 224 /\ b >= 128 /\ b <= 191
    BY <1>2, <1>3, <1>10 DEF LegalBytes
  <2>2. v = (a * 64 + b) - 12416 /\ Plain(r)[2] = (a - 192) * 64 + (b - 128)
    BY <1>6, <1>10, <2>1 DEF Sums, Plain, offsetsFromUTF8
  <2>. HIDE DEF a, b, c, d
  <2>3. v \in Nat /\ v = Plain(r)[2] /\ v >= 128 /\ v < 55296
    BY <2>1, <2>2
  <2>. QED
    BY <1>7, <1>8, <1>10, <2>3 DEF v
<1>11. CASE n = 3
  <2>1. a \in Nat /\ b \in Nat /\ c \in Nat
    BY <1>2, <1>11
  <2>2. c >= 128 /\ c <= 191
    <3>1. 3 \in 3..n
      BY <1>11
    <3>2. c \in 128..191
      BY <1>4, <3>1
    <3>. HIDE DEF c
    <3>. QED
      BY <3>2
  <2>3. /\ a >= 224 /\ a < 240 /\ b <= 191
        /\ a # 237 => b >= 128
        /\ a = 224 => b >= 160
        /\ a = 237 => b <= 159
    BY <1>3, <1>11, <2>1 DEF LegalBytes
  <2>4. v = ((a * 64 + b) * 64 + c) - 925824
    BY <1>6, <1>11, <2>1 DEF Sums, offsetsFromUTF8
  <2>5. Plain(r)[3] = ((a - 224) * 64 + (b - 128)) * 64 + (c - 128)
    BY DEF Plain
  <2>. HIDE DEF a, b, c, d
  <2>6. v \in Nat /\ v = Plain(r)[3] /\ (v < 55296 \/ v > 57343) /\ v <= 1114111
    BY <2>1, <2>2, <2>3, <2>4, <2>5
  <2>7. b >= 128 => v >= 2048
    BY <2>1, <2>2, <2>3, <2>4
  <2>. QED
    BY <1>7, <1>8, <1>11, <2>6, <2>7 DEF v, b
<1>12. CASE n = 4
  <2>1. a \in Nat /\ b \in Nat /\ c \in Nat /\ d \in Nat
    BY <1>2, <1>12
  <2>2. c >= 128 /\ c <= 191 /\ d >= 128 /\ d <= 191
    <3>1. 3 \in 3..n /\ 4 \in 3..n
      BY <1>12
    <3>2. c \in 128..191 /\ d \in 128..191
      BY <1>4, <3>1
    <3>. HIDE DEF c, d
    <3>. QED
      BY <3>2
  <2>3. /\ a >= 240 /\ a <= 244 /\ b <= 191
        /\ a # 244 => b >= 128
        /\ a = 240 => b >= 144
        /\ a = 244 => b <= 143
    BY <1>3, <1>12, <2>1 DEF LegalBytes
  <2>4. v = (((a * 64 + b) * 64 + c) * 64 + d) - 63447168
    BY <1>6, <1>12, <2>1 DEF Sums, offsetsFromUTF8
  <2>5. Plain(r)[4] = (((a - 240) * 64 + (b - 128)) * 64 + (c - 128)) * 64 + (d - 128)
    BY DEF Plain
  <2>. HIDE DEF a, b, c, d
  <2>6. v \in Nat /\ v = Plain(r)[4] /\ v > 57343 /\ v <= 1114111 /\ v >= 65536
    BY <2>1, <2>2, <2>3, <2>4, <2>5
  <2>. QED
    BY <1>7, <1>8, <1>12, <2>6 DEF v
<1>. QED
  BY <1>1, <1>9, <1>10, <1>11, <1>12

\* ED or F4 before a byte that continues nothing
Unseen(r, n) == n > 1 /\ r[1] \in {237, 244} /\ r[2] < 128

\* but for that, what passes is one character
LEMMA PassedRead ==
  ASSUME NEW r \in Seq(Bytes), NEW n, Passed(r, n), ~Unseen(r, n),
         NEW t \in Seq(Bytes), Len(t) = n, \A i \in 1..n : t[i] = r[i]
  PROVE  OneCharacter8(t, Passes(r, n))
<1>. DEFINE a == r[1]
            b == r[2]
            v == Passes(r, n)
<1>1. n \in 1..4 /\ n <= Len(r) /\ Len(r) \in Nat
  BY DEF Passed
<1>2. \A i \in 1..n : r[i] \in Int /\ r[i] >= 0
  BY <1>1, ByteAt
<1>3. LegalBytes(a, b, n) /\ \A i \in 3..n : r[i] \in 128..191
  BY PassedBytes
<1>4. n > 1 => b >= 128 /\ b <= 191 /\ b \in Int
  BY <1>1, <1>2, <1>3 DEF LegalBytes, Unseen
<1>5. v \in CodeSpace /\ v = Plain(r)[n] /\ v >= <<0, 128, 2048, 65536>>[n]
  BY <1>4, PassedValue
<1>6. Leads(a, n)
  <2>1. a \in Int /\ a >= 0
    BY <1>1, <1>2
  <2>. HIDE DEF a, b, v
  <2>. QED
    BY <1>1, <1>3, <2>1 DEF LegalBytes, Leads
<1>7. ASSUME NEW i \in 2..n PROVE r[i] \in 128..191
  <2>1. CASE i = 2
    <3>1. n > 1
      BY <1>1, <2>1
    <3>2. b >= 128 /\ b <= 191 /\ b \in Int
      BY <1>4, <3>1
    <3>. HIDE DEF b
    <3>3. b \in 128..191
      BY <3>2
    <3>. QED
      BY <2>1, <3>3 DEF b
  <2>2. CASE i # 2
    BY <1>1, <1>3, <2>2
  <2>. QED
    BY <2>1, <2>2
<1>. HIDE DEF v
<1>8. Marked(t, n)
  <2>1. t[1] = a
    BY <1>1
  <2>2. \A i \in 2..n : t[i] = r[i]
    BY <1>1
  <2>. QED
    BY <1>6, <1>7, <2>1, <2>2 DEF Marked
<1>9. Plain(t)[n] = Plain(r)[n]
  <2>1. CASE n = 1
    BY <2>1 DEF Plain
  <2>2. CASE n = 2
    BY <2>2 DEF Plain
  <2>3. CASE n = 3
    BY <2>3 DEF Plain
  <2>4. CASE n = 4
    <3>1. t[1] = r[1] /\ t[2] = r[2] /\ t[3] = r[3] /\ t[4] = r[4]
      BY <2>4
    <3>. QED
      BY <2>4, <3>1 DEF Plain
  <2>. QED
    BY <1>1, <2>1, <2>2, <2>3, <2>4
<1>10. OneCharacter8(t, v)
  <2>1. Plain(t)[n] = v
    BY <1>5, <1>9
  <2>2. Len(t) = n /\ Marked(t, n) /\ v \in CodeSpace
    BY <1>5, <1>8
  <2>3. v >= <<0, 128, 2048, 65536>>[n]
    BY <1>5
  <2>4. CASE n = 1
    BY <2>1, <2>2, <2>3, <2>4, OneCharacter8Is
  <2>5. CASE n = 2
    BY <2>1, <2>2, <2>3, <2>5, OneCharacter8Is
  <2>6. CASE n = 3
    BY <2>1, <2>2, <2>3, <2>6, OneCharacter8Is
  <2>7. CASE n = 4
    BY <2>1, <2>2, <2>3, <2>7, OneCharacter8Is
  <2>. QED
    BY <1>1, <2>4, <2>5, <2>6, <2>7
<1>. QED
  BY <1>10 DEF v

\* what begins with a character of Unicode passes
LEMMA ScalarPasses ==
  ASSUME NEW r \in Seq(Bytes), r # <<>>, IsScalar(Head8(r)[2])
  PROVE  Passed(r, trailingBytesForUTF8(r[1]) + 1)
<1>. DEFINE a == r[1]
            b == r[2]
            c == r[3]
            d == r[4]
            n == Need(a)
            v == Plain(r)[n]
<1>1. Len(r) \in Nat /\ 1 \in 1..Len(r)
  OBVIOUS
<1>2. a \in Bytes /\ a \in Int /\ n \in 1..4
  BY <1>1, ByteAt, NeedType
<1>3. Fits8(r, n)
  <2>1. Malformed \notin CodeSpace
    BY DEF Malformed, CodeSpace
  <2>2. ~IsScalar(Malformed)
    BY <2>1 DEF IsScalar
  <2>. QED
    BY <2>2, Head8Is
<1>4. /\ n <= Len(r) /\ Marked(r, n) /\ v \in CodeSpace
      /\ v >= <<0, 128, 2048, 65536>>[n]
  <2>. HIDE DEF n
  <2>. QED
    BY <1>2, <1>3, Fits8Is
<1>5. Head8(r)[2] = v
  <2>1. Head8(r) = <<n, Value8(r, n)>>
    BY <1>3, Head8Is
  <2>. HIDE DEF n
  <2>2. Value8(r, n) = v
    BY <1>2, <1>4, Value8Is
  <2>. QED
    BY <2>1, <2>2
<1>6. v \in Nat /\ v <= 1114111 /\ (v < 55296 \/ v > 57343)
  <2>. HIDE DEF v
  <2>1. v \in Nat /\ v <= 1114111
    BY <1>4, CodeSpaceIs
  <2>. QED
    BY <1>5, <2>1, Surrogates DEF IsScalar, IsSurrogate
<1>7. Leads(a, n) /\ \A i \in 2..n : r[i] \in 128..191
  BY <1>4 DEF Marked
<1>8. trailingBytesForUTF8(a) + 1 = n
  <2>. HIDE DEF n, a
  <2>1. a < 248
    BY <1>2, <1>7 DEF Leads
  <2>. QED
    BY <1>2, <2>1, TrailingIs DEF n
<1>. HIDE DEF v, n
<1>9. \A i \in 3..n : r[i] \in 128..191
  BY <1>7
<1>10. CASE n = 1
  <2>1. a \in 0..127
    BY <1>7, <1>10 DEF Leads
  <2>. HIDE DEF a, b, c, d
  <2>2. a \notin 128..193 /\ a <= 244
    BY <2>1
  <2>3. isLegalUTF8(r, n)
    BY <1>9, <1>10, <2>2 DEF isLegalUTF8, a
  <2>. QED
    BY <1>2, <1>4, <1>8, <2>3 DEF Passed, a
<1>11. CASE n = 2
  <2>1. a \in 192..223
    BY <1>7, <1>11 DEF Leads
  <2>2. b \in 128..191
    BY <1>7, <1>11
  <2>3. v = (a - 192) * 64 + (b - 128) /\ v >= 128
    BY <1>4, <1>11 DEF v, Plain
  <2>. HIDE DEF a, b, c, d
  <2>4. a >= 194
    BY <2>1, <2>2, <2>3
  <2>5. a \notin 128..193 /\ a <= 244 /\ b <= 191 /\ b >= 128
    BY <2>1, <2>2, <2>4
  <2>6. a # 224 /\ a # 237 /\ a # 240 /\ a # 244
    BY <2>1
  <2>7. isLegalUTF8(r, n)
    BY <1>9, <1>11, <2>5, <2>6 DEF isLegalUTF8, a, b
  <2>. QED
    BY <1>2, <1>4, <1>8, <2>7 DEF Passed, a
<1>12. CASE n = 3
  <2>1. a \in 224..239
    BY <1>7, <1>12 DEF Leads
  <2>2. b \in 128..191
    BY <1>7, <1>12
  <2>3. c \in 128..191
    BY <1>7, <1>12
  <2>4. v = ((a - 224) * 64 + (b - 128)) * 64 + (c - 128) /\ v >= 2048
    BY <1>4, <1>12 DEF v, Plain
  <2>. HIDE DEF a, b, c, d
  <2>5. a = 224 => b >= 160
    BY <2>1, <2>2, <2>3, <2>4
  <2>6. a = 237 => b <= 159
    BY <1>6, <2>1, <2>2, <2>3, <2>4
  <2>7. a \notin 128..193 /\ a <= 244 /\ b <= 191 /\ b >= 128
    BY <2>1, <2>2
  <2>8. a # 240 /\ a # 244
    BY <2>1
  <2>9. isLegalUTF8(r, n)
    BY <1>9, <1>12, <2>5, <2>6, <2>7, <2>8 DEF isLegalUTF8, a, b
  <2>. QED
    BY <1>2, <1>4, <1>8, <2>9 DEF Passed, a
<1>13. CASE n = 4
  <2>1. a \in 240..247
    BY <1>7, <1>13 DEF Leads
  <2>2. b \in 128..191
    BY <1>7, <1>13
  <2>3. c \in 128..191 /\ d \in 128..191
    BY <1>7, <1>13
  <2>4. /\ v = (((a - 240) * 64 + (b - 128)) * 64 + (c - 128)) * 64 + (d - 128)
        /\ v >= 65536
    BY <1>4, <1>13 DEF v, Plain
  <2>. HIDE DEF a, b, c, d
  <2>5. a = 240 => b >= 144
    BY <2>1, <2>2, <2>3, <2>4
  <2>6. a = 244 => b <= 143
    BY <1>6, <2>1, <2>2, <2>3, <2>4
  <2>7. a \notin 128..193 /\ a <= 244 /\ b <= 191 /\ b >= 128
    BY <1>6, <2>1, <2>2, <2>3, <2>4
  <2>8. a # 224 /\ a # 237
    BY <2>1
  <2>9. isLegalUTF8(r, n)
    BY <1>9, <1>13, <2>5, <2>6, <2>7, <2>8 DEF isLegalUTF8, a, b
  <2>. QED
    BY <1>2, <1>4, <1>8, <2>9 DEF Passed, a
<1>. QED
  BY <1>2, <1>10, <1>11, <1>12, <1>13

-----------------------------------------------------------------------------
(* The inductive invariant *)

\* the text consumed, and the next n units
Prefix == SubSeq(src.units, 1, source)
Taken(n) == SubSeq(src.units, source + 1, source + n)

\* no character begun in the target goes on in what is written next
TargetOK == Closed(to, out \o written)

\* nor one of the text behind what was consumed, and the target holds the
\* characters consumed
SourceOK ==
  ~PassesUnseen =>
    /\ Rest # <<>> => Joins(src.form, Prefix, Rest)
    /\ Characters(src.form, Prefix) = Characters(to, out \o written)

\* the strict flag lets nothing pass
StrictOK == Strict /\ ~PassesUnseen => SoundButHuge(src.form, Prefix)

\* what result says of the rest of the text
ResultOK ==
  /\ running => \/ result = "conversionOK"
                \/ result = "sourceIllegal" /\ PassedHuge
  /\ ~running /\ result = "conversionOK" => Rest = <<>>
  /\ ~running /\ result = "sourceExhausted" =>
       Rest # <<>> /\ ~IsScalar(HeadOf(src.form, Rest)[2])
  /\ ~running /\ result = "sourceIllegal" /\ ~PassedHuge =>
       Rest # <<>> /\ ~IsScalar(HeadOf(src.form, Rest)[2])

ConvertInv == ConvertTypeOK /\ TargetOK /\ SourceOK /\ StrictOK /\ ResultOK

LEMMA RestIs ==
  ASSUME ConvertTypeOK
  PROVE  /\ src.form \in Forms /\ src.units \in Seq(Units(src.form)) /\ source \in Nat
         /\ Prefix \in Seq(Units(src.form)) /\ Len(Prefix) = source
         /\ Rest \in Seq(Units(src.form)) /\ Len(Rest) = Len(src.units) - source
         /\ \A i \in 1..Len(Rest) : Rest[i] = src.units[source + i]
<1>. DEFINE S == Units(src.form)
            u == src.units
            n == Len(u)
<1>1. src.form \in Forms /\ u \in Seq(S) /\ source \in 0..n
  BY DEF ConvertTypeOK
<1>. HIDE DEF S, u
<1>2. n \in Nat /\ source \in Nat /\ source <= n /\ source \in Int /\ source + 1 \in Int
  BY <1>1
<1>3. \A i \in 1..n : u[i] \in S
  BY <1>1, ElementOfSeq
<1>4. \A i \in 1..source : i \in 1..n
  BY <1>2
<1>5. \A i \in source + 1..n : i \in 1..n
  BY <1>2
<1>6. /\ SubSeq(u, 1, source) \in Seq(S)
      /\ Len(SubSeq(u, 1, source)) = IF 1 <= source THEN source - 1 + 1 ELSE 0
  BY <1>2, <1>3, <1>4, SubSeqProperties
<1>. HIDE DEF n
<1>7. /\ SubSeq(u, source + 1, n) \in Seq(S)
      /\ Len(SubSeq(u, source + 1, n)) = IF source + 1 <= n THEN n - (source + 1) + 1 ELSE 0
      /\ \A i \in 1..n - (source + 1) + 1 : SubSeq(u, source + 1, n)[i] = u[source + 1 + i - 1]
  BY <1>2, <1>3, <1>5, SubSeqProperties
<1>8. Prefix \in Seq(S) /\ Len(Prefix) = source
  BY <1>2, <1>6 DEF Prefix, u
<1>9. Rest = SubSeq(u, source + 1, n)
  BY DEF Rest, u, n
<1>10. Rest \in Seq(S) /\ Len(Rest) = n - source
  BY <1>2, <1>7, <1>9
<1>11. ASSUME NEW i \in 1..Len(Rest) PROVE Rest[i] = u[source + i]
  <2>1. i \in 1..n - (source + 1) + 1 /\ source + 1 + i - 1 = source + i
    BY <1>2, <1>10
  <2>. QED
    BY <1>7, <1>9, <2>1
<1>. QED
  BY <1>1, <1>2, <1>8, <1>10, <1>11 DEF S, u, n

LEMMA TakenIs ==
  ASSUME ConvertTypeOK, NEW n \in 1..Len(Rest)
  PROVE  /\ Taken(n) \in Seq(Units(src.form)) /\ Len(Taken(n)) = n /\ Taken(n) # <<>>
         /\ \A i \in 1..n : Taken(n)[i] = Rest[i]
         /\ SubSeq(src.units, 1, source + n) = Prefix \o Taken(n)
         /\ source + n \in 0..Len(src.units)
<1>. DEFINE S == Units(src.form)
            u == src.units
            w == SubSeq(u, source + 1, source + n)
<1>1. u \in Seq(S) /\ source \in Nat /\ Len(Rest) = Len(u) - source
  BY RestIs
<1>. HIDE DEF S, u
<1>2. \A i \in 1..Len(Rest) : Rest[i] = u[source + i]
  BY RestIs DEF u
<1>3. Len(u) \in Nat /\ n \in Nat /\ source + n <= Len(u) /\ 1 <= n
  BY <1>1
<1>4. \A i \in source + 1..source + n : u[i] \in S
  <2>1. \A i \in source + 1..source + n : i \in 1..Len(u)
    BY <1>1, <1>3
  <2>. QED
    BY <1>1, <2>1, ElementOfSeq
<1>5. w \in Seq(S) /\ Len(w) = n /\ \A i \in 1..n : w[i] = u[source + i]
  <2>. DEFINE j == source + 1
              k == source + n
  <2>1. j \in Int /\ k \in Int /\ \A i \in j..k : u[i] \in S
    BY <1>1, <1>3, <1>4
  <2>. HIDE DEF j, k
  <2>2. /\ SubSeq(u, j, k) \in Seq(S)
        /\ Len(SubSeq(u, j, k)) = IF j <= k THEN k - j + 1 ELSE 0
        /\ \A i \in 1..k - j + 1 : SubSeq(u, j, k)[i] = u[j + i - 1]
    BY <2>1, SubSeqProperties
  <2>3. w = SubSeq(u, j, k)
    BY DEF j, k
  <2>. HIDE DEF w
  <2>4. /\ w \in Seq(S)
        /\ Len(w) = IF j <= k THEN k - j + 1 ELSE 0
        /\ \A i \in 1..k - j + 1 : w[i] = u[j + i - 1]
    BY <2>2, <2>3
  <2>5. j <= k /\ k - j + 1 = n
    BY <1>1, <1>3 DEF j, k
  <2>6. Len(w) = n
    BY <2>4, <2>5
  <2>7. ASSUME NEW i \in 1..n PROVE w[i] = u[source + i]
    <3>1. i \in 1..k - j + 1 /\ j + i - 1 = source + i
      BY <1>1, <1>3, <2>5 DEF j
    <3>. QED
      BY <2>4, <3>1
  <2>. QED
    BY <2>4, <2>6, <2>7
<1>. HIDE DEF w
<1>6. Len(w) = n
  BY <1>5
<1>7. w # <<>>
  BY <1>3, <1>5, <1>6, EmptySeq
<1>8. ASSUME NEW i \in 1..n PROVE w[i] = Rest[i]
  <2>1. i \in 1..Len(Rest)
    BY <1>1, <1>3
  <2>. QED
    BY <1>2, <1>5, <2>1
<1>9. SubSeq(u, 1, source) \o SubSeq(u, source + 1, source + n) = SubSeq(u, 1, source + n)
  <2>1. /\ 1 \in 1..Len(u) + 1 /\ source \in 1 - 1..Len(u) /\ source + n \in source..Len(u)
    BY <1>1, <1>3
  <2>. QED
    BY <1>1, <2>1, ConcatAdjacentSubSeq
<1>10. Taken(n) = w /\ Prefix = SubSeq(u, 1, source)
  BY DEF Taken, Prefix, w, u
<1>11. source + n \in 0..Len(u)
  BY <1>1, <1>3
<1>12. SubSeq(u, 1, source + n) = Prefix \o w
  BY <1>9, <1>10 DEF w
<1>. QED
  BY <1>5, <1>6, <1>7, <1>8, <1>10, <1>11, <1>12 DEF S, u

LEMMA JoinsConcat ==
  ASSUME NEW form \in Forms, NEW u \in Seq(Units(form)), NEW h \in Seq(Units(form)), h # <<>>,
         NEW v, NEW g, Joins(form, u, v), Joins(form, h, g)
  PROVE  Joins(form, u \o h, g)
<1>1. CASE form = "UTF8"
  <2>1. u \in Seq(Bytes) /\ h \in Seq(Bytes)
    BY <1>1, UnitsAre
  <2>2. /\ \A i \in 1..Len(u) : i + Need(u[i]) - 1 <= Len(u)
        /\ \A i \in 1..Len(h) : i + Need(h[i]) - 1 <= Len(h)
    BY <1>1 DEF Joins
  <2>3. \A i \in 1..Len(u \o h) : i + Need((u \o h)[i]) - 1 <= Len(u \o h)
    BY <2>1, <2>2, WholeConcat
  <2>. QED
    BY <1>1, <2>3 DEF Joins
<1>2. CASE form = "UTF16"
  <2>1. /\ Len(u \o h) = Len(u) + Len(h)
        /\ \A i \in 1..Len(h) : (u \o h)[Len(u) + i] = h[i]
    BY ConcatIs
  <2>2. Len(h) \in Nat /\ Len(h) > 0
    OBVIOUS
  <2>3. Len(h) \in 1..Len(h)
    BY <2>2
  <2>4. (u \o h)[Len(u \o h)] = h[Len(h)]
    BY <2>1, <2>3
  <2>. QED
    BY <1>2, <2>2, <2>4 DEF Joins
<1>3. CASE form = "UTF32"
  BY <1>3 DEF Joins
<1>. QED
  BY <1>1, <1>2, <1>3 DEF Forms

-----------------------------------------------------------------------------
(* A step that writes *)

\* n units of the text, the code point cp, are consumed
Consumes(n, cp) ==
  /\ running /\ n \in 1..Len(Rest) /\ cp \in Int
  /\ ~PassesUnseen => /\ HeadOf(src.form, Taken(n)) = <<n, cp>>
                      /\ n < Len(Rest) => Joins(src.form, Taken(n), <<Rest[n + 1]>>)
  /\ Strict /\ ~PassesUnseen => IsScalar(cp) \/ IsHuge(cp)
  /\ source' = source + n
  /\ UNCHANGED <<textVars, room, out, running>>

\* h is written for the code point cp, or for what stands for it
Produces(h, cp) ==
  /\ written' = written \o h
  /\ \/ h = <<>> /\ cp \notin Kept
     \/ \E c : /\ OneCharacter(to, h, c)
               /\ \/ c = cp
                  \/ c \notin Kept /\ cp \notin Kept

LEMMA OutIs ==
  ASSUME ConvertTypeOK
  PROVE  /\ to \in Forms /\ out \in Seq(Units(to)) /\ written \in Seq(Units(to))
         /\ out \o written \in Seq(Units(to))
<1>1. to \in Forms /\ out \in Seq(Units(to)) /\ written \in Seq(Units(to))
  BY DEF ConvertTypeOK
<1>2. out \o written \in Seq(Units(to))
  BY <1>1, ConcatIs
<1>. QED
  BY <1>1, <1>2

\* the units h are the code point cp
Begins(form, h, cp) ==
  /\ h \in Seq(Units(form)) /\ h # <<>> /\ cp \in Int
  /\ HeadOf(form, h) = <<Len(h), cp>>

LEMMA DecodedAppend ==
  ASSUME NEW form \in Forms, NEW u \in Seq(Units(form)), NEW h, NEW cp, NEW kept,
         Begins(form, h, cp), Joins(form, u, h)
  PROVE  Decoded(form, u \o h, kept) = Decoded(form, u, kept) \o Kp(cp, kept)
<1>1. /\ h \in Seq(Units(form)) /\ h # <<>> /\ cp \in Int
      /\ HeadOf(form, h) = <<Len(h), cp>>
  BY DEF Begins
<1>. QED
  BY <1>1, DecodedSnoc

LEMMA CharactersAppend ==
  ASSUME NEW form \in Forms, NEW u \in Seq(Units(form)), NEW h, NEW c,
         Begins(form, h, c), Joins(form, u, h)
  PROVE  Decoded(form, u \o h, Kept) = Decoded(form, u, Kept) \o Kp(c, Kept)
BY DecodedAppend

LEMMA SeqConcatAssociative ==
  ASSUME NEW S, NEW a \in Seq(S), NEW b \in Seq(S), NEW c \in Seq(S)
  PROVE  a \o (b \o c) = (a \o b) \o c
BY ConcatAssociative

LEMMA ProducesTarget ==
  ASSUME ConvertTypeOK, TargetOK, NEW h, NEW cp \in Int, Produces(h, cp),
         out' = out, to' = to
  PROVE  /\ written' \in Seq(Units(to))
         /\ TargetOK'
         /\ Characters(to, out \o written') = Characters(to, out \o written) \o Kp(cp, Kept)
<1>. DEFINE o == out \o written
            S == Units(to)
<1>1. to \in Forms /\ out \in Seq(S) /\ written \in Seq(S) /\ o \in Seq(S)
  BY OutIs
<1>2. Closed(to, o)
  BY DEF TargetOK
<1>3. Characters(to, o) \in Seq(Int)
  BY <1>1, DecodedType DEF Characters
<1>. HIDE DEF S, o
<1>4. CASE h = <<>> /\ cp \notin Kept
  <2>1. written' = written
    <3>1. written' = written \o <<>>
      BY <1>4 DEF Produces
    <3>. QED
      BY <1>1, <3>1, ConcatEmptySeq
  <2>2. Kp(cp, Kept) = <<>>
    BY <1>4 DEF Kp
  <2>3. Characters(to, o) \o Kp(cp, Kept) = Characters(to, o)
    BY <1>3, <2>2, ConcatEmptySeq
  <2>4. TargetOK'
    BY <1>2, <2>1 DEF TargetOK, o
  <2>. QED
    BY <1>1, <2>1, <2>3, <2>4 DEF S, o
<1>5. CASE ~(h = <<>> /\ cp \notin Kept)
  <2>1. PICK c : OneCharacter(to, h, c) /\ (c = cp \/ (c \notin Kept /\ cp \notin Kept))
    BY <1>5 DEF Produces
  <2>2. /\ h \in Seq(S) /\ h # <<>> /\ c \in Int /\ HeadOf(to, h) = <<Len(h), c>>
        /\ Closed(to, h)
    BY <2>1 DEF OneCharacter, S
  <2>3. written' = written \o h
    BY DEF Produces
  <2>4. written' \in Seq(S)
    BY <1>1, <2>2, <2>3, ConcatIs
  <2>5. out \o written' = o \o h
    <3>1. out \in Seq(S) /\ written \in Seq(S) /\ h \in Seq(S)
      BY <1>1, <2>2
    <3>2. out \o (written \o h) = (out \o written) \o h
      BY ONLY <3>1, SeqConcatAssociative
    <3>. QED
      BY <2>3, <3>2 DEF o
  <2>6. Closed(to, o \o h)
    BY <1>1, <1>2, <2>2, ClosedConcat DEF S
  <2>7. Joins(to, o, h)
    BY <1>2, ClosedJoins
  <2>8. Decoded(to, o \o h, Kept) = Decoded(to, o, Kept) \o Kp(c, Kept)
    <3>1. Begins(to, h, c)
      BY <2>2 DEF Begins, S
    <3>2. o \in Seq(Units(to))
      BY <1>1 DEF S
    <3>3. to \in Forms
      BY <1>1
    <3>4. Decoded(to, o \o h, Kept) = Decoded(to, o, Kept) \o Kp(c, Kept)
      BY <2>7, <3>1, <3>2, <3>3, CharactersAppend
    <3>. QED
      BY <3>4
  <2>9. Kp(c, Kept) = Kp(cp, Kept)
    BY <2>1 DEF Kp
  <2>10. TargetOK'
    BY <2>5, <2>6 DEF TargetOK
  <2>. QED
    BY <2>4, <2>5, <2>8, <2>9, <2>10 DEF Characters, S, o
<1>. QED
  BY <1>4, <1>5

LEMMA SameTextProperties ==
  ASSUME UNCHANGED textVars
  PROVE  /\ src' = src /\ to' = to /\ flags' = flags
         /\ PassesUnseen' = PassesUnseen /\ Strict' = Strict
         /\ source' = source => PassedHuge' = PassedHuge
<1>1. src' = src /\ to' = to /\ flags' = flags
  BY DEF textVars
<1>. QED
  BY <1>1 DEF PassesUnseen, PassedHuge, Strict

\* a code point passed stays behind
LEMMA PassedStays ==
  ASSUME ConvertTypeOK, NEW n \in Nat, src' = src, source' = source + n, PassedHuge
  PROVE  PassedHuge'
<1>1. source \in Nat
  BY RestIs
<1>2. \A i \in 1..source : i \in 1..source'
  BY <1>1
<1>. QED
  BY <1>2 DEF PassedHuge

LEMMA ConsumesSource ==
  ASSUME ConvertTypeOK, NEW n, NEW cp, Consumes(n, cp), ~PassesUnseen,
         Joins(src.form, Prefix, Rest), NEW kept
  PROVE  /\ Prefix' = Prefix \o Taken(n)
         /\ Decoded(src.form, Prefix', kept) = Decoded(src.form, Prefix, kept) \o Kp(cp, kept)
         /\ Rest' # <<>> => Joins(src.form, Prefix', Rest')
<1>. DEFINE S == Units(src.form)
            h == Taken(n)
<1>1. n \in 1..Len(Rest) /\ cp \in Int /\ source' = source + n
  BY DEF Consumes
<1>2. src' = src
  BY SameTextProperties DEF Consumes
<1>3. /\ h \in Seq(S) /\ Len(h) = n /\ h # <<>>
      /\ \A i \in 1..n : h[i] = Rest[i]
      /\ SubSeq(src.units, 1, source + n) = Prefix \o h
  BY <1>1, TakenIs
<1>4. HeadOf(src.form, h) = <<n, cp>>
  BY DEF Consumes
<1>5. n < Len(Rest) => Joins(src.form, h, <<Rest[n + 1]>>)
  BY DEF Consumes
<1>6. src.form \in Forms /\ Prefix \in Seq(S) /\ Len(Rest) = Len(src.units) - source
  BY RestIs
<1>7. source \in Nat /\ Len(src.units) \in Nat /\ n \in Nat /\ Len(Rest) \in Nat
  BY <1>1, RestIs
<1>. HIDE DEF h, S
<1>8. Prefix' = Prefix \o h
  <2>1. Prefix' = SubSeq(src.units, 1, source + n)
    BY <1>1, <1>2 DEF Prefix
  <2>. QED
    BY <1>3, <2>1
<1>9. Joins(src.form, Prefix, h)
  <2>1. h[1] = Rest[1]
    BY <1>1, <1>3
  <2>. QED
    BY <2>1 DEF Joins
<1>10. Decoded(src.form, Prefix \o h, kept) = Decoded(src.form, Prefix, kept) \o Kp(cp, kept)
  <2>1. Begins(src.form, h, cp)
    BY <1>1, <1>3, <1>4 DEF Begins, S
  <2>2. Prefix \in Seq(Units(src.form))
    BY <1>6 DEF S
  <2>. QED
    BY <1>6, <1>9, <2>1, <2>2, DecodedAppend
<1>11. ASSUME Rest' # <<>> PROVE Joins(src.form, Prefix', Rest')
  <2>1. Rest' = SubSeq(src.units, source + n + 1, Len(src.units))
    BY <1>1, <1>2 DEF Rest
  <2>. DEFINE u == src.units
              k == source + n + 1
              m == Len(u)
  <2>2. k \in Int /\ m \in Int
    BY <1>7
  <2>3. ~(m < k)
    <3>1. m < k => SubSeq(u, k, m) = <<>>
      <4>. HIDE DEF u, k, m
      <4>. QED
        BY <2>2, SubSeqEmpty
    <3>. QED
      BY <1>11, <2>1, <3>1
  <2>4. n < Len(Rest) /\ n + 1 \in 1..Len(Rest)
    BY <1>6, <1>7, <2>3
  <2>5. Rest'[1] = Rest[n + 1]
    <3>1. k \in 1..m /\ m \in k..m
      BY <1>7, <2>3
    <3>2. u \in Seq(S)
      BY RestIs DEF S
    <3>3. Rest[n + 1] = u[source + (n + 1)]
      BY <2>4, RestIs
    <3>4. source + (n + 1) = k
      BY <1>7
    <3>5. Rest' = From(u, k)
      BY <2>1 DEF From
    <3>. HIDE DEF k
    <3>6. \A i \in 1..m - k + 1 : From(u, k)[i] = u[k + i - 1]
      BY <3>1, <3>2, FromIs
    <3>7. 1 \in 1..m - k + 1 /\ k + 1 - 1 = k
      BY <2>2, <3>1
    <3>8. From(u, k)[1] = u[k]
      BY <3>6, <3>7
    <3>. QED
      BY <3>3, <3>4, <3>5, <3>8
  <2>6. Joins(src.form, h, <<Rest[n + 1]>>)
    BY <1>5, <2>4
  <2>7. Joins(src.form, h, Rest')
    BY <2>5, <2>6 DEF Joins
  <2>8. Joins(src.form, Prefix \o h, Rest')
    BY <1>3, <1>6, <1>9, <2>7, JoinsConcat DEF S
  <2>. QED
    BY <1>8, <2>8
<1>. QED
  BY <1>8, <1>10, <1>11 DEF h

Results == {"conversionOK", "sourceExhausted", "targetExhausted", "sourceIllegal"}

LEMMA TypeParts ==
  ConvertTypeOK <=>
    /\ src.form \in Forms /\ src.units \in Seq(Units(src.form))
    /\ to \in Forms \ {src.form} /\ flags \in ConversionFlags
    /\ source \in 0..Len(src.units) /\ room \in Rooms \cup {0} /\ running \in BOOLEAN
    /\ out \in Seq(Units(to)) /\ written \in Seq(Units(to)) /\ Len(written) <= room
    /\ result \in Results
BY DEF ConvertTypeOK, Results

LEMMA KeptNonempty ==
  ASSUME NEW n, NEW cp, ConvertTypeOK, Consumes(n, cp)
  PROVE  Rest # <<>>
<1>1. n \in 1..Len(Rest)
  BY DEF Consumes
<1>2. Len(<<>>) = 0
  OBVIOUS
<1>. QED
  BY <1>1, <1>2

\* each character arrives
LEMMA WriteInv ==
  ASSUME ConvertInv, NEW n, NEW cp, NEW h, Consumes(n, cp), Produces(h, cp),
         Len(written') <= room,
         \/ result' = result
         \/ result' = "sourceIllegal" /\ PassedHuge'
  PROVE  ConvertInv'
<1>1. ConvertTypeOK /\ TargetOK /\ SourceOK /\ StrictOK /\ ResultOK
  BY DEF ConvertInv
<1>2. /\ running /\ n \in 1..Len(Rest) /\ cp \in Int /\ source' = source + n
      /\ UNCHANGED textVars /\ room' = room /\ out' = out /\ running' = running
  BY DEF Consumes
<1>3. /\ src' = src /\ to' = to /\ flags' = flags
      /\ PassesUnseen' = PassesUnseen /\ Strict' = Strict
  BY <1>2, SameTextProperties
<1>4. /\ written' \in Seq(Units(to))
      /\ TargetOK'
      /\ Characters(to, out \o written') = Characters(to, out \o written) \o Kp(cp, Kept)
  BY <1>1, <1>2, <1>3, ProducesTarget
<1>5. running' /\ (result' = result \/ (result' = "sourceIllegal" /\ PassedHuge'))
  BY <1>2, <1>3
<1>6. ConvertTypeOK'
  <2>1. source' \in 0..Len(src.units)
    BY <1>1, <1>2, TakenIs
  <2>2. result' \in Results
    BY <1>1, TypeParts DEF Results
  <2>3. /\ src.form \in Forms /\ src.units \in Seq(Units(src.form))
        /\ to \in Forms \ {src.form} /\ flags \in ConversionFlags
        /\ room \in Rooms \cup {0} /\ running \in BOOLEAN
        /\ out \in Seq(Units(to))
    BY <1>1 DEF ConvertTypeOK
  <2>. QED
    BY <1>2, <1>3, <1>4, <2>1, <2>2, <2>3 DEF ConvertTypeOK, Results
<1>7. Rest # <<>>
  BY <1>1, KeptNonempty
<1>8. SourceOK'
  <2>. SUFFICES ASSUME ~PassesUnseen
                PROVE  /\ Rest' # <<>> => Joins(src.form, Prefix', Rest')
                       /\ Characters(src.form, Prefix') = Characters(to, out \o written')
    BY <1>2, <1>3 DEF SourceOK
  <2>1. Joins(src.form, Prefix, Rest) /\ Characters(src.form, Prefix) = Characters(to, out \o written)
    BY <1>1, <1>7 DEF SourceOK
  <2>2. Rest' # <<>> => Joins(src.form, Prefix', Rest')
    BY <1>1, <2>1, ConsumesSource
  <2>3. Decoded(src.form, Prefix', Kept) = Decoded(src.form, Prefix, Kept) \o Kp(cp, Kept)
    BY <1>1, <2>1, ConsumesSource
  <2>. QED
    BY <1>4, <2>1, <2>2, <2>3 DEF Characters
<1>9. StrictOK'
  <2>. SUFFICES ASSUME Strict, ~PassesUnseen PROVE SoundButHuge(src.form, Prefix')
    BY <1>3 DEF StrictOK
  <2>1. Joins(src.form, Prefix, Rest)
    BY <1>1, <1>7 DEF SourceOK
  <2>2. SoundButHuge(src.form, Prefix)
    BY <1>1 DEF StrictOK
  <2>3. IsScalar(cp) \/ IsHuge(cp)
    BY DEF Consumes
  <2>. DEFINE s == CodePoints(src.form, Prefix)
              one == <<cp>>
  <2>4. CodePoints(src.form, Prefix') = s \o Kp(cp, Int)
    BY <1>1, <2>1, ConsumesSource DEF CodePoints
  <2>5. Kp(cp, Int) = one /\ one \in Seq(Int) /\ Len(one) = 1 /\ one[1] = cp
    BY <1>2 DEF Kp
  <2>6. s \in Seq(Int)
    BY <1>1, RestIs, DecodedType DEF CodePoints
  <2>7. \A i \in 1..Len(s) : IsScalar(s[i]) \/ IsHuge(s[i])
    BY <2>2, <2>6 DEF SoundButHuge
  <2>. HIDE DEF s, one
  <2>8. /\ s \o one \in Seq(Int) /\ Len(s \o one) = Len(s) + Len(one)
        /\ \A i \in 1..Len(s) : (s \o one)[i] = s[i]
        /\ \A i \in 1..Len(one) : (s \o one)[Len(s) + i] = one[i]
    BY <2>5, <2>6, IntConcatIs
  <2>9. ASSUME NEW i \in 1..Len(s) + 1 PROVE IsScalar((s \o one)[i]) \/ IsHuge((s \o one)[i])
    <3>1. CASE i \in 1..Len(s)
      BY <2>7, <2>8, <3>1
    <3>2. CASE i \notin 1..Len(s)
      <4>1. i = Len(s) + 1 /\ 1 \in 1..Len(one)
        BY <2>5, <2>6, <3>2
      <4>. QED
        BY <2>3, <2>5, <2>8, <4>1
    <3>. QED
      BY <3>1, <3>2
  <2>10. DOMAIN (s \o one) = 1..Len(s) + 1
    BY <2>5, <2>8
  <2>. QED
    BY <2>4, <2>5, <2>9, <2>10 DEF SoundButHuge
<1>10. ResultOK'
  <2>1. PassedHuge => PassedHuge'
    BY <1>1, <1>2, <1>3, PassedStays
  <2>2. result' = "conversionOK" \/ (result' = "sourceIllegal" /\ PassedHuge')
    BY <1>1, <1>2, <2>1 DEF ResultOK
  <2>. QED
    BY <1>2, <2>2 DEF ResultOK
<1>. QED
  BY <1>4, <1>6, <1>8, <1>9, <1>10 DEF ConvertInv

\* a call that stops
LEMMA BreakInv ==
  ASSUME ConvertInv, running, NEW r, Break(r),
         \/ r = "targetExhausted"
         \/ /\ r = "sourceExhausted" \/ r = "sourceIllegal"
            /\ Rest # <<>> /\ ~IsScalar(HeadOf(src.form, Rest)[2])
  PROVE  ConvertInv'
<1>1. ConvertTypeOK /\ TargetOK /\ SourceOK /\ StrictOK /\ ResultOK
  BY DEF ConvertInv
<1>2. /\ result' = r /\ running' = FALSE /\ UNCHANGED textVars /\ source' = source
      /\ written' = written /\ room' = room /\ out' = out
  BY DEF Break
<1>3. /\ src' = src /\ to' = to /\ flags' = flags
      /\ PassesUnseen' = PassesUnseen /\ Strict' = Strict /\ PassedHuge' = PassedHuge
  BY <1>2, SameTextProperties
<1>4. Rest' = Rest /\ Prefix' = Prefix
  BY <1>2, <1>3 DEF Rest, Prefix
<1>5. r \in Results
  BY DEF Results
<1>6. ConvertTypeOK'
  BY <1>1, <1>2, <1>3, <1>5 DEF ConvertTypeOK, Results
<1>7. TargetOK' /\ SourceOK' /\ StrictOK'
  BY <1>1, <1>2, <1>3, <1>4 DEF TargetOK, SourceOK, StrictOK
<1>8. ResultOK'
  <2>1. r # "conversionOK"
    OBVIOUS
  <2>2. r = "sourceExhausted" => Rest # <<>> /\ ~IsScalar(HeadOf(src.form, Rest)[2])
    OBVIOUS
  <2>3. r = "sourceIllegal" => Rest # <<>> /\ ~IsScalar(HeadOf(src.form, Rest)[2])
    OBVIOUS
  <2>. QED
    BY <1>2, <1>3, <1>4, <2>1, <2>2, <2>3 DEF ResultOK
<1>. QED
  BY <1>6, <1>7, <1>8 DEF ConvertInv

LEMMA NoRoomInv ==
  ASSUME ConvertInv, running, NEW h, NoRoom(h)
  PROVE  ConvertInv'
BY BreakInv DEF NoRoom

-----------------------------------------------------------------------------
(* The conversions *)

\* the next n units are the code point cp
Reads(n, cp) ==
  /\ running /\ n \in 1..Len(Rest) /\ cp \in Int
  /\ ~PassesUnseen => /\ HeadOf(src.form, Taken(n)) = <<n, cp>>
                      /\ n < Len(Rest) => Joins(src.form, Taken(n), <<Rest[n + 1]>>)
  /\ Strict /\ ~PassesUnseen => IsScalar(cp) \/ IsHuge(cp)

\* h is cp in the target's form, or stands for what has no character
Stands(h, cp) ==
  \/ h = <<>> /\ cp \notin Kept
  \/ \E c : /\ OneCharacter(to, h, c)
            /\ \/ c = cp
               \/ c \notin Kept /\ cp \notin Kept

LEMMA StandsSeq ==
  ASSUME NEW h, NEW cp, Stands(h, cp)
  PROVE  h \in Seq(Units(to))
<1>1. <<>> \in Seq(Units(to))
  OBVIOUS
<1>. QED
  BY <1>1 DEF Stands, OneCharacter

LEMMA PutInv ==
  ASSUME ConvertInv, NEW n, NEW cp, NEW h, Reads(n, cp), Stands(h, cp), Put(n, h),
         \/ result' = result
         \/ result' = "sourceIllegal" /\ PassedHuge'
  PROVE  ConvertInv'
<1>1. /\ Len(written) + Len(h) <= room /\ written' = written \o h /\ source' = source + n
      /\ UNCHANGED <<textVars, room, out, running>>
  BY DEF Put
<1>2. Consumes(n, cp)
  BY <1>1 DEF Consumes, Reads
<1>3. Produces(h, cp)
  BY <1>1 DEF Produces, Stands
<1>4. Len(written') <= room
  <2>. DEFINE S == Units(to)
  <2>1. written \in Seq(S)
    BY OutIs DEF ConvertInv
  <2>2. h \in Seq(S)
    BY StandsSeq
  <2>. HIDE DEF S
  <2>3. Len(written \o h) = Len(written) + Len(h)
    BY <2>1, <2>2, ConcatIs
  <2>. QED
    BY <1>1, <2>3
<1>. QED
  BY <1>2, <1>3, <1>4, WriteInv

LEMMA PutOrStop ==
  ASSUME ConvertInv, NEW n, NEW cp, NEW h, Reads(n, cp), Stands(h, cp), Write(n, h)
  PROVE  ConvertInv'
<1>1. CASE PutAndGoOn(n, h)
  BY <1>1, PutInv DEF PutAndGoOn
<1>2. CASE NoRoom(h)
  BY <1>2, NoRoomInv DEF Reads
<1>. QED
  BY <1>1, <1>2 DEF Write

LEMMA KeptIs ==
  ASSUME NEW cp, cp = UNI_REPLACEMENT_CHAR \/ IsSurrogate(cp) \/ IsHuge(cp)
  PROVE  cp \notin Kept
BY DEF Kept

LEMMA Replacement ==
  /\ UNI_REPLACEMENT_CHAR \in CodeSpace
  /\ ~IsSurrogate(UNI_REPLACEMENT_CHAR)
  /\ UNI_REPLACEMENT_CHAR \notin Kept
<1>1. UNI_REPLACEMENT_CHAR \in Nat /\ UNI_REPLACEMENT_CHAR = 65533
  BY DEF UNI_REPLACEMENT_CHAR
<1>2. ~IsHuge(UNI_REPLACEMENT_CHAR)
  BY <1>1 DEF IsHuge
<1>3. ~IsSurrogate(UNI_REPLACEMENT_CHAR)
  BY <1>1, Surrogates DEF IsSurrogate
<1>. QED
  BY <1>1, <1>2, <1>3 DEF CodeSpace, Kept

\* what is written for a code point, or for one that has no character
LEMMA StandsFor ==
  ASSUME NEW h, NEW cp, NEW c, OneCharacter(to, h, c), c = cp
  PROVE  Stands(h, cp)
BY DEF Stands

LEMMA StandsInstead ==
  ASSUME NEW h, NEW cp, OneCharacter(to, h, UNI_REPLACEMENT_CHAR), cp \notin Kept
  PROVE  Stands(h, cp)
BY Replacement DEF Stands

LEMMA RestFirst ==
  ASSUME ConvertTypeOK, Rest # <<>>
  PROVE  /\ Rest \in Seq(Nat) /\ Len(Rest) \in Nat /\ 1 \in 1..Len(Rest)
         /\ Head(Rest) = Rest[1] /\ Rest[1] \in Nat
         /\ Rest[1] = src.units[source + 1] /\ source + 1 \in 1..Len(src.units)
<1>1. Rest \in Seq(Nat)
  BY RestIs, TextIs
<1>2. Len(Rest) \in Nat /\ 1 \in 1..Len(Rest) /\ Head(Rest) = Rest[1] /\ Rest[1] \in Nat
  BY <1>1
<1>3. /\ source \in Nat /\ Len(Rest) = Len(src.units) - source
      /\ \A i \in 1..Len(Rest) : Rest[i] = src.units[source + i]
  BY RestIs
<1>4. Len(src.units) \in Nat
  BY RestIs, TextIs
<1>5. source + 1 \in 1..Len(src.units)
  BY <1>2, <1>3, <1>4
<1>. QED
  BY <1>1, <1>2, <1>3, <1>5

\* from UTF-32
LEMMA Reads32 ==
  ASSUME ConvertTypeOK, running, Rest # <<>>, src.form = "UTF32", Strict => ~IsSurrogate(Rest[1])
  PROVE  Reads(1, Rest[1]) /\ (~IsHuge(Rest[1]) => Rest[1] \in CodeSpace)
<1>. DEFINE ch == Rest[1]
<1>1. 1 \in 1..Len(Rest) /\ ch \in Nat /\ ch = src.units[source + 1] /\ source + 1 \in 1..Len(src.units)
  BY RestFirst
<1>2. Taken(1) \in Seq(Units(src.form)) /\ Len(Taken(1)) = 1 /\ \A i \in 1..1 : Taken(1)[i] = Rest[i]
  BY <1>1, TakenIs
<1>3. Taken(1)[1] = ch
  BY <1>2
<1>4. HeadOf(src.form, Taken(1)) = <<1, ch>>
  BY <1>3 DEF HeadOf
<1>5. Joins(src.form, Taken(1), <<Rest[1 + 1]>>)
  BY DEF Joins
<1>7. ~IsHuge(ch) => ch \in CodeSpace
  BY <1>1 DEF CodeSpace
<1>8. Strict => IsScalar(ch) \/ IsHuge(ch)
  BY <1>7 DEF IsScalar
<1>. HIDE DEF ch
<1>9. Reads(1, ch)
  BY <1>1, <1>4, <1>5, <1>8 DEF Reads
<1>. QED
  BY <1>7, <1>9 DEF ch

\* the loop goes past it
LEMMA Passes32 ==
  ASSUME ConvertTypeOK, Rest # <<>>, src.form = "UTF32", IsHuge(Rest[1]),
         UNCHANGED textVars, source' = source + 1
  PROVE  PassedHuge'
<1>1. Rest[1] = src.units[source + 1] /\ source + 1 \in 1..Len(src.units)
  BY RestFirst
<1>2. source \in Nat
  BY RestIs
<1>3. src' = src
  BY DEF textVars
<1>4. source + 1 \in 1..source'
  BY <1>2
<1>. QED
  BY <1>1, <1>3, <1>4 DEF PassedHuge

LEMMA From32to16 ==
  ASSUME ConvertInv, ConvertUTF32toUTF16
  PROVE  ConvertInv'
<1>. DEFINE ch == Rest[1]
<1>1. ConvertTypeOK /\ running /\ Rest # <<>> /\ src.form = "UTF32" /\ to = "UTF16"
  BY DEF ConvertInv, ConvertUTF32toUTF16, Conversion
<1>2. Head(Rest) = ch /\ ch \in Nat
  BY <1>1, RestFirst
<1>3. \/ NoRoom(<<ch>>)
      \/ IsSurrogate(ch) /\ Strict /\ Len(written) < room /\ Break("sourceIllegal")
      \/ IsSurrogate(ch) /\ ~Strict /\ PutAndGoOn(1, <<UNI_REPLACEMENT_CHAR>>)
      \/ IsHuge(ch) /\ Strict /\ Len(written) < room /\ Put(1, <<>>) /\ result' = "sourceIllegal"
      \/ IsHuge(ch) /\ ~Strict /\ PutAndGoOn(1, <<UNI_REPLACEMENT_CHAR>>)
      \/ ~IsSurrogate(ch) /\ ~IsHuge(ch) /\ Len(written) < room /\ Write(1, UTF16Units(ch))
  BY <1>2 DEF ConvertUTF32toUTF16
<1>4. Stands(<<UNI_REPLACEMENT_CHAR>>, ch) \/ ~(IsSurrogate(ch) \/ IsHuge(ch))
  <2>1. UTF16Units(UNI_REPLACEMENT_CHAR) = <<UNI_REPLACEMENT_CHAR>>
    BY DEF UTF16Units, UNI_REPLACEMENT_CHAR
  <2>2. OneCharacter(to, <<UNI_REPLACEMENT_CHAR>>, UNI_REPLACEMENT_CHAR)
    BY <1>1, <2>1, Replacement, InUTF16
  <2>. QED
    BY <2>2, KeptIs, StandsInstead
<1>5. CASE NoRoom(<<ch>>)
  BY <1>1, <1>5, NoRoomInv
<1>6. CASE IsSurrogate(ch) /\ Strict /\ Break("sourceIllegal")
  <2>1. HeadOf(src.form, Rest)[2] = ch
    BY <1>1 DEF HeadOf
  <2>2. ~IsScalar(ch)
    BY <1>6 DEF IsScalar
  <2>. QED
    BY <1>1, <1>6, <2>1, <2>2, BreakInv
<1>7. CASE IsSurrogate(ch) /\ ~Strict /\ PutAndGoOn(1, <<UNI_REPLACEMENT_CHAR>>)
  <2>1. Reads(1, ch)
    BY <1>1, <1>7, Reads32
  <2>. QED
    BY <1>4, <1>7, <2>1, PutInv DEF PutAndGoOn
<1>8. CASE IsHuge(ch) /\ Put(1, <<>>) /\ result' = "sourceIllegal"
  <2>1. ~IsSurrogate(ch)
    BY <1>2, <1>8, Surrogates DEF IsHuge, IsSurrogate
  <2>2. Reads(1, ch) /\ PassedHuge'
    BY <1>1, <1>8, <2>1, Reads32, Passes32 DEF Put
  <2>3. Stands(<<>>, ch)
    BY <1>8, KeptIs DEF Stands
  <2>. QED
    BY <1>8, <2>2, <2>3, PutInv
<1>9. CASE IsHuge(ch) /\ ~Strict /\ PutAndGoOn(1, <<UNI_REPLACEMENT_CHAR>>)
  <2>1. Reads(1, ch)
    BY <1>1, <1>9, Reads32
  <2>. QED
    BY <1>4, <1>9, <2>1, PutInv DEF PutAndGoOn
<1>10. CASE ~IsSurrogate(ch) /\ ~IsHuge(ch) /\ Write(1, UTF16Units(ch))
  <2>1. Reads(1, ch) /\ ch \in CodeSpace
    BY <1>1, <1>10, Reads32
  <2>2. OneCharacter(to, UTF16Units(ch), ch)
    BY <1>1, <1>10, <2>1, InUTF16
  <2>3. Stands(UTF16Units(ch), ch)
    BY <2>2, StandsFor
  <2>. QED
    BY <1>10, <2>1, <2>3, PutOrStop
<1>. QED
  BY <1>3, <1>5, <1>6, <1>7, <1>8, <1>9, <1>10

LEMMA From32to8 ==
  ASSUME ConvertInv, ConvertUTF32toUTF8
  PROVE  ConvertInv'
<1>. DEFINE ch == Rest[1]
            instead == UTF8Bytes(UNI_REPLACEMENT_CHAR)
<1>1. ConvertTypeOK /\ running /\ Rest # <<>> /\ src.form = "UTF32" /\ to = "UTF8"
  BY DEF ConvertInv, ConvertUTF32toUTF8, Conversion
<1>2. Head(Rest) = ch /\ ch \in Nat
  BY <1>1, RestFirst
<1>3. \/ IsSurrogate(ch) /\ Strict /\ Break("sourceIllegal")
      \/ IsHuge(ch) /\ Put(1, instead) /\ result' = "sourceIllegal"
      \/ IsHuge(ch) /\ NoRoom(instead)
      \/ ~(IsSurrogate(ch) /\ Strict) /\ ~IsHuge(ch) /\ Write(1, UTF8Bytes(ch))
  BY <1>2 DEF ConvertUTF32toUTF8
<1>4. OneCharacter(to, instead, UNI_REPLACEMENT_CHAR)
  BY <1>1, Replacement, InUTF8
<1>. HIDE DEF instead
<1>5. CASE IsSurrogate(ch) /\ Strict /\ Break("sourceIllegal")
  <2>1. HeadOf(src.form, Rest)[2] = ch
    BY <1>1 DEF HeadOf
  <2>2. ~IsScalar(ch)
    BY <1>5 DEF IsScalar
  <2>. QED
    BY <1>1, <1>5, <2>1, <2>2, BreakInv
<1>6. CASE IsHuge(ch) /\ Put(1, instead) /\ result' = "sourceIllegal"
  <2>1. ~IsSurrogate(ch)
    BY <1>2, <1>6, Surrogates DEF IsHuge, IsSurrogate
  <2>2. Reads(1, ch) /\ PassedHuge'
    BY <1>1, <1>6, <2>1, Reads32, Passes32 DEF Put
  <2>3. Stands(instead, ch)
    BY <1>4, <1>6, KeptIs, StandsInstead
  <2>. QED
    BY <1>6, <2>2, <2>3, PutInv
<1>7. CASE NoRoom(instead)
  BY <1>1, <1>7, NoRoomInv
<1>8. CASE ~(IsSurrogate(ch) /\ Strict) /\ ~IsHuge(ch) /\ Write(1, UTF8Bytes(ch))
  <2>1. Reads(1, ch) /\ ch \in CodeSpace
    BY <1>1, <1>8, Reads32
  <2>2. OneCharacter(to, UTF8Bytes(ch), ch)
    BY <1>1, <2>1, InUTF8
  <2>3. Stands(UTF8Bytes(ch), ch)
    BY <2>2, StandsFor
  <2>. QED
    BY <1>8, <2>1, <2>3, PutOrStop
<1>. QED
  BY <1>3, <1>5, <1>6, <1>7, <1>8

\* from UTF-16
LEMMA Reads16 ==
  ASSUME ConvertTypeOK, running, Rest # <<>>, src.form = "UTF16", ~CutPair, ~(Unpaired /\ Strict)
  PROVE  Reads(UnitsRead, CodePoint16) /\ CodePoint16 \in CodeSpace
<1>. DEFINE a == Rest[1]
            b == Rest[2]
<1>1. 1 \in 1..Len(Rest) /\ a \in Nat /\ Len(Rest) \in Nat /\ Rest \in Seq(Nat)
  BY RestFirst
<1>2. ASSUME NEW x \in Units("UTF16") PROVE x \in Nat /\ x < 65536
  BY DEF Units
<1>3. a < 65536
  <2>1. Rest \in Seq(Units("UTF16"))
    BY RestIs
  <2>2. a \in Units("UTF16")
    BY <1>1, <2>1, ElementOfSeq
  <2>. QED
    BY <1>2, <2>2
<1>4. CASE Paired
  <2>1. Len(Rest) > 1 /\ IsHigh(a) /\ IsLow(b)
    BY <1>4 DEF Paired
  <2>2. 2 \in 1..Len(Rest) /\ b \in Nat
    BY <1>1, <2>1
  <2>. DEFINE cp == CodePoint16
              h == Taken(2)
  <2>3. UnitsRead = 2 /\ cp = (a - 55296) * 1024 + (b - 56320) + 65536
    BY <1>4 DEF UnitsRead, CodePoint16
  <2>4. /\ h \in Seq(Units(src.form)) /\ Len(h) = 2
        /\ \A i \in 1..2 : h[i] = Rest[i]
    BY <2>2, TakenIs
  <2>5. h[1] = a /\ h[2] = b
    BY <2>4
  <2>. HIDE DEF a, b, cp, h
  <2>6. a >= 55296 /\ a <= 56319 /\ b >= 56320 /\ b <= 57343 /\ ~IsHigh(b)
    BY <1>1, <2>1, <2>2, Surrogates
  <2>7. a % 1024 = a - 55296 /\ b % 1024 = b - 56320
    BY <1>1, <2>2, <2>6
  <2>8. cp \in Nat /\ cp >= 65536 /\ cp <= 1114111
    BY <1>1, <2>2, <2>3, <2>6
  <2>9. cp \in CodeSpace /\ IsScalar(cp)
    <3>1. cp \in CodeSpace
      BY <2>8 DEF CodeSpace, IsHuge
    <3>2. ~IsSurrogate(cp)
      BY <2>8, Surrogates DEF IsSurrogate
    <3>. QED
      BY <3>1, <3>2 DEF IsScalar
  <2>10. Head16(h) = <<2, cp>>
    <3>1. Head16(h) = <<2, 65536 + (a % 1024) * 1024 + (b % 1024)>>
      BY <2>1, <2>4, <2>5 DEF Head16
    <3>2. 65536 + (a % 1024) * 1024 + (b % 1024) = cp
      BY <1>1, <2>2, <2>3, <2>7
    <3>. QED
      BY <3>1, <3>2
  <2>11. HeadOf(src.form, h) = <<2, cp>>
    BY <2>10 DEF HeadOf
  <2>12. Joins(src.form, h, <<Rest[2 + 1]>>)
    BY <2>4, <2>5, <2>6 DEF Joins
  <2>13. Reads(2, cp)
    BY <2>2, <2>8, <2>9, <2>11, <2>12 DEF Reads, h
  <2>. QED
    BY <2>3, <2>9, <2>13 DEF cp
<1>5. CASE ~Paired
  <2>1. UnitsRead = 1 /\ CodePoint16 = a
    BY <1>5 DEF UnitsRead, CodePoint16
  <2>. DEFINE h == Taken(1)
  <2>2. /\ h \in Seq(Units(src.form)) /\ Len(h) = 1
        /\ \A i \in 1..1 : h[i] = Rest[i]
    BY <1>1, TakenIs
  <2>3. h[1] = a
    BY <2>2
  <2>. HIDE DEF h
  <2>4. HeadOf(src.form, h) = <<1, a>>
    BY <2>2, <2>3 DEF HeadOf, Head16
  <2>5. 1 < Len(Rest) => Joins(src.form, h, <<Rest[1 + 1]>>)
    <3>1. ASSUME 1 < Len(Rest) PROVE ~(IsHigh(a) /\ IsLow(b))
      BY <1>5, <3>1 DEF Paired
    <3>2. <<Rest[1 + 1]>>[1] = b
      OBVIOUS
    <3>. QED
      BY <2>2, <2>3, <3>1, <3>2 DEF Joins
  <2>6. a \in CodeSpace
    BY <1>1, <1>3 DEF CodeSpace, IsHuge
  <2>7. Strict => IsScalar(a)
    BY <1>5, <2>6 DEF Unpaired, IsScalar
  <2>8. Reads(1, a)
    BY <1>1, <2>4, <2>5, <2>7 DEF Reads, h
  <2>. QED
    BY <2>1, <2>6, <2>8
<1>. QED
  BY <1>4, <1>5

\* a high surrogate at the end, or a surrogate without its pair
LEMMA Surrogate16 ==
  ASSUME ConvertTypeOK, Rest # <<>>, src.form = "UTF16", CutPair \/ Unpaired
  PROVE  ~IsScalar(HeadOf(src.form, Rest)[2])
<1>1. ~Paired
  BY DEF CutPair, Unpaired, Paired
<1>2. HeadOf(src.form, Rest) = <<1, Rest[1]>>
  BY <1>1 DEF HeadOf, Head16, Paired
<1>3. IsSurrogate(Rest[1])
  BY DEF CutPair, Unpaired, IsSurrogate
<1>. QED
  BY <1>2, <1>3 DEF IsScalar

LEMMA From16to32 ==
  ASSUME ConvertInv, ConvertUTF16toUTF32
  PROVE  ConvertInv'
<1>1. ConvertTypeOK /\ running /\ Rest # <<>> /\ src.form = "UTF16" /\ to = "UTF32"
  BY DEF ConvertInv, ConvertUTF16toUTF32, Conversion
<1>2. \/ CutPair /\ Break("sourceExhausted")
      \/ Unpaired /\ Strict /\ Break("sourceIllegal")
      \/ ~CutPair /\ ~(Unpaired /\ Strict) /\ Write(UnitsRead, <<CodePoint16>>)
  BY DEF ConvertUTF16toUTF32
<1>3. CASE CutPair /\ Break("sourceExhausted")
  BY <1>1, <1>3, Surrogate16, BreakInv
<1>4. CASE Unpaired /\ Strict /\ Break("sourceIllegal")
  BY <1>1, <1>4, Surrogate16, BreakInv
<1>5. CASE ~CutPair /\ ~(Unpaired /\ Strict) /\ Write(UnitsRead, <<CodePoint16>>)
  <2>1. Reads(UnitsRead, CodePoint16) /\ CodePoint16 \in CodeSpace
    BY <1>1, <1>5, Reads16
  <2>2. CodePoint16 \in Nat
    BY <2>1, CodeSpaceIs
  <2>3. OneCharacter(to, <<CodePoint16>>, CodePoint16)
    BY <1>1, <2>2, InUTF32
  <2>4. Stands(<<CodePoint16>>, CodePoint16)
    BY <2>3, StandsFor
  <2>. QED
    BY <1>5, <2>1, <2>4, PutOrStop
<1>. QED
  BY <1>2, <1>3, <1>4, <1>5

LEMMA From16to8 ==
  ASSUME ConvertInv, ConvertUTF16toUTF8
  PROVE  ConvertInv'
<1>1. ConvertTypeOK /\ running /\ Rest # <<>> /\ src.form = "UTF16" /\ to = "UTF8"
  BY DEF ConvertInv, ConvertUTF16toUTF8, Conversion
<1>2. \/ CutPair /\ Break("sourceExhausted")
      \/ Unpaired /\ Strict /\ Break("sourceIllegal")
      \/ ~CutPair /\ ~(Unpaired /\ Strict) /\ Write(UnitsRead, UTF8Bytes(CodePoint16))
  BY DEF ConvertUTF16toUTF8
<1>3. CASE CutPair /\ Break("sourceExhausted")
  BY <1>1, <1>3, Surrogate16, BreakInv
<1>4. CASE Unpaired /\ Strict /\ Break("sourceIllegal")
  BY <1>1, <1>4, Surrogate16, BreakInv
<1>5. CASE ~CutPair /\ ~(Unpaired /\ Strict) /\ Write(UnitsRead, UTF8Bytes(CodePoint16))
  <2>1. Reads(UnitsRead, CodePoint16) /\ CodePoint16 \in CodeSpace
    BY <1>1, <1>5, Reads16
  <2>2. OneCharacter(to, UTF8Bytes(CodePoint16), CodePoint16)
    BY <1>1, <2>1, InUTF8
  <2>3. Stands(UTF8Bytes(CodePoint16), CodePoint16)
    BY <2>2, StandsFor
  <2>. QED
    BY <1>5, <2>1, <2>3, PutOrStop
<1>. QED
  BY <1>2, <1>3, <1>4, <1>5

\* from UTF-8
LEMMA Rest8 ==
  ASSUME ConvertTypeOK, Rest # <<>>, src.form = "UTF8"
  PROVE  /\ Rest \in Seq(Bytes) /\ Rest[1] \in Bytes /\ ExtraBytes \in 0..5
         /\ HeadOf(src.form, Rest) = Head8(Rest)
<1>1. Rest \in Seq(Bytes)
  BY RestIs, UnitsAre
<1>2. Rest[1] \in Bytes
  BY <1>1
<1>3. ExtraBytes \in 0..5
  BY <1>2, TrailingIs DEF ExtraBytes
<1>. QED
  BY <1>1, <1>2, <1>3 DEF HeadOf

LEMMA NotPassed ==
  ASSUME ConvertTypeOK, Rest # <<>>, src.form = "UTF8",
         \/ Len(Rest) <= ExtraBytes
         \/ ~isLegalUTF8(Rest, ExtraBytes + 1)
  PROVE  ~IsScalar(HeadOf(src.form, Rest)[2])
<1>1. SUFFICES ASSUME IsScalar(Head8(Rest)[2]) PROVE FALSE
  BY Rest8
<1>2. Passed(Rest, ExtraBytes + 1)
  BY <1>1, Rest8, ScalarPasses DEF ExtraBytes
<1>3. ExtraBytes \in Int /\ Len(Rest) \in Nat
  BY Rest8
<1>4. ExtraBytes + 1 <= Len(Rest) /\ isLegalUTF8(Rest, ExtraBytes + 1)
  BY <1>2 DEF Passed
<1>. QED
  BY <1>3, <1>4

LEMMA Reads8 ==
  ASSUME ConvertTypeOK, running, Rest # <<>>, src.form = "UTF8",
         Len(Rest) > ExtraBytes, isLegalUTF8(Rest, ExtraBytes + 1)
  PROVE  /\ Reads(ExtraBytes + 1, CodePoint8)
         /\ CodePoint8 \in CodeSpace /\ ~IsSurrogate(CodePoint8)
<1>. DEFINE n == ExtraBytes + 1
            cp == CodePoint8
            h == Taken(n)
<1>1. Rest \in Seq(Bytes) /\ Len(Rest) \in Nat /\ ExtraBytes \in 0..5
  BY Rest8
<1>2. n \in 1..4
  BY DEF isLegalUTF8
<1>3. n \in 1..Len(Rest) /\ n <= Len(Rest)
  BY <1>1
<1>4. Passed(Rest, n)
  BY <1>2, <1>3 DEF Passed, ExtraBytes
<1>5. cp = Passes(Rest, n)
  BY DEF CodePoint8, Passes
<1>. HIDE DEF n, cp, h
<1>6. cp \in CodeSpace /\ ~IsSurrogate(cp)
  BY <1>1, <1>4, <1>5, PassedValue
<1>7. ASSUME ~PassesUnseen
      PROVE  HeadOf(src.form, h) = <<n, cp>> /\ Joins(src.form, h, <<Rest[n + 1]>>)
  <2>1. ~Unseen(Rest, n)
    <3>1. SUFFICES ASSUME n > 1, Rest[1] \in {237, 244}, Rest[2] < 128 PROVE FALSE
      BY DEF Unseen
    <3>2. /\ source \in Nat /\ Len(Rest) = Len(src.units) - source
          /\ \A i \in 1..Len(Rest) : Rest[i] = src.units[source + i]
      BY RestIs
    <3>3. Len(src.units) \in Nat
      BY RestIs, TextIs
    <3>4. 1 \in 1..Len(Rest) /\ 2 \in 1..Len(Rest)
      BY <1>1, <1>2, <1>3, <3>1
    <3>5. source + 1 \in 1..Len(src.units) - 1 /\ source + 1 + 1 = source + 2
      BY <3>2, <3>3, <3>4
    <3>6. Rest[1] = src.units[source + 1] /\ Rest[2] = src.units[source + 2]
      BY <3>2, <3>4
    <3>7. src.units[source + 1] \in {237, 244} /\ src.units[source + 1 + 1] < 128
      BY <3>1, <3>5, <3>6
    <3>. QED
      BY <1>7, <3>5, <3>7 DEF PassesUnseen
  <2>2. /\ h \in Seq(Units(src.form)) /\ Len(h) = n
        /\ \A i \in 1..n : h[i] = Rest[i]
    BY <1>3, TakenIs DEF h
  <2>3. h \in Seq(Bytes)
    BY <2>2, UnitsAre
  <2>4. OneCharacter8(h, cp)
    BY <1>1, <1>4, <1>5, <2>1, <2>2, <2>3, PassedRead
  <2>5. HeadOf(src.form, h) = Head8(h)
    BY DEF HeadOf
  <2>6. Head8(h) = <<n, cp>>
    BY <2>2, <2>4 DEF OneCharacter8
  <2>7. Joins(src.form, h, <<Rest[n + 1]>>)
    BY <2>4 DEF OneCharacter8, Joins
  <2>. QED
    BY <2>5, <2>6, <2>7
<1>8. cp \in Int /\ IsScalar(cp)
  BY <1>6, CodeSpaceIs DEF IsScalar
<1>9. Reads(n, cp)
  BY <1>3, <1>7, <1>8 DEF Reads, h
<1>. QED
  BY <1>6, <1>9 DEF n, cp

LEMMA Read8Inv ==
  ASSUME ConvertInv, running, Rest # <<>>, src.form = "UTF8", NEW h, Read8(h),
         CodePoint8 \in CodeSpace /\ ~IsSurrogate(CodePoint8) => OneCharacter(to, h, CodePoint8)
  PROVE  ConvertInv'
<1>1. ConvertTypeOK
  BY DEF ConvertInv
<1>2. \/ Len(Rest) <= ExtraBytes /\ Break("sourceExhausted")
      \/ ~isLegalUTF8(Rest, ExtraBytes + 1) /\ Break("sourceIllegal")
      \/ Len(Rest) > ExtraBytes /\ isLegalUTF8(Rest, ExtraBytes + 1) /\ Write(ExtraBytes + 1, h)
  BY DEF Read8
<1>3. CASE Len(Rest) <= ExtraBytes /\ Break("sourceExhausted")
  BY <1>1, <1>3, NotPassed, BreakInv
<1>4. CASE ~isLegalUTF8(Rest, ExtraBytes + 1) /\ Break("sourceIllegal")
  BY <1>1, <1>4, NotPassed, BreakInv
<1>5. CASE Len(Rest) > ExtraBytes /\ isLegalUTF8(Rest, ExtraBytes + 1) /\ Write(ExtraBytes + 1, h)
  <2>1. /\ Reads(ExtraBytes + 1, CodePoint8)
        /\ CodePoint8 \in CodeSpace /\ ~IsSurrogate(CodePoint8)
    BY <1>1, <1>5, Reads8
  <2>2. Stands(h, CodePoint8)
    BY <2>1, StandsFor
  <2>. QED
    BY <1>5, <2>1, <2>2, PutOrStop
<1>. QED
  BY <1>2, <1>3, <1>4, <1>5

LEMMA From8to16 ==
  ASSUME ConvertInv, ConvertUTF8toUTF16
  PROVE  ConvertInv'
<1>1. running /\ Rest # <<>> /\ src.form = "UTF8" /\ to = "UTF16" /\ Read8(UTF16Units(CodePoint8))
  BY DEF ConvertUTF8toUTF16, Conversion
<1>2. CodePoint8 \in CodeSpace /\ ~IsSurrogate(CodePoint8)
        => OneCharacter(to, UTF16Units(CodePoint8), CodePoint8)
  BY <1>1, InUTF16
<1>. QED
  BY <1>1, <1>2, Read8Inv

LEMMA From8to32 ==
  ASSUME ConvertInv, ConvertUTF8toUTF32
  PROVE  ConvertInv'
<1>1. running /\ Rest # <<>> /\ src.form = "UTF8" /\ to = "UTF32" /\ Read8(<<CodePoint8>>)
  BY DEF ConvertUTF8toUTF32, Conversion
<1>2. CodePoint8 \in CodeSpace => OneCharacter(to, <<CodePoint8>>, CodePoint8)
  BY <1>1, CodeSpaceIs, InUTF32
<1>. QED
  BY <1>1, <1>2, Read8Inv

-----------------------------------------------------------------------------
(* The caller, and the end of the loop *)

LEMMA ConvertStep ==
  ASSUME ConvertInv, Convert
  PROVE  ConvertInv'
<1>1. ConvertTypeOK /\ TargetOK /\ SourceOK /\ StrictOK /\ ResultOK
  BY DEF ConvertInv
<1>2. /\ out' = out \o written /\ written' = <<>> /\ room' \in Rooms
      /\ result' = "conversionOK" /\ running' = TRUE /\ UNCHANGED textVars /\ source' = source
  BY DEF Convert
<1>3. /\ src' = src /\ to' = to /\ flags' = flags
      /\ PassesUnseen' = PassesUnseen /\ Strict' = Strict /\ PassedHuge' = PassedHuge
  BY <1>2, SameTextProperties
<1>4. Rest' = Rest /\ Prefix' = Prefix
  BY <1>2, <1>3 DEF Rest, Prefix
<1>5. out \in Seq(Units(to)) /\ written \in Seq(Units(to))
  BY <1>1 DEF ConvertTypeOK
<1>6. out \o written \in Seq(Units(to)) /\ (out \o written) \o <<>> = out \o written
  <2>. DEFINE S == Units(to)
  <2>1. out \in Seq(S) /\ written \in Seq(S)
    BY <1>5
  <2>. HIDE DEF S
  <2>2. out \o written \in Seq(S)
    BY <2>1
  <2>. DEFINE w == out \o written
  <2>. HIDE DEF w
  <2>3. w \in Seq(S)
    BY <2>2 DEF w
  <2>4. w \o <<>> = w
    BY <2>3, ConcatEmptySeq
  <2>. QED
    BY <2>2, <2>4 DEF S, w
<1>7. out' \o written' = out \o written
  BY <1>2, <1>6
<1>8. <<>> \in Seq(Units(to)) /\ Len(<<>>) = 0
  OBVIOUS
<1>9. room' \in Nat
  BY <1>2, ConvertAssumption
<1>10. 0 <= room'
  BY <1>9
<1>11. ConvertTypeOK'
  <2>1. /\ src.form \in Forms /\ src.units \in Seq(Units(src.form))
        /\ to \in Forms \ {src.form} /\ flags \in ConversionFlags
        /\ source \in 0..Len(src.units)
    BY <1>1 DEF ConvertTypeOK
  <2>2. room' \in Rooms \cup {0} /\ Len(written') <= room' /\ written' \in Seq(Units(to))
    BY <1>2, <1>8, <1>10
  <2>3. out' \in Seq(Units(to))
    BY <1>2, <1>6
  <2>. QED
    BY <1>2, <1>3, <2>1, <2>2, <2>3 DEF ConvertTypeOK
<1>12. TargetOK' /\ SourceOK' /\ StrictOK'
  BY <1>1, <1>3, <1>4, <1>7 DEF TargetOK, SourceOK, StrictOK
<1>13. ResultOK'
  BY <1>2 DEF ResultOK
<1>. QED
  BY <1>11, <1>12, <1>13 DEF ConvertInv

LEMMA EndStep ==
  ASSUME ConvertInv, EndOfSource
  PROVE  ConvertInv'
<1>1. ConvertTypeOK /\ TargetOK /\ SourceOK /\ StrictOK /\ ResultOK
  BY DEF ConvertInv
<1>2. /\ running /\ Rest = <<>> /\ running' = FALSE /\ UNCHANGED textVars /\ source' = source
      /\ written' = written /\ room' = room /\ out' = out /\ result' = result
  BY DEF EndOfSource
<1>3. /\ src' = src /\ to' = to /\ flags' = flags
      /\ PassesUnseen' = PassesUnseen /\ Strict' = Strict /\ PassedHuge' = PassedHuge
  BY <1>2, SameTextProperties
<1>4. Rest' = Rest /\ Prefix' = Prefix
  BY <1>2, <1>3 DEF Rest, Prefix
<1>5. ConvertTypeOK'
  BY <1>1, <1>2, <1>3 DEF ConvertTypeOK
<1>6. TargetOK' /\ SourceOK' /\ StrictOK'
  BY <1>1, <1>2, <1>3, <1>4 DEF TargetOK, SourceOK, StrictOK
<1>7. result = "conversionOK" \/ (result = "sourceIllegal" /\ PassedHuge)
  BY <1>1, <1>2 DEF ResultOK
<1>8. ResultOK'
  BY <1>2, <1>3, <1>4, <1>7 DEF ResultOK
<1>. QED
  BY <1>5, <1>6, <1>8 DEF ConvertInv

LEMMA NoStep ==
  ASSUME ConvertInv, UNCHANGED convVars
  PROVE  ConvertInv'
<1>1. ConvertTypeOK /\ TargetOK /\ SourceOK /\ StrictOK /\ ResultOK
  BY DEF ConvertInv
<1>2. /\ UNCHANGED textVars /\ source' = source /\ written' = written /\ room' = room
      /\ out' = out /\ result' = result /\ running' = running
  BY DEF convVars
<1>3. /\ src' = src /\ to' = to /\ flags' = flags
      /\ PassesUnseen' = PassesUnseen /\ Strict' = Strict /\ PassedHuge' = PassedHuge
  BY <1>2, SameTextProperties
<1>4. Rest' = Rest /\ Prefix' = Prefix
  BY <1>2, <1>3 DEF Rest, Prefix
<1>5. ConvertTypeOK'
  BY <1>1, <1>2, <1>3 DEF ConvertTypeOK
<1>6. TargetOK' /\ SourceOK' /\ StrictOK' /\ ResultOK'
  BY <1>1, <1>2, <1>3, <1>4 DEF TargetOK, SourceOK, StrictOK, ResultOK
<1>. QED
  BY <1>5, <1>6 DEF ConvertInv

LEMMA ConvertInitInv == ConvertInit => ConvertInv
<1>. SUFFICES ASSUME ConvertInit PROVE ConvertInv
  OBVIOUS
<1>1. /\ src \in Sources /\ to \in Forms \ {src.form} /\ flags \in ConversionFlags
      /\ source = 0 /\ written = <<>> /\ room = 0 /\ out = <<>>
      /\ result = "targetExhausted" /\ running = FALSE
  BY DEF ConvertInit
<1>2. src.form \in Forms /\ src.units \in Seq(Units(src.form))
  BY <1>1, ConvertAssumption
<1>3. <<>> \in Seq(Units(to)) /\ Len(<<>>) = 0 /\ <<>> \o <<>> = <<>>
  OBVIOUS
<1>4. out \o written = <<>>
  BY <1>1, <1>3
<1>5. ConvertTypeOK
  <2>1. source \in 0..Len(src.units)
    BY <1>1, <1>2
  <2>2. out \in Seq(Units(to)) /\ written \in Seq(Units(to)) /\ Len(written) <= room
    BY <1>1, <1>3
  <2>. QED
    BY <1>1, <1>2, <2>1, <2>2 DEF ConvertTypeOK
<1>6. Prefix = <<>>
  <2>1. Prefix \in Seq(Units(src.form)) /\ Len(Prefix) = 0
    BY <1>1, <1>5, RestIs
  <2>. QED
    BY <2>1, EmptySeq
<1>7. TargetOK
  BY <1>4, ClosedEmpty DEF TargetOK
<1>8. SourceOK
  <2>1. Joins(src.form, Prefix, Rest)
    BY <1>6, ClosedEmpty, ClosedJoins
  <2>2. Decoded(src.form, Prefix, Kept) = <<>>
    BY <1>2, <1>6, DecodedEmpty
  <2>3. Decoded(to, out \o written, Kept) = <<>>
    BY <1>1, <1>4, DecodedEmpty
  <2>. QED
    BY <2>1, <2>2, <2>3 DEF SourceOK, Characters
<1>9. StrictOK
  <2>1. CodePoints(src.form, Prefix) = <<>>
    BY <1>2, <1>6, DecodedEmpty DEF CodePoints
  <2>2. DOMAIN <<>> = {}
    OBVIOUS
  <2>. QED
    BY <2>1, <2>2 DEF StrictOK, SoundButHuge
<1>10. ResultOK
  BY <1>1 DEF ResultOK
<1>. QED
  BY <1>5, <1>7, <1>8, <1>9, <1>10 DEF ConvertInv

LEMMA ConvertNextInv == ConvertInv /\ [ConvertNext]_convVars => ConvertInv'
<1>. SUFFICES ASSUME ConvertInv, [ConvertNext]_convVars PROVE ConvertInv'
  OBVIOUS
<1>1. CASE Convert
  BY <1>1, ConvertStep
<1>2. CASE EndOfSource
  BY <1>2, EndStep
<1>3. CASE ConvertUTF32toUTF16
  BY <1>3, From32to16
<1>4. CASE ConvertUTF32toUTF8
  BY <1>4, From32to8
<1>5. CASE ConvertUTF16toUTF32
  BY <1>5, From16to32
<1>6. CASE ConvertUTF16toUTF8
  BY <1>6, From16to8
<1>7. CASE ConvertUTF8toUTF16
  BY <1>7, From8to16
<1>8. CASE ConvertUTF8toUTF32
  BY <1>8, From8to32
<1>9. CASE UNCHANGED convVars
  BY <1>9, NoStep
<1>. QED
  BY <1>1, <1>2, <1>3, <1>4, <1>5, <1>6, <1>7, <1>8, <1>9 DEF ConvertNext

-----------------------------------------------------------------------------
(* The theorems *)

\* The parts of ConvertInv hold of every call, in any order of buffers.
THEOREM ConvertInvariant == ConvertSpec => []ConvertInv
BY ConvertInitInv, ConvertNextInv, PTL DEF ConvertSpec

\* Every unit written is one of the target form, and none is written past
\* targetEnd, whatever the text, the flag and the sizes of the buffers.
THEOREM ConvertTypes == ConvertSpec => []ConvertTypeOK
<1>1. ConvertInv => ConvertTypeOK
  BY DEF ConvertInv
<1>. QED
  BY <1>1, ConvertInvariant, PTL

\* Every character of what a conversion consumed is in what it wrote, once, in
\* order and well-formed, wherever its calls stopped.
THEOREM ConvertSameText == ConvertSpec => []SameText
<1>1. ConvertInv => SameText
  BY DEF ConvertInv, SourceOK, SameText, Prefix
<1>. QED
  BY <1>1, ConvertInvariant, PTL

LEMMA ResultFollows ==
  ASSUME ConvertInv
  PROVE  ResultTruthful
<1>1. ConvertTypeOK /\ StrictOK /\ ResultOK
  BY DEF ConvertInv
<1>2. /\ src.form \in Forms /\ src.units \in Seq(Units(src.form)) /\ source \in Nat
      /\ Rest \in Seq(Units(src.form)) /\ Len(Rest) = Len(src.units) - source
  BY <1>1, RestIs
<1>3. ASSUME Rest = <<>>, Strict, ~PassesUnseen PROVE SoundButHuge(src.form, src.units)
  <2>1. Len(src.units) \in Nat /\ Len(<<>>) = 0
    BY <1>2, TextIs
  <2>2. source = Len(src.units)
    BY <1>2, <1>3, <2>1
  <2>3. Prefix = src.units
    BY <1>2, <2>2, SubSeqFull DEF Prefix
  <2>. QED
    BY <1>1, <1>3, <2>3 DEF StrictOK
<1>4. ASSUME Rest # <<>>, ~IsScalar(HeadOf(src.form, Rest)[2]) PROVE ~WellFormed(src.form, Rest)
  <2>1. /\ 1 \in DOMAIN CodePoints(src.form, Rest)
        /\ CodePoints(src.form, Rest)[1] = HeadOf(src.form, Rest)[2]
    BY <1>2, <1>4, CodePointsFront
  <2>. QED
    BY <1>4, <2>1 DEF WellFormed
<1>. QED
  BY <1>1, <1>3, <1>4 DEF ResultOK, ResultTruthful

\* What a call returns is the truth about the rest of the text, but for code
\* points above 10FFFF that it has gone past.
THEOREM ConvertResultTruthful == ConvertSpec => []ResultTruthful
<1>1. ConvertInv => ResultTruthful
  BY ResultFollows
<1>. QED
  BY <1>1, ConvertInvariant, PTL
=============================================================================
