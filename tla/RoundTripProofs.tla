---------------------------- MODULE RoundTripProofs ----------------------------
(***************************************************************************)
(* What is saved and loaded again is the same, for all settings, files,    *)
(* sections and keys (RoundTrip of SimpleIni).  SavedText is shown to be a *)
(* file comment and pieces, each a header or an entry with its blank lines *)
(* and its comment (SavedWritten).  While such a file is loaded into an    *)
(* empty object, the table and its file comment write what has been read   *)
(* so far, and the data is the rest of the piece that comes next           *)
(* (ReadingNow): each step of the parser keeps that, and at the end of the *)
(* data it says that saving writes the file.                               *)
(***************************************************************************)
EXTENDS SimpleIniProofs

-----------------------------------------------------------------------------
(* Sequences and sorted entries *)

\* sequences are joined
LEMMA SeqParts ==
  ASSUME NEW S
  PROVE  /\ <<>> \in Seq(S) /\ Len(<<>>) = 0
         /\ \A a \in Seq(S) : a \o <<>> = a /\ <<>> \o a = a
         /\ \A a, b \in Seq(S) : a \o b \in Seq(S) /\ Len(a \o b) = Len(a) + Len(b)
         /\ \A a, b, c \in Seq(S) : (a \o b) \o c = a \o (b \o c)
BY ConcatProperties, ConcatEmptySeq, ConcatAssociative

Regroups(a, b, c) == (a \o b) \o c = a \o (b \o c)

\* joining is associative
LEMMA Associates ==
  ASSUME NEW S, NEW a \in Seq(S), NEW b \in Seq(S), NEW c \in Seq(S)
  PROVE  Regroups(a, b, c)
BY ConcatAssociative DEF Regroups

\* what is left of a sequence behind its first part
LEMMA Cancel ==
  ASSUME NEW S, NEW a \in Seq(S), NEW b \in Seq(S)
  PROVE  /\ SubSeq(a \o b, 1, Len(a)) = a
         /\ SubSeq(a \o b, Len(a) + 1, Len(a \o b)) = b
         /\ \A c \in Seq(S) : a \o b = a \o c => b = c
<1>. DEFINE q == a \o b
            m == Len(a)
            n == Len(b)
<1>1. m \in Nat /\ n \in Nat /\ q \in Seq(S) /\ Len(q) = m + n
  BY ConcatProperties
<1>2. /\ \A i \in 1..m : q[i] = a[i] /\ q[i] \in S /\ a[i] \in S
      /\ \A i \in 1..n : q[m + i] = b[i] /\ b[i] \in S
  <2>1. \A i \in 1..m + n : q[i] = IF i <= m THEN a[i] ELSE b[i - m]
    BY ConcatProperties
  <2>2. \A i \in 1..m : a[i] \in S /\ i \in 1..m + n /\ i <= m
    BY <1>1, ElementOfSeq
  <2>3. \A i \in 1..n : b[i] \in S /\ m + i \in 1..m + n /\ ~(m + i <= m) /\ (m + i) - m = i
    BY <1>1, ElementOfSeq
  <2>. QED
    BY <2>1, <2>2, <2>3
<1>. HIDE DEF q, m, n
<1>3. SubSeq(q, 1, m) = a
  <2>. DEFINE w == SubSeq(q, 1, m)
  <2>1. w \in Seq(S) /\ Len(w) = m /\ \A i \in 1..m : w[i] = q[i]
    <3>1. \A i \in 1..m : q[i] \in S
      BY <1>2
    <3>2. /\ w \in Seq(S) /\ Len(w) = IF 1 <= m THEN m - 1 + 1 ELSE 0
          /\ \A i \in 1..m - 1 + 1 : w[i] = q[1 + i - 1]
      BY <1>1, <3>1, SubSeqProperties
    <3>3. m - 1 + 1 = m /\ \A i \in 1..m : 1 + i - 1 = i
      BY <1>1
    <3>. QED
      BY <1>1, <3>2, <3>3
  <2>. HIDE DEF w
  <2>2. w = [i \in 1..m |-> w[i]] /\ a = [i \in 1..m |-> a[i]]
    BY <2>1 DEF m
  <2>3. \A i \in 1..m : w[i] = a[i]
    BY <1>2, <2>1
  <2>. QED
    BY <2>2, <2>3 DEF w
<1>4. SubSeq(q, m + 1, m + n) = b
  <2>. DEFINE w == SubSeq(q, m + 1, m + n)
  <2>1. w \in Seq(S) /\ Len(w) = n /\ \A i \in 1..n : w[i] = q[m + i]
    <3>1. \A i \in m + 1..m + n : q[i] \in S
      <4>1. \A i \in m + 1..m + n : i - m \in 1..n /\ m + (i - m) = i
        BY <1>1
      <4>. QED
        BY <1>2, <4>1
    <3>2. /\ w \in Seq(S) /\ Len(w) = IF m + 1 <= m + n THEN m + n - (m + 1) + 1 ELSE 0
          /\ \A i \in 1..m + n - (m + 1) + 1 : w[i] = q[m + 1 + i - 1]
      BY <1>1, <3>1, SubSeqProperties
    <3>3. m + n - (m + 1) + 1 = n /\ \A i \in 1..n : m + 1 + i - 1 = m + i
      BY <1>1
    <3>. QED
      BY <1>1, <3>2, <3>3
  <2>. HIDE DEF w
  <2>2. w = [i \in 1..n |-> w[i]] /\ b = [i \in 1..n |-> b[i]]
    BY <2>1 DEF n
  <2>3. \A i \in 1..n : w[i] = b[i]
    BY <1>2, <2>1
  <2>. QED
    BY <2>2, <2>3 DEF w
<1>5. ASSUME NEW c \in Seq(S), q = a \o c PROVE b = c
  <2>1. Len(c) \in Nat /\ Len(a \o c) = m + Len(c)
    BY ConcatProperties DEF m
  <2>2. Len(c) = n
    BY <1>1, <1>5, <2>1
  <2>3. \A i \in 1..n : (a \o c)[m + i] = c[i]
    <3>1. \A i \in 1..m + Len(c) : (a \o c)[i] = IF i <= m THEN a[i] ELSE c[i - m]
      BY ConcatProperties DEF m
    <3>2. \A i \in 1..n : m + i \in 1..m + n /\ ~(m + i <= m) /\ (m + i) - m = i
      BY <1>1
    <3>. QED
      BY <2>2, <3>1, <3>2
  <2>4. b = [i \in 1..n |-> b[i]] /\ c = [i \in 1..n |-> c[i]]
    BY <2>2 DEF n
  <2>5. \A i \in 1..n : b[i] = c[i]
    BY <1>2, <1>5, <2>3
  <2>. QED
    BY <2>4, <2>5
<1>. QED
  BY <1>1, <1>3, <1>4, <1>5 DEF q, m, n

\* one more sequence
LEMMA FlattenMore ==
  ASSUME NEW S, NEW n \in Nat, NEW p \in [1..n -> Seq(S)], NEW q \in [1..n + 1 -> Seq(S)],
         \A i \in 1..n : q[i] = p[i]
  PROVE  FlattenSeq(q) = FlattenSeq(p) \o q[n + 1]
<1>1. p \in Seq(Seq(S)) /\ Len(p) = n /\ q \in Seq(Seq(S)) /\ Len(q) = n + 1
  OBVIOUS
<1>2. PICK f \in [0..n -> Seq(S)] :
        f[0] = <<>> /\ (\A i \in 1..n : f[i] = f[i - 1] \o p[i]) /\ FlattenSeq(p) = f[n]
  BY <1>1, FlattenSteps
<1>3. PICK g \in [0..n + 1 -> Seq(S)] :
        /\ g[0] = <<>> /\ (\A i \in 1..n + 1 : g[i] = g[i - 1] \o q[i])
        /\ FlattenSeq(q) = g[n + 1]
  <2>1. PICK g \in [0..Len(q) -> Seq(S)] :
          /\ g[0] = <<>> /\ (\A i \in 1..Len(q) : g[i] = g[i - 1] \o q[i])
          /\ FlattenSeq(q) = g[Len(q)]
    BY <1>1, FlattenSteps
  <2>2. g \in [0..n + 1 -> Seq(S)]
    BY <1>1
  <2>. QED
    BY <1>1, <2>1, <2>2
<1>. DEFINE P == {i \in Nat : i \in 0..n => f[i] = g[i]}
<1>4. Nat \subseteq P
  <2>1. 0 \in P
    BY <1>2, <1>3
  <2>2. ASSUME NEW i \in Nat, i \in P PROVE i + 1 \in P
    <3>1. SUFFICES ASSUME i + 1 \in 0..n PROVE f[i + 1] = g[i + 1]
      OBVIOUS
    <3>2. i + 1 \in 1..n /\ i + 1 \in 1..n + 1 /\ i \in 0..n /\ (i + 1) - 1 = i
      BY <3>1
    <3>3. f[i] = g[i] /\ p[i + 1] = q[i + 1]
      BY <2>2, <3>2
    <3>4. f[i + 1] = f[i] \o p[i + 1]
      BY <1>2, <3>2
    <3>5. g[i + 1] = g[i] \o q[i + 1]
      BY <1>3, <3>2
    <3>. QED
      BY <3>3, <3>4, <3>5
  <2>. HIDE DEF P
  <2>. QED
    BY <2>1, <2>2, SetInduction
<1>5. f[n] = g[n]
  BY <1>4
<1>6. n + 1 \in 1..n + 1 /\ (n + 1) - 1 = n
  OBVIOUS
<1>7. g[n + 1] = g[n] \o q[n + 1]
  BY <1>3, <1>6
<1>. QED
  BY <1>2, <1>3, <1>5, <1>7

\* the last sequence is longer
LEMMA FlattenLonger ==
  ASSUME NEW S, NEW n \in Nat \ {0}, NEW p \in [1..n -> Seq(S)], NEW q \in [1..n -> Seq(S)],
         NEW y \in Seq(S), \A i \in 1..n - 1 : q[i] = p[i], q[n] = p[n] \o y
  PROVE  FlattenSeq(q) = FlattenSeq(p) \o y
<1>. DEFINE m == n - 1
            r == [i \in 1..m |-> p[i]]
<1>1. m \in Nat /\ m + 1 = n /\ \A i \in 1..m : i \in 1..n
  OBVIOUS
<1>2. r \in [1..m -> Seq(S)] /\ (\A i \in 1..m : p[i] = r[i]) /\ (\A i \in 1..m : q[i] = r[i])
  BY <1>1
<1>3. p \in [1..m + 1 -> Seq(S)] /\ q \in [1..m + 1 -> Seq(S)]
  BY <1>1
<1>. HIDE DEF m, r
<1>4. FlattenSeq(p) = FlattenSeq(r) \o p[m + 1]
  BY <1>1, <1>2, <1>3, FlattenMore
<1>5. FlattenSeq(q) = FlattenSeq(r) \o q[m + 1]
  BY <1>1, <1>2, <1>3, FlattenMore
<1>6. FlattenSeq(r) \in Seq(S)
  <2>1. r \in Seq(Seq(S))
    BY <1>1, <1>2
  <2>. QED
    BY <2>1, FlattenSeqType
<1>7. n \in 1..n /\ p[n] \in Seq(S)
  OBVIOUS
<1>8. (FlattenSeq(r) \o p[n]) \o y = FlattenSeq(r) \o (p[n] \o y)
  <2>1. Regroups(FlattenSeq(r), p[n], y)
    BY <1>6, <1>7, Associates
  <2>. QED
    BY <2>1 DEF Regroups
<1>. QED
  BY <1>1, <1>4, <1>5, <1>8

\* no sequences are joined to none
LEMMA FlattenNone == FlattenSeq(<<>>) = <<>>
BY DEF FlattenSeq

\* entries that come after all others are sorted last
LEMMA SortedMore ==
  ASSUME NEW S, Ordered(S), NEW e, e.nOrder \in Nat, \A f \in S : f.nOrder < e.nOrder,
         Cardinality(S) \in Nat
  PROVE  /\ Ordered(S \cup {e}) /\ Cardinality(S \cup {e}) = Cardinality(S) + 1
         /\ Sorted(S \cup {e})[Cardinality(S) + 1] = e
         /\ \A i \in 1..Cardinality(S) :
              i \in 1..Cardinality(S) + 1 /\ Sorted(S)[i] \in S /\ Sorted(S \cup {e})[i] = Sorted(S)[i]
<1>. DEFINE T == S \cup {e}
            q == Sorted(S)
            n == Cardinality(S)
<1>1. Ordered(T) /\ Sorted(T) = Append(q, e)
  BY SortedAppend
<1>2. q \in Seq(S) /\ Len(q) = n /\ q \in [1..n -> S] /\ n \in Nat
  BY SortedIsSorted
<1>3. Cardinality(T) = n + 1
  <2>1. e \notin S
    BY DEF Ordered
  <2>. QED
    BY <1>2, <2>1, FS_AddElement DEF Ordered
<1>4. Sorted(T)[n + 1] = e /\ \A i \in 1..n : Sorted(T)[i] = q[i]
  <2>1. q \in Seq(T) /\ e \in T
    BY <1>2
  <2>. HIDE DEF q, T
  <2>2. Append(q, e)[n + 1] = e /\ \A i \in 1..n : Append(q, e)[i] = q[i]
    BY <1>2, <2>1, AppendProperties
  <2>. QED
    BY <1>1, <2>2
<1>5. \A i \in 1..n : i \in 1..n + 1
  BY <1>2
<1>. QED
  BY <1>1, <1>2, <1>3, <1>4, <1>5

\* the entry with the latest load order is sorted last
LEMMA RankLast ==
  ASSUME NEW S, Ordered(S), NEW g \in S, \A f \in S : f.nOrder <= g.nOrder
  PROVE  /\ Rank(S, g) = Cardinality(S) /\ Cardinality(S) \in Nat \ {0}
         /\ Sorted(S)[Cardinality(S)] = g
         /\ \A i \in 1..Cardinality(S) - 1 : Sorted(S)[i] # g
<1>1. {f \in S : f.nOrder <= g.nOrder} = S
  OBVIOUS
<1>2. Rank(S, g) = Cardinality(S)
  BY <1>1 DEF Rank
<1>3. Rank(S, g) \in 1..Cardinality(S) /\ Sorted(S)[Rank(S, g)] = g
  BY SortedAt
<1>4. Cardinality(S) \in Nat
  BY FS_CardinalityType DEF Ordered
<1>5. \A i \in 1..Cardinality(S) : Rank(S, Sorted(S)[i]) = i
  BY SortedIsSorted
<1>. QED
  BY <1>2, <1>3, <1>4, <1>5

-----------------------------------------------------------------------------
(* What Save writes of an entry, of the entries of a section, of a section *)
(* and of a table, when there may be many values of a key and values of    *)
(* more than one line                                                      *)

ValueText(k, value, multi) ==
  IF multi /\ IsMultiLineData(value) THEN <<KeyLine(k, Tag("END_OF_TEXT"))>> \o value \o <<EndTag>>
  ELSE <<KeyLine(k, value[1])>> \o Tail(value)
CommentText(c) == IF c = NULL THEN <<>> ELSE <<Blank>> \o c.text
EntryText(e, multi) == CommentText(e.pComment) \o ValueText(e.pItem.text, e.value.text, multi)

OfKey(keys, k) == {e \in keys : e.pItem.text = k}
Firsts(keys) == {First(OfKey(keys, e.pItem.text)) : e \in keys}
Listed(keys, k, many) ==
  LET all == Sorted(OfKey(keys, k))
  IN  IF many \/ all = <<>> THEN all ELSE <<all[1]>>
KeyText(keys, k, many, multi) ==
  FlattenSeq([j \in 1..Len(Listed(keys, k, many)) |-> EntryText(Listed(keys, k, many)[j], multi)])
KeysText(keys, many, multi) ==
  FlattenSeq([i \in 1..Cardinality(Firsts(keys)) |->
    KeyText(keys, Sorted(Firsts(keys))[i].pItem.text, many, multi)])

HeaderText(name) == SavedHeader(name)
SectionText(section, many, multi) ==
  SavedComment(section.pComment) \o (HeaderText(section.pItem.text) \o KeysText(section.keys, many, multi))
Gap(behind) == IF behind THEN <<Blank, Blank>> ELSE <<>>
SectionTexts(fileComment, data, many, multi) ==
  [i \in 1..Cardinality(SectionsOf(data)) |->
    Gap(i > 1 \/ fileComment # NULL) \o SectionText(Sorted(SectionsOf(data))[i], many, multi)]
TableText(fileComment, data, many, multi) ==
  SavedComment(fileComment) \o FlattenSeq(SectionTexts(fileComment, data, many, multi))

GoodKeys(keys) == Ordered(keys) /\ keys \subseteq KeyEntries

\* the entries of a key, and the first ones of the keys, are in load order
LEMMA KeysParts ==
  ASSUME NEW keys, GoodKeys(keys)
  PROVE  /\ \A k : Ordered(OfKey(keys, k)) /\ OfKey(keys, k) \subseteq keys
         /\ Firsts(keys) \subseteq keys /\ Ordered(Firsts(keys))
         /\ \A e \in keys : /\ e \in OfKey(keys, e.pItem.text)
                            /\ First(OfKey(keys, e.pItem.text)) \in Firsts(keys)
                            /\ First(OfKey(keys, e.pItem.text)).pItem.text = e.pItem.text
                            /\ \A f \in OfKey(keys, e.pItem.text) :
                                 First(OfKey(keys, e.pItem.text)).nOrder <= f.nOrder
         /\ \A g \in Firsts(keys) : g = First(OfKey(keys, g.pItem.text))
<1>1. \A k : OfKey(keys, k) \in SUBSET keys
  BY DEF OfKey
<1>2. \A k : Ordered(OfKey(keys, k))
  BY <1>1, OrderedSubset DEF GoodKeys
<1>3. ASSUME NEW e \in keys
      PROVE  /\ e \in OfKey(keys, e.pItem.text)
             /\ First(OfKey(keys, e.pItem.text)) \in keys
             /\ First(OfKey(keys, e.pItem.text)).pItem.text = e.pItem.text
             /\ \A f \in OfKey(keys, e.pItem.text) :
                  First(OfKey(keys, e.pItem.text)).nOrder <= f.nOrder
  <2>. DEFINE S == OfKey(keys, e.pItem.text)
  <2>1. e \in S
    BY DEF OfKey
  <2>2. S # {} /\ \A f \in S : f.nOrder \in Nat
    BY <1>2, <2>1 DEF Ordered
  <2>. HIDE DEF S
  <2>3. First(S) \in S /\ \A f \in S : First(S).nOrder <= f.nOrder
    BY <2>2, FirstIsFirst
  <2>. QED
    BY <2>1, <2>3 DEF S, OfKey
<1>4. Firsts(keys) \in SUBSET keys
  BY <1>3 DEF Firsts
<1>5. Ordered(Firsts(keys))
  BY <1>4, OrderedSubset DEF GoodKeys
<1>6. \A e \in keys : First(OfKey(keys, e.pItem.text)) \in Firsts(keys)
  BY DEF Firsts
<1>7. ASSUME NEW g \in Firsts(keys) PROVE g = First(OfKey(keys, g.pItem.text))
  <2>1. PICK e \in keys : g = First(OfKey(keys, e.pItem.text))
    BY DEF Firsts
  <2>2. g.pItem.text = e.pItem.text
    BY <1>3, <2>1
  <2>. QED
    BY <2>1, <2>2
<1>. QED
  BY <1>1, <1>2, <1>3, <1>4, <1>5, <1>6, <1>7

\* so is that of sequences of lines
LEMMA Regroup ==
  ASSUME NEW a \in Seq(Lines), NEW b \in Seq(Lines), NEW c \in Seq(Lines)
  PROVE  (a \o b) \o c = a \o (b \o c)
BY ConcatAssociative

Cat(a, b) == a \o b
RegroupsAll(t, g, c, h, k) == (t \o (g \o (c \o h))) \o k = t \o (g \o (c \o (h \o k)))

\* of any number of them
LEMMA RegroupAll ==
  ASSUME NEW t \in Seq(Lines), NEW g \in Seq(Lines), NEW c \in Seq(Lines), NEW h \in Seq(Lines),
         NEW k \in Seq(Lines)
  PROVE  RegroupsAll(t, g, c, h, k)
<1>1. \A a, b \in Seq(Lines) : Cat(a, b) \in Seq(Lines)
  BY LinesJoined DEF Cat
<1>2. ASSUME NEW a \in Seq(Lines), NEW b \in Seq(Lines), NEW d \in Seq(Lines)
      PROVE  Cat(Cat(a, b), d) = Cat(a, Cat(b, d))
  <2>1. Regroups(a, b, d)
    BY Associates
  <2>. QED
    BY <2>1 DEF Regroups, Cat
<1>3. Cat(Cat(t, Cat(g, Cat(c, h))), k) = Cat(t, Cat(g, Cat(c, Cat(h, k))))
  BY <1>1, <1>2
<1>. QED
  BY <1>3 DEF Cat, RegroupsAll

\* what is written is a sequence of lines: of a value
LEMMA ValueTextType ==
  ASSUME NEW k \in STRING, NEW value \in Seq(Lines), value # <<>>, NEW multi
  PROVE  ValueText(k, value, multi) \in Seq(Lines)
<1>1. value[1] \in Lines /\ Tail(value) \in Seq(Lines)
  OBVIOUS
<1>2. KeyLine(k, Tag("END_OF_TEXT")) \in Lines /\ KeyLine(k, value[1]) \in Lines /\ EndTag \in Lines
  BY <1>1, LineTypes
<1>3. /\ <<KeyLine(k, Tag("END_OF_TEXT"))>> \in Seq(Lines) /\ <<KeyLine(k, value[1])>> \in Seq(Lines)
      /\ <<EndTag>> \in Seq(Lines)
  BY <1>2, LinesJoined
<1>4. <<KeyLine(k, Tag("END_OF_TEXT"))>> \o value \o <<EndTag>> \in Seq(Lines)
  BY <1>3, LinesJoined
<1>5. <<KeyLine(k, value[1])>> \o Tail(value) \in Seq(Lines)
  BY <1>1, <1>3, LinesJoined
<1>. QED
  BY <1>4, <1>5 DEF ValueText

\* of a comment
LEMMA CommentTextType ==
  ASSUME NEW c \in Comments
  PROVE  CommentText(c) \in Seq(Lines) /\ SavedComment(c) \in Seq(Lines)
<1>1. SavedComment(c) \in Seq(Lines)
  BY DEF Comments, SavedComment
<1>2. CASE c = NULL
  BY <1>1, <1>2 DEF CommentText
<1>3. CASE c # NULL
  <2>1. c.text \in Seq(Lines) /\ <<Blank>> \in Seq(Lines)
    BY <1>3, LineTypes DEF Comments
  <2>. QED
    BY <1>1, <1>3, <2>1 DEF CommentText
<1>. QED
  BY <1>2, <1>3

\* of an entry
LEMMA EntryTextType ==
  ASSUME NEW e \in KeyEntries, NEW multi
  PROVE  EntryText(e, multi) \in Seq(Lines)
<1>1. /\ e.pItem.text \in STRING /\ e.value.text \in Seq(Lines) /\ e.value.text # <<>>
      /\ e.pComment \in Comments
  BY DEF KeyEntries, Names, Values
<1>2. ValueText(e.pItem.text, e.value.text, multi) \in Seq(Lines)
  BY <1>1, ValueTextType
<1>3. CommentText(e.pComment) \in Seq(Lines)
  BY <1>1, CommentTextType
<1>. QED
  BY <1>2, <1>3, LinesJoined DEF EntryText

\* of the entries of a key
LEMMA KeyTextType ==
  ASSUME NEW keys, GoodKeys(keys), NEW k, NEW many, NEW multi
  PROVE  /\ Listed(keys, k, many) \in Seq(KeyEntries)
         /\ KeyText(keys, k, many, multi) \in Seq(Lines)
<1>. DEFINE listed == Listed(keys, k, many)
            texts == [j \in 1..Len(listed) |-> EntryText(listed[j], multi)]
<1>1. Ordered(OfKey(keys, k)) /\ OfKey(keys, k) \subseteq KeyEntries
  BY KeysParts DEF GoodKeys
<1>2. Sorted(OfKey(keys, k)) \in Seq(KeyEntries)
  BY <1>1, SortedIsSorted
<1>3. listed \in Seq(KeyEntries)
  BY <1>2 DEF Listed
<1>. HIDE DEF listed
<1>4. texts \in Seq(Seq(Lines))
  BY <1>3, EntryTextType
<1>5. FlattenSeq(texts) \in Seq(Lines)
  BY <1>4, FlattenSeqType
<1>. QED
  BY <1>3, <1>5 DEF KeyText, listed

\* of the entries of a section
LEMMA KeysTextType ==
  ASSUME NEW keys, GoodKeys(keys), NEW many, NEW multi
  PROVE  KeysText(keys, many, multi) \in Seq(Lines)
<1>. DEFINE n == Cardinality(Firsts(keys))
            texts == [i \in 1..n |-> KeyText(keys, Sorted(Firsts(keys))[i].pItem.text, many, multi)]
<1>1. n \in Nat
  BY KeysParts, FS_CardinalityType DEF Ordered
<1>. HIDE DEF n
<1>2. texts \in Seq(Seq(Lines))
  BY <1>1, KeyTextType
<1>3. FlattenSeq(texts) \in Seq(Lines)
  BY <1>2, FlattenSeqType
<1>. QED
  BY <1>3 DEF KeysText, n

\* of a section
LEMMA SectionTextType ==
  ASSUME NEW section \in SectionEntries, GoodKeys(section.keys), NEW many, NEW multi
  PROVE  /\ SavedComment(section.pComment) \in Seq(Lines) /\ HeaderText(section.pItem.text) \in Seq(Lines)
         /\ SectionText(section, many, multi) \in Seq(Lines)
<1>1. section.pComment \in Comments /\ section.pItem.text \in Titles
  BY DEF SectionEntries, SectionNames
<1>2. SavedComment(section.pComment) \in Seq(Lines)
  BY <1>1, CommentTextType
<1>3. HeaderText(section.pItem.text) \in Seq(Lines)
  BY <1>1, SavedHeaderType DEF HeaderText
<1>4. KeysText(section.keys, many, multi) \in Seq(Lines)
  BY KeysTextType
<1>. QED
  BY <1>2, <1>3, <1>4, LinesJoined DEF SectionText

\* and the blank lines before a section
LEMMA GapType == \A behind : Gap(behind) \in Seq(Lines)
BY LineTypes DEF Gap

\* the sections of a table, and their names, are in load order
LEMMA TableParts ==
  ASSUME NEW data, NEW max, TableOK(data, max)
  PROVE  /\ \A s \in DOMAIN data : /\ data[s] \in SectionEntries /\ GoodKeys(data[s].keys)
                                   /\ data[s].pItem.text = s
         /\ SectionsOf(data) \subseteq SectionEntries /\ Ordered(SectionsOf(data))
         /\ \A section \in SectionsOf(data) :
              /\ GoodKeys(section.keys) /\ section.pItem.text \in DOMAIN data
              /\ section = data[section.pItem.text]
<1>1. ASSUME NEW s \in DOMAIN data
      PROVE  data[s] \in SectionEntries /\ GoodKeys(data[s].keys) /\ data[s].pItem.text = s
  <2>1. data[s] \in SectionEntries
    BY DEF TableOK
  <2>2. Ordered(data[s].keys) /\ data[s].pItem.text = s
    BY TableSections
  <2>. QED
    BY <2>1, <2>2 DEF SectionEntries, GoodKeys
<1>2. Ordered(SectionsOf(data))
  BY TableSections
<1>3. ASSUME NEW section \in SectionsOf(data)
      PROVE  /\ section \in SectionEntries /\ GoodKeys(section.keys)
             /\ section.pItem.text \in DOMAIN data /\ section = data[section.pItem.text]
  BY <1>1 DEF SectionsOf
<1>. QED
  BY <1>1, <1>2, <1>3

\* the sections of a table are written as sequences of lines
LEMMA SectionsTextType ==
  ASSUME NEW data, NEW max, TableOK(data, max), NEW many, NEW multi, NEW fileComment \in Comments
  PROVE  /\ Cardinality(SectionsOf(data)) \in Nat
         /\ SectionTexts(fileComment, data, many, multi)
              \in [1..Cardinality(SectionsOf(data)) -> Seq(Lines)]
         /\ FlattenSeq(SectionTexts(fileComment, data, many, multi)) \in Seq(Lines)
         /\ TableText(fileComment, data, many, multi) \in Seq(Lines)
<1>. DEFINE S == SectionsOf(data)
            n == Cardinality(S)
            texts == SectionTexts(fileComment, data, many, multi)
<1>1. n \in Nat /\ \A i \in 1..n : Sorted(S)[i] \in S
  BY TableParts, SortedIsSorted
<1>2. ASSUME NEW i \in 1..n PROVE texts[i] \in Seq(Lines)
  <2>1. SectionText(Sorted(S)[i], many, multi) \in Seq(Lines)
    BY <1>1, TableParts, SectionTextType
  <2>. QED
    BY <2>1, GapType, LinesJoined DEF SectionTexts
<1>3. texts \in [1..n -> Seq(Lines)]
  BY <1>2 DEF SectionTexts
<1>4. FlattenSeq(texts) \in Seq(Lines)
  <2>1. n \in Nat
    BY <1>1
  <2>. HIDE DEF n, texts
  <2>2. texts \in Seq(Seq(Lines))
    BY <1>3, <2>1
  <2>. QED
    BY <2>2, FlattenSeqType
<1>. QED
  BY <1>1, <1>3, <1>4, CommentTextType, LinesJoined DEF TableText

\* SavedKeys writes the entries of a section
LEMMA SavedKeysIs ==
  ASSUME NEW s \in DOMAIN m_data
  PROVE  SavedKeys(s) = KeysText(m_data[s].keys, m_bAllowMultiKey, m_bAllowMultiLine)
<1>. DEFINE keys == m_data[s].keys
            many == m_bAllowMultiKey
            multi == m_bAllowMultiLine
<1>1. \A k : SameKey(s, k) = OfKey(keys, k)
  BY DEF SameKey, OfKey, Entries
<1>2. GetAllKeys(s) = Firsts(keys)
  BY <1>1 DEF GetAllKeys, Firsts, Entries
<1>3. \A k : GetAllValues(s, k) = Listed(keys, k, many)
  BY <1>1 DEF GetAllValues, Listed
<1>4. \A e : SavedEntry(e) = EntryText(e, multi)
  BY DEF SavedEntry, EntryText, SavedValue, ValueText, CommentText
<1>5. ASSUME NEW k
      PROVE  FlattenSeq([j \in 1..Len(GetAllValues(s, k)) |-> SavedEntry(GetAllValues(s, k)[j])])
               = KeyText(keys, k, many, multi)
  <2>. HIDE DEF keys, many, multi
  <2>1. [j \in 1..Len(GetAllValues(s, k)) |-> SavedEntry(GetAllValues(s, k)[j])]
          = [j \in 1..Len(Listed(keys, k, many)) |-> EntryText(Listed(keys, k, many)[j], multi)]
    BY <1>3, <1>4
  <2>. QED
    BY <2>1 DEF KeyText
<1>. DEFINE old(k) == FlattenSeq([j \in 1..Len(GetAllValues(s, k)) |-> SavedEntry(GetAllValues(s, k)[j])])
            new(k) == KeyText(keys, k, many, multi)
            first(i) == Sorted(Firsts(keys))[i].pItem.text
            n == Cardinality(Firsts(keys))
<1>6. \A k : old(k) = new(k)
  BY <1>5
<1>7. SavedKeys(s) = FlattenSeq([i \in 1..n |-> old(first(i))])
  BY <1>2 DEF SavedKeys
<1>8. KeysText(keys, many, multi) = FlattenSeq([i \in 1..n |-> new(first(i))])
  BY DEF KeysText
<1>. HIDE DEF old, new, first, n
<1>9. [i \in 1..n |-> old(first(i))] = [i \in 1..n |-> new(first(i))]
  BY <1>6
<1>. QED
  BY <1>7, <1>8, <1>9

\* Save writes the table
LEMMA SavedTextIs ==
  IniTypeOK => SavedText = TableText(m_pFileComment, m_data, m_bAllowMultiKey, m_bAllowMultiLine)
<1>. SUFFICES ASSUME IniTypeOK
              PROVE  SavedText = TableText(m_pFileComment, m_data, m_bAllowMultiKey, m_bAllowMultiLine)
  OBVIOUS
<1>. DEFINE q == GetAllSections
            n == Cardinality(SectionsOf(m_data))
            gap(i) == IF i > 1 \/ m_pFileComment # NULL THEN <<Blank, Blank>> ELSE <<>>
            old(i) == gap(i) \o SavedComment(q[i].pComment)
                      \o SavedHeader(q[i].pItem.text)
                      \o SavedKeys(q[i].pItem.text)
            new(i) == Gap(i > 1 \/ m_pFileComment # NULL)
                      \o SectionText(q[i], m_bAllowMultiKey, m_bAllowMultiLine)
<1>1. TableOK(m_data, m_nOrder)
  BY TypeParts
<1>2. q = Sorted(SectionsOf(m_data))
  BY DEF GetAllSections, SectionsOf
<1>3. n \in Nat /\ Len(q) = n /\ \A i \in 1..n : q[i] \in SectionsOf(m_data)
  BY <1>1, <1>2, TableParts, SortedIsSorted
<1>4. ASSUME NEW i \in 1..n PROVE old(i) = new(i)
  <2>. DEFINE section == q[i]
              g == gap(i)
              c == SavedComment(section.pComment)
              h == HeaderText(section.pItem.text)
              k == KeysText(section.keys, m_bAllowMultiKey, m_bAllowMultiLine)
  <2>1. section \in SectionEntries /\ GoodKeys(section.keys) /\ section.pItem.text \in DOMAIN m_data
        /\ section = m_data[section.pItem.text]
    BY <1>1, <1>3, TableParts
  <2>2. SavedKeys(section.pItem.text) = k
    BY <2>1, SavedKeysIs
  <2>3. c \in Seq(Lines) /\ h \in Seq(Lines) /\ k \in Seq(Lines)
    BY <2>1, SectionTextType, KeysTextType
  <2>4. g \in Seq(Lines) /\ g = Gap(i > 1 \/ m_pFileComment # NULL)
    BY GapType DEF Gap
  <2>5. old(i) = g \o c \o h \o k
    BY <2>2 DEF HeaderText
  <2>6. new(i) = g \o (c \o (h \o k))
    BY <2>4 DEF SectionText
  <2>. HIDE DEF g, c, h, k
  <2>7. g \o c \o h \o k = g \o (c \o (h \o k))
    BY <2>3, <2>4
  <2>8. old(i) = new(i)
    BY <2>5, <2>6, <2>7, Zenon
  <2>. QED
    BY <2>8
<1>5. SavedText = SavedComment(m_pFileComment) \o FlattenSeq([i \in 1..Len(q) |-> old(i)])
  BY DEF SavedText
<1>6. TableText(m_pFileComment, m_data, m_bAllowMultiKey, m_bAllowMultiLine)
        = SavedComment(m_pFileComment) \o FlattenSeq([i \in 1..n |-> new(i)])
  BY <1>2 DEF TableText, SectionTexts
<1>. HIDE DEF old, new, q, n
<1>7. [i \in 1..Len(q) |-> old(i)] = [i \in 1..n |-> new(i)]
  BY <1>3, <1>4
<1>. QED
  BY <1>5, <1>6, <1>7

-----------------------------------------------------------------------------
(* An entry or a section that is added at the end of a table is added at   *)
(* the end of its text                                                     *)

\* the text of the only entry of a key is that of the key
LEMMA SingleText ==
  ASSUME NEW e \in KeyEntries, NEW keys, NEW k, OfKey(keys, k) = {e}, NEW many, NEW multi
  PROVE  KeyText(keys, k, many, multi) = EntryText(e, multi)
<1>. DEFINE texts == [j \in 1..1 |-> EntryText(e, multi)]
            none == [j \in 1..0 |-> EntryText(e, multi)]
<1>1. e.nOrder \in Nat
  BY DEF KeyEntries
<1>2. Sorted({e}) = <<e>>
  <2>1. Sorted({} \cup {e}) = Append(Sorted({}), e)
    BY <1>1, SortedEmpty, SortedAppend
  <2>2. {} \cup {e} = {e} /\ Append(<<>>, e) = <<e>>
    OBVIOUS
  <2>3. Sorted({e}) = Append(Sorted({}), e)
    BY <2>1, <2>2
  <2>. QED
    BY <2>2, <2>3, SortedEmpty
<1>3. Listed(keys, k, many) = <<e>>
  <2>1. Listed(keys, k, many) = IF many \/ <<e>> = <<>> THEN <<e>> ELSE << <<e>>[1] >>
    BY <1>2 DEF Listed
  <2>2. <<e>>[1] = e
    OBVIOUS
  <2>. QED
    BY <2>1, <2>2
<1>4. KeyText(keys, k, many, multi) = FlattenSeq(texts)
  <2>1. \A j \in 1..1 : <<e>>[j] = e
    OBVIOUS
  <2>2. Len(<<e>>) = 1
    OBVIOUS
  <2>3. [j \in 1..Len(<<e>>) |-> EntryText(<<e>>[j], multi)] = texts
    BY <2>1, <2>2
  <2>. QED
    BY <1>3, <2>3 DEF KeyText
<1>5. EntryText(e, multi) \in Seq(Lines)
  BY EntryTextType
<1>6. none = <<>> /\ none \in [1..0 -> Seq(Lines)] /\ texts \in [1..0 + 1 -> Seq(Lines)]
  BY <1>5
<1>7. texts[0 + 1] = EntryText(e, multi) /\ \A i \in 1..0 : texts[i] = none[i]
  OBVIOUS
<1>. HIDE DEF texts, none
<1>8. FlattenSeq(texts) = FlattenSeq(none) \o texts[0 + 1]
  BY <1>6, <1>7, FlattenMore
<1>. QED
  BY <1>4, <1>5, <1>6, <1>7, <1>8, FlattenNone, ConcatEmptySeq

KeysAppended(keys, e, many, multi) ==
  KeysText(keys \cup {e}, many, multi) = KeysText(keys, many, multi) \o EntryText(e, multi)

\* a key that was not there yet
LEMMA NewKeyText ==
  ASSUME NEW keys, GoodKeys(keys), NEW e \in KeyEntries, \A f \in keys : f.nOrder < e.nOrder,
         \A f \in keys : f.pItem.text # e.pItem.text, NEW many, NEW multi
  PROVE  KeysAppended(keys, e, many, multi) /\ Firsts(keys \cup {e}) = Firsts(keys) \cup {e}
<1>. DEFINE more == keys \cup {e}
            key == e.pItem.text
            S == Firsts(keys)
            n == Cardinality(S)
            p == [i \in 1..n |-> KeyText(keys, Sorted(S)[i].pItem.text, many, multi)]
            q == [i \in 1..n + 1 |-> KeyText(more, Sorted(S \cup {e})[i].pItem.text, many, multi)]
<1>1. e.nOrder \in Nat
  BY DEF KeyEntries
<1>2. GoodKeys(more)
  <2>1. Ordered(more)
    BY <1>1, SortedAppend DEF GoodKeys
  <2>. QED
    BY <2>1 DEF GoodKeys
<1>3. OfKey(more, key) = {e}
  BY DEF OfKey
<1>4. \A f \in keys : OfKey(more, f.pItem.text) = OfKey(keys, f.pItem.text)
  BY DEF OfKey
<1>5. First({e}) = e
  BY <1>1 DEF First
<1>6. Firsts(more) = S \cup {e}
  <2>1. Firsts(more) = {First(OfKey(more, f.pItem.text)) : f \in keys} \cup {First(OfKey(more, key))}
    BY DEF Firsts
  <2>2. {First(OfKey(more, f.pItem.text)) : f \in keys} = {First(OfKey(keys, f.pItem.text)) : f \in keys}
    BY <1>4
  <2>. QED
    BY <1>3, <1>5, <2>1, <2>2 DEF Firsts
<1>7. S \subseteq keys /\ Ordered(S)
  BY KeysParts
<1>8. /\ n \in Nat /\ Cardinality(S \cup {e}) = n + 1 /\ Sorted(S \cup {e})[n + 1] = e
      /\ \A i \in 1..n : i \in 1..n + 1 /\ Sorted(S)[i] \in S /\ Sorted(S \cup {e})[i] = Sorted(S)[i]
  <2>1. (\A f \in S : f.nOrder < e.nOrder) /\ Cardinality(S) \in Nat
    BY <1>7, FS_CardinalityType DEF Ordered
  <2>. HIDE DEF S
  <2>. QED
    BY <1>1, <1>7, <2>1, SortedMore
<1>9. KeysText(keys, many, multi) = FlattenSeq(p)
  BY DEF KeysText
<1>10. KeysText(more, many, multi) = FlattenSeq(q)
  BY <1>6, <1>8 DEF KeysText
<1>. HIDE DEF more, S, n
<1>11. p \in [1..n -> Seq(Lines)] /\ q \in [1..n + 1 -> Seq(Lines)]
  BY <1>2, KeyTextType
<1>12. ASSUME NEW i \in 1..n PROVE q[i] = p[i]
  <2>. DEFINE k == Sorted(S)[i].pItem.text
  <2>1. OfKey(more, k) = OfKey(keys, k)
    BY <1>4, <1>7, <1>8
  <2>2. q[i] = KeyText(more, k, many, multi) /\ p[i] = KeyText(keys, k, many, multi)
    BY <1>8
  <2>. HIDE DEF k
  <2>3. Listed(more, k, many) = Listed(keys, k, many)
    BY <2>1 DEF Listed
  <2>4. KeyText(more, k, many, multi) = KeyText(keys, k, many, multi)
    BY <2>3 DEF KeyText
  <2>. QED
    BY <2>2, <2>4
<1>13. q[n + 1] = EntryText(e, multi)
  <2>1. q[n + 1] = KeyText(more, key, many, multi)
    BY <1>8
  <2>. QED
    BY <1>3, <2>1, SingleText
<1>. HIDE DEF p, q
<1>14. FlattenSeq(q) = FlattenSeq(p) \o q[n + 1]
  BY <1>8, <1>11, <1>12, FlattenMore
<1>. QED
  BY <1>6, <1>9, <1>10, <1>13, <1>14 DEF KeysAppended, more, S

\* another value of the key that was added last
LEMMA SameKeyText ==
  ASSUME NEW keys, GoodKeys(keys), NEW e \in KeyEntries, \A f \in keys : f.nOrder < e.nOrder,
         NEW g \in Firsts(keys), \A h \in Firsts(keys) : h.nOrder <= g.nOrder,
         e.pItem.text = g.pItem.text, NEW multi
  PROVE  KeysAppended(keys, e, TRUE, multi) /\ Firsts(keys \cup {e}) = Firsts(keys)
<1>. DEFINE more == keys \cup {e}
            key == e.pItem.text
            S == Firsts(keys)
            n == Cardinality(S)
            p == [i \in 1..n |-> KeyText(keys, Sorted(S)[i].pItem.text, TRUE, multi)]
            q == [i \in 1..n |-> KeyText(more, Sorted(S)[i].pItem.text, TRUE, multi)]
<1>1. e.nOrder \in Nat
  BY DEF KeyEntries
<1>2. GoodKeys(more)
  <2>1. Ordered(more)
    BY <1>1, SortedAppend DEF GoodKeys
  <2>. QED
    BY <2>1 DEF GoodKeys
<1>3. S \subseteq keys /\ Ordered(S) /\ g \in keys
  BY KeysParts
<1>4. /\ OfKey(more, key) = OfKey(keys, key) \cup {e}
      /\ \A k : k # key => OfKey(more, k) = OfKey(keys, k)
      /\ OfKey(keys, key) \subseteq keys /\ Ordered(OfKey(keys, key)) /\ g \in OfKey(keys, key)
  <2>1. OfKey(more, key) = OfKey(keys, key) \cup {e} /\ g \in OfKey(keys, key)
    BY <1>3 DEF OfKey
  <2>2. \A k : k # key => OfKey(more, k) = OfKey(keys, k)
    BY DEF OfKey
  <2>3. OfKey(keys, key) \subseteq keys /\ Ordered(OfKey(keys, key))
    BY KeysParts
  <2>. QED
    BY <2>1, <2>2, <2>3
<1>5. First(OfKey(more, key)) = g
  <2>1. g = First(OfKey(keys, key))
    BY KeysParts
  <2>2. \A f \in OfKey(keys, key) : g.nOrder <= f.nOrder
    BY <1>3, KeysParts
  <2>3. \A f \in OfKey(more, key) : g.nOrder <= f.nOrder
    <3>1. g.nOrder < e.nOrder /\ g.nOrder \in Nat
      BY <1>3 DEF GoodKeys, Ordered
    <3>2. g.nOrder <= e.nOrder
      BY <1>1, <3>1
    <3>. HIDE DEF key, more
    <3>. QED
      BY <1>4, <2>2, <3>2
  <2>4. \A f \in OfKey(more, key) : f.nOrder \in Nat
    BY <1>1, <1>4 DEF Ordered
  <2>5. First(OfKey(more, key)) \in OfKey(more, key)
        /\ \A f \in OfKey(more, key) : First(OfKey(more, key)).nOrder <= f.nOrder
    BY <1>4, <2>4, FirstIsFirst
  <2>6. First(OfKey(more, key)).nOrder = g.nOrder
    <3>. DEFINE first == First(OfKey(more, key))
    <3>1. first.nOrder \in Nat /\ g.nOrder <= first.nOrder
      BY <2>3, <2>4, <2>5
    <3>2. first.nOrder <= g.nOrder /\ g.nOrder \in Nat
      BY <1>4, <2>4, <2>5
    <3>. HIDE DEF first
    <3>. QED
      BY <3>1, <3>2 DEF first
  <2>7. Ordered(OfKey(more, key)) /\ g \in OfKey(more, key)
    BY <1>2, <1>4, KeysParts
  <2>. QED
    BY <2>5, <2>6, <2>7 DEF Ordered
<1>6. Firsts(more) = S
  <2>1. ASSUME NEW f \in more PROVE First(OfKey(more, f.pItem.text)) \in S
    <3>1. CASE f.pItem.text = key
      BY <1>5, <3>1
    <3>2. CASE f.pItem.text # key
      <4>1. f \in keys
        BY <3>2
      <4>2. OfKey(more, f.pItem.text) = OfKey(keys, f.pItem.text)
        BY <1>4, <3>2
      <4>. QED
        BY <4>1, <4>2 DEF Firsts
    <3>. QED
      BY <3>1, <3>2
  <2>2. ASSUME NEW f \in S PROVE f \in Firsts(more)
    <3>0. f \in keys /\ f \in more
      BY <1>3
    <3>1. f = First(OfKey(keys, f.pItem.text))
      BY KeysParts
    <3>2. f = First(OfKey(more, f.pItem.text))
      <4>1. CASE f.pItem.text = key
        <5>1. f = g
          BY <3>1, <4>1, KeysParts
        <5>. QED
          BY <1>5, <4>1, <5>1
      <4>2. CASE f.pItem.text # key
        BY <1>4, <3>1, <4>2
      <4>. QED
        BY <4>1, <4>2
    <3>. QED
      BY <3>0, <3>2 DEF Firsts
  <2>. QED
    BY <2>1, <2>2 DEF Firsts
<1>7. /\ n \in Nat \ {0} /\ Sorted(S)[n] = g /\ \A i \in 1..n - 1 : Sorted(S)[i] # g
      /\ \A i \in 1..n : Sorted(S)[i] \in S
  BY <1>3, RankLast, SortedIsSorted
<1>8. KeysText(keys, TRUE, multi) = FlattenSeq(p)
  BY DEF KeysText
<1>9. KeysText(more, TRUE, multi) = FlattenSeq(q)
  BY <1>6 DEF KeysText
<1>. HIDE DEF S, n
<1>10. p \in [1..n -> Seq(Lines)] /\ q \in [1..n -> Seq(Lines)]
  BY <1>2, KeyTextType
<1>11. ASSUME NEW i \in 1..n - 1 PROVE q[i] = p[i]
  <2>. DEFINE k == Sorted(S)[i].pItem.text
  <2>0. i \in 1..n
    BY <1>7
  <2>1. k # key
    <3>1. Sorted(S)[i] \in S /\ Sorted(S)[i] # g
      BY <1>7, <2>0
    <3>2. Sorted(S)[i] = First(OfKey(keys, k)) /\ g = First(OfKey(keys, key))
      BY <3>1, KeysParts DEF S
    <3>. QED
      BY <3>1, <3>2
  <2>2. q[i] = KeyText(more, k, TRUE, multi) /\ p[i] = KeyText(keys, k, TRUE, multi)
    BY <2>0
  <2>. HIDE DEF k
  <2>3. Listed(more, k, TRUE) = Listed(keys, k, TRUE)
    BY <1>4, <2>1 DEF Listed
  <2>4. KeyText(more, k, TRUE, multi) = KeyText(keys, k, TRUE, multi)
    BY <2>3 DEF KeyText
  <2>. QED
    BY <2>2, <2>4
<1>12. q[n] = p[n] \o EntryText(e, multi)
  <2>. DEFINE U == OfKey(keys, key)
              m == Cardinality(U)
              x == [j \in 1..m |-> EntryText(Sorted(U)[j], multi)]
              y == [j \in 1..m + 1 |-> EntryText(Sorted(U \cup {e})[j], multi)]
  <2>1. n \in 1..n
    BY <1>7
  <2>2. q[n] = KeyText(more, key, TRUE, multi) /\ p[n] = KeyText(keys, key, TRUE, multi)
    BY <1>7, <2>1
  <2>3. \A f \in U : f.nOrder < e.nOrder
    BY <1>4
  <2>4. /\ m \in Nat /\ Cardinality(U \cup {e}) = m + 1 /\ Sorted(U \cup {e})[m + 1] = e
        /\ Ordered(U \cup {e})
        /\ \A i \in 1..m : i \in 1..m + 1 /\ Sorted(U)[i] \in U /\ Sorted(U \cup {e})[i] = Sorted(U)[i]
    <3>1. Ordered(U) /\ Cardinality(U) \in Nat
      BY <1>4, FS_CardinalityType DEF Ordered
    <3>2. e.nOrder \in Nat /\ \A f \in U : f.nOrder < e.nOrder
      BY <1>1, <2>3
    <3>. HIDE DEF U
    <3>3. /\ Ordered(U \cup {e}) /\ Cardinality(U \cup {e}) = Cardinality(U) + 1
          /\ Sorted(U \cup {e})[Cardinality(U) + 1] = e
          /\ \A i \in 1..Cardinality(U) :
               i \in 1..Cardinality(U) + 1 /\ Sorted(U)[i] \in U /\ Sorted(U \cup {e})[i] = Sorted(U)[i]
      <4>1. Ordered(U \cup {e}) /\ Cardinality(U \cup {e}) = Cardinality(U) + 1
        BY <3>1, <3>2, SortedMore
      <4>2. Sorted(U \cup {e})[Cardinality(U) + 1] = e
        BY <3>1, <3>2, SortedMore
      <4>3. \A i \in 1..Cardinality(U) : i \in 1..Cardinality(U) + 1 /\ Sorted(U)[i] \in U
        BY <3>1, <3>2, SortedIsSorted
      <4>4. \A i \in 1..Cardinality(U) : Sorted(U \cup {e})[i] = Sorted(U)[i]
        BY <3>1, <3>2, SortedMore
      <4>. QED
        BY <4>1, <4>2, <4>3, <4>4
    <3>. QED
      BY <3>1, <3>3
  <2>5. Len(Sorted(U)) = m /\ Len(Sorted(U \cup {e})) = m + 1
    BY <1>4, <2>4, SortedIsSorted
  <2>6. KeyText(keys, key, TRUE, multi) = FlattenSeq(x)
    BY <2>5 DEF KeyText, Listed
  <2>7. KeyText(more, key, TRUE, multi) = FlattenSeq(y)
    BY <1>4, <2>5 DEF KeyText, Listed
  <2>8. U \subseteq KeyEntries /\ U \cup {e} \subseteq KeyEntries
    BY <1>4 DEF GoodKeys
  <2>9. \A j \in 1..m + 1 : Sorted(U \cup {e})[j] \in U \cup {e}
    BY <2>4, SortedIsSorted
  <2>. HIDE DEF U, m
  <2>10. x \in [1..m -> Seq(Lines)] /\ y \in [1..m + 1 -> Seq(Lines)]
    BY <2>4, <2>8, <2>9, EntryTextType
  <2>11. y[m + 1] = EntryText(e, multi) /\ \A i \in 1..m : y[i] = x[i]
    <3>1. m + 1 \in 1..m + 1
      BY <2>4
    <3>2. y[m + 1] = EntryText(e, multi)
      BY <2>4, <3>1
    <3>3. \A i \in 1..m : y[i] = x[i]
      BY <2>4
    <3>. QED
      BY <3>2, <3>3
  <2>. HIDE DEF x, y
  <2>12. FlattenSeq(y) = FlattenSeq(x) \o y[m + 1]
    BY <2>4, <2>10, <2>11, FlattenMore
  <2>. QED
    BY <2>2, <2>6, <2>7, <2>11, <2>12
<1>13. EntryText(e, multi) \in Seq(Lines)
  BY EntryTextType
<1>. HIDE DEF p, q
<1>14. FlattenSeq(q) = FlattenSeq(p) \o EntryText(e, multi)
  <2>. DEFINE y == EntryText(e, multi)
  <2>1. y \in Seq(Lines) /\ q[n] = p[n] \o y
    BY <1>12, <1>13
  <2>. HIDE DEF y
  <2>2. n \in Nat \ {0} /\ \A i \in 1..n - 1 : q[i] = p[i]
    BY <1>7, <1>11
  <2>3. FlattenSeq(q) = FlattenSeq(p) \o y
    BY <1>10, <2>1, <2>2, FlattenLonger
  <2>. QED
    BY <2>3 DEF y
<1>. QED
  BY <1>6, <1>8, <1>9, <1>14 DEF KeysAppended, more, S

\* the sections of a table with one that is new or replaced
LEMMA SectionsWith ==
  ASSUME TableOK(m_data, m_nOrder), NEW s, NEW section
  PROVE  /\ s \in DOMAIN m_data =>
              SectionsOf(WithSection(s, section)) = (SectionsOf(m_data) \ {m_data[s]}) \cup {section}
         /\ s \notin DOMAIN m_data =>
              SectionsOf(WithSection(s, section)) = SectionsOf(m_data) \cup {section}
<1>. DEFINE data == WithSection(s, section)
            S == SectionsOf(m_data)
            T == SectionsOf(data)
<1>1. /\ DOMAIN data = DOMAIN m_data \cup {s} /\ data[s] = section
      /\ \A t \in DOMAIN m_data \ {s} : data[t] = m_data[t]
  BY DEF WithSection
<1>2. \A t \in DOMAIN m_data : m_data[t].pItem.text = t
  BY TableSections
<1>. HIDE DEF data
<1>3. ASSUME s \in DOMAIN m_data PROVE T = (S \ {m_data[s]}) \cup {section}
  <2>1. ASSUME NEW x \in T PROVE x \in (S \ {m_data[s]}) \cup {section}
    <3>1. PICK t \in DOMAIN data : x = data[t]
      BY DEF SectionsOf
    <3>2. CASE t = s
      BY <1>1, <3>1, <3>2
    <3>3. CASE t # s
      <4>1. t \in DOMAIN m_data /\ x = m_data[t]
        BY <1>1, <3>1, <3>3
      <4>2. x # m_data[s]
        BY <1>2, <1>3, <3>3, <4>1
      <4>. QED
        BY <4>1, <4>2 DEF SectionsOf
    <3>. QED
      BY <3>2, <3>3
  <2>2. ASSUME NEW x \in S, x # m_data[s] PROVE x \in T
    <3>1. PICK t \in DOMAIN m_data : x = m_data[t]
      BY DEF SectionsOf
    <3>2. data[t] = x /\ t \in DOMAIN data
      BY <1>1, <2>2, <3>1
    <3>. QED
      BY <3>2 DEF SectionsOf
  <2>3. section \in T
    BY <1>1 DEF SectionsOf
  <2>. QED
    BY <2>1, <2>2, <2>3
<1>4. ASSUME s \notin DOMAIN m_data PROVE T = S \cup {section}
  BY <1>1, <1>4 DEF SectionsOf
<1>. QED
  BY <1>3, <1>4 DEF data

NewText(c, section, many, multi) ==
  Gap(DOMAIN m_data # {} \/ c # NULL) \o SectionText(section, many, multi)
SectionLonger(old, section, y, many, multi) ==
  SectionText(section, many, multi) = SectionText(old, many, multi) \o y
TableLonger(c, s, section, y, many, multi) ==
  TableText(c, WithSection(s, section), many, multi) = TableText(c, m_data, many, multi) \o y

\* a section that was not there yet
LEMMA NewSectionText ==
  ASSUME TableOK(m_data, m_nOrder), NEW m \in Nat, m_nOrder <= m,
         NEW s, s \notin DOMAIN m_data, NEW section, SectionOK(s, section, m),
         section.nOrder > m_nOrder, NEW c \in Comments, NEW many, NEW multi
  PROVE  TableLonger(c, s, section, NewText(c, section, many, multi), many, multi)
<1>. DEFINE data == WithSection(s, section)
            y == Gap(DOMAIN m_data # {} \/ c # NULL) \o SectionText(section, many, multi)
            S == SectionsOf(m_data)
            n == Cardinality(S)
            p == SectionTexts(c, m_data, many, multi)
            q == SectionTexts(c, data, many, multi)
<1>1. TableOK(data, m)
  BY WithSectionOK
<1>2. SectionsOf(data) = S \cup {section}
  BY SectionsWith
<1>3. /\ n \in Nat /\ p \in [1..n -> Seq(Lines)] /\ FlattenSeq(p) \in Seq(Lines)
      /\ q \in [1..Cardinality(SectionsOf(data)) -> Seq(Lines)]
  BY <1>1, SectionsTextType
<1>4. section.nOrder \in Nat /\ Ordered(S) /\ \A x \in S : x.nOrder < section.nOrder
  <2>1. section.nOrder \in Nat /\ m_nOrder \in Nat
    BY DEF SectionOK, TableOK
  <2>2. Ordered(S) /\ \A x \in S : x.nOrder \in 1..m_nOrder
    BY TableSections
  <2>. QED
    BY <2>1, <2>2
<1>5. /\ Cardinality(S \cup {section}) = n + 1 /\ Sorted(S \cup {section})[n + 1] = section
      /\ \A i \in 1..n : i \in 1..n + 1 /\ Sorted(S \cup {section})[i] = Sorted(S)[i]
  <2>. HIDE DEF S
  <2>0. n \in Nat
    BY <1>3
  <2>1. Cardinality(S \cup {section}) = n + 1 /\ Sorted(S \cup {section})[n + 1] = section
    BY <1>4, <2>0, SortedMore
  <2>2. \A i \in 1..n : i \in 1..n + 1 /\ Sorted(S \cup {section})[i] = Sorted(S)[i]
    BY <1>4, <2>0, SortedMore
  <2>. QED
    BY <2>1, <2>2
<1>6. n > 0 <=> DOMAIN m_data # {}
  <2>1. n = 0 <=> S = {}
    BY <1>4, FS_EmptySet DEF Ordered
  <2>2. S = {} <=> DOMAIN m_data = {}
    BY DEF SectionsOf
  <2>3. n > 0 <=> n # 0
    BY <1>3
  <2>. QED
    BY <2>1, <2>2, <2>3
<1>7. ASSUME NEW i \in 1..n PROVE q[i] = p[i]
  BY <1>2, <1>5 DEF SectionTexts
<1>8. q[n + 1] = y
  <2>1. n + 1 \in 1..n + 1 /\ (n + 1 > 1 <=> DOMAIN m_data # {})
    BY <1>3, <1>6
  <2>2. q[n + 1] = Gap(n + 1 > 1 \/ c # NULL) \o SectionText(section, many, multi)
    BY <1>2, <1>5, <2>1 DEF SectionTexts
  <2>3. (n + 1 > 1 \/ c # NULL) <=> (DOMAIN m_data # {} \/ c # NULL)
    BY <2>1
  <2>. QED
    BY <2>2, <2>3 DEF Gap
<1>9. q \in [1..n + 1 -> Seq(Lines)]
  BY <1>2, <1>3, <1>5
<1>10. TableText(c, data, many, multi) = SavedComment(c) \o FlattenSeq(q)
  BY DEF TableText
<1>11. TableText(c, m_data, many, multi) = SavedComment(c) \o FlattenSeq(p)
  BY DEF TableText
<1>12. SavedComment(c) \in Seq(Lines)
  BY CommentTextType
<1>13. n + 1 \in 1..n + 1
  BY <1>3
<1>. HIDE DEF p, q, n, S, data, y
<1>14. FlattenSeq(q) = FlattenSeq(p) \o q[n + 1]
  BY <1>3, <1>7, <1>9, FlattenMore
<1>15. y \in Seq(Lines)
  BY <1>8, <1>9, <1>13
<1>16. (SavedComment(c) \o FlattenSeq(p)) \o y = SavedComment(c) \o (FlattenSeq(p) \o y)
  BY <1>3, <1>12, <1>15, Regroup
<1>. QED
  BY <1>8, <1>10, <1>11, <1>14, <1>16 DEF TableLonger, NewText, y, data

\* the last section becomes longer
LEMMA LastSectionText ==
  ASSUME TableOK(m_data, m_nOrder), NEW m \in Nat, m_nOrder <= m,
         NEW s \in DOMAIN m_data, NEW section, SectionOK(s, section, m),
         section.nOrder = m_data[s].nOrder,
         \A t \in DOMAIN m_data : m_data[t].nOrder <= m_data[s].nOrder,
         NEW c \in Comments, NEW many, NEW multi, NEW y \in Seq(Lines),
         SectionLonger(m_data[s], section, y, many, multi)
  PROVE  TableLonger(c, s, section, y, many, multi)
<1>. DEFINE data == WithSection(s, section)
            S == SectionsOf(m_data)
            g == m_data[s]
            n == Cardinality(S)
            p == SectionTexts(c, m_data, many, multi)
            q == SectionTexts(c, data, many, multi)
<1>1. TableOK(data, m)
  BY WithSectionOK
<1>2. SectionsOf(data) = (S \ {g}) \cup {section}
  BY SectionsWith
<1>3. /\ n \in Nat /\ p \in [1..n -> Seq(Lines)] /\ FlattenSeq(p) \in Seq(Lines)
      /\ q \in [1..Cardinality(SectionsOf(data)) -> Seq(Lines)]
  BY <1>1, SectionsTextType
<1>4. Ordered(S) /\ g \in S /\ \A x \in S : x.nOrder <= g.nOrder
  BY TableSections
<1>5. /\ Rank(S, g) = n /\ n \in Nat \ {0} /\ Sorted(S)[n] = g
      /\ Sorted(S) \in [1..n -> S]
  <2>. HIDE DEF S, g
  <2>. QED
    BY <1>4, RankLast, SortedIsSorted
<1>6. /\ Ordered((S \ {g}) \cup {section})
      /\ Sorted((S \ {g}) \cup {section}) = [Sorted(S) EXCEPT ![n] = section]
  <2>1. section.nOrder = g.nOrder /\ Ordered(S) /\ g \in S
    BY <1>4
  <2>. HIDE DEF S, g, n
  <2>2. /\ Ordered((S \ {g}) \cup {section})
        /\ Sorted((S \ {g}) \cup {section}) = [Sorted(S) EXCEPT ![Rank(S, g)] = section]
    BY <2>1, SortedReplace
  <2>. QED
    BY <1>5, <2>2
<1>7. Cardinality((S \ {g}) \cup {section}) = n
  <2>. DEFINE T == (S \ {g}) \cup {section}
  <2>1. Sorted(T) \in [1..Cardinality(T) -> T] /\ Cardinality(T) \in Nat
    BY <1>6, SortedIsSorted
  <2>2. DOMAIN Sorted(T) = 1..n
    BY <1>5, <1>6
  <2>. HIDE DEF T
  <2>3. 1..Cardinality(T) = 1..n
    BY <2>1, <2>2
  <2>4. Cardinality(T) = n
    BY <1>3, <2>1, <2>3
  <2>. QED
    BY <2>4 DEF T
<1>8. ASSUME NEW i \in 1..n - 1 PROVE q[i] = p[i]
  <2>1. i \in 1..n /\ i # n
    BY <1>5
  <2>2. Sorted(SectionsOf(data))[i] = Sorted(S)[i]
    BY <1>2, <1>5, <1>6, <2>1
  <2>. QED
    BY <1>2, <1>7, <2>1, <2>2 DEF SectionTexts
<1>9. q[n] = p[n] \o y
  <2>. DEFINE gap == Gap(n > 1 \/ c # NULL)
              x == SectionText(g, many, multi)
  <2>1. n \in 1..n /\ Sorted(SectionsOf(data))[n] = section
    <3>1. n \in 1..n /\ Sorted(SectionsOf(data)) = [Sorted(S) EXCEPT ![n] = section]
      BY <1>2, <1>5, <1>6
    <3>2. n \in DOMAIN Sorted(S)
      BY <1>5, <3>1
    <3>. HIDE DEF S, data, n
    <3>. QED
      BY <3>1, <3>2
  <2>2. q[n] = gap \o SectionText(section, many, multi) /\ p[n] = gap \o x
    BY <1>2, <1>5, <1>7, <2>1 DEF SectionTexts
  <2>3. q[n] = gap \o (x \o y)
    BY <2>2 DEF SectionLonger
  <2>4. gap \in Seq(Lines) /\ x \in Seq(Lines)
    <3>1. g \in SectionEntries /\ GoodKeys(g.keys)
      BY TableParts
    <3>. QED
      BY <3>1, SectionTextType, GapType
  <2>. HIDE DEF gap, x
  <2>5. (gap \o x) \o y = gap \o (x \o y)
    BY <2>4, Regroup
  <2>. QED
    BY <2>2, <2>3, <2>5
<1>10. q \in [1..n -> Seq(Lines)]
  BY <1>2, <1>3, <1>7
<1>11. TableText(c, data, many, multi) = SavedComment(c) \o FlattenSeq(q)
  BY DEF TableText
<1>12. TableText(c, m_data, many, multi) = SavedComment(c) \o FlattenSeq(p)
  BY DEF TableText
<1>13. SavedComment(c) \in Seq(Lines)
  BY CommentTextType
<1>. HIDE DEF p, q, n, S, data
<1>14. FlattenSeq(q) = FlattenSeq(p) \o y
  <2>1. n \in Nat \ {0} /\ p \in [1..n -> Seq(Lines)] /\ q \in [1..n -> Seq(Lines)]
    BY <1>3, <1>5, <1>10
  <2>2. (\A i \in 1..n - 1 : q[i] = p[i]) /\ q[n] = p[n] \o y
    BY <1>8, <1>9
  <2>. QED
    BY <2>1, <2>2, FlattenLonger
<1>15. (SavedComment(c) \o FlattenSeq(p)) \o y = SavedComment(c) \o (FlattenSeq(p) \o y)
  BY <1>3, <1>13, Regroup
<1>. QED
  BY <1>11, <1>12, <1>14, <1>15 DEF TableLonger, data

-----------------------------------------------------------------------------
(* The files that Save writes of what a file can hold: a comment, and      *)
(* pieces, which are headers and entries with the blank lines and the      *)
(* comments before them.  A position is the text so far, whether there is  *)
(* any, the sections so far, and the section it is in with its keys, the   *)
(* last of which may get another value.                                    *)

Blanks(n) == [i \in 1..n |-> Blank]
Whole(c) ==
  c # <<>> => /\ IsComment(c[1]) /\ IsComment(c[Len(c)])
              /\ \A i \in DOMAIN c : IsComment(c[i]) \/ c[i] = Blank
Fits(value, multi) ==
  IF multi /\ IsMultiLineData(value) THEN EndTag \notin ToSet(value)
  ELSE ~IsMultiLineData(value) /\ ~(multi /\ IsMultiLineTag(value[1]))

\* the names that a header of one line gives a section
SavedNames == {name \in Titles : name.rest = <<>>}
NoName == Title("")
NoKey == ""
Unnamed(name) == name = NoName
Keyless(k) == k = NoKey

Positions == [text : Seq(Lines), behind : BOOLEAN, sections : SUBSET SavedNames,
              section : SavedNames, keys : SUBSET STRING, key : STRING]
Start(c) ==
  [text |-> c, behind |-> c # <<>>, sections |-> {}, section |-> NoName, keys |-> {}, key |-> NoKey]

PieceText(b, c, body) == Blanks(b) \o (c \o body)
HeaderPiece(x, y, b, c, body, name) ==
  /\ name \in SavedNames /\ ~Unnamed(name) /\ name \notin x.sections
  /\ b = (IF x.behind THEN 2 ELSE 0) /\ (c # <<>> => x.behind)
  /\ body = <<Header(name.first)>>
  /\ y = [text |-> x.text \o PieceText(b, c, body), behind |-> TRUE,
          sections |-> x.sections \cup {name}, section |-> name, keys |-> {}, key |-> NoKey]
EntryPiece(x, y, b, c, body, k, value, many, multi) ==
  /\ k \in STRING /\ ~Keyless(k) /\ (k \in x.keys => many /\ k = x.key)
  /\ value \in Seq(Lines) \ {<<>>} /\ Fits(value, multi)
  /\ b = (IF x.section \notin x.sections /\ x.behind THEN 2 ELSE 0) + (IF c = <<>> THEN 0 ELSE 1)
  /\ body = ValueText(k, value, multi)
  /\ y = [text |-> x.text \o PieceText(b, c, body), behind |-> TRUE,
          sections |-> x.sections \cup {x.section}, section |-> x.section,
          keys |-> x.keys \cup {k}, key |-> k]
Piece(x, y, b, c, body, many, multi) ==
  /\ c \in Seq(Lines) /\ Whole(c)
  /\ \/ \E name : HeaderPiece(x, y, b, c, body, name)
     \/ \E k, value : EntryPiece(x, y, b, c, body, k, value, many, multi)
StepTo(x, y, many, multi) == \E b, c, body : Piece(x, y, b, c, body, many, multi)
Path(x, z, many, multi) ==
  \E n \in Nat : \E st \in [0..n -> Positions] :
    /\ st[0] = x /\ st[n] = z
    /\ \A i \in 1..n : StepTo(st[i - 1], st[i], many, multi)

\* such a name is the title of its first line
LEMMA NamesParts ==
  /\ NoName \in SavedNames /\ NoKey \in STRING /\ Unnamed(NoName) /\ Keyless(NoKey)
  /\ \A name \in SavedNames : name = Title(name.first) /\ name.first \in STRING /\ name \in Titles
<1>1. "" \in STRING
  BY IniAssumption
<1>2. \A w \in STRING : Title(w) \in SavedNames
  BY DEF Title, Titles, SavedNames
<1>3. ASSUME NEW name \in SavedNames
      PROVE  name = Title(name.first) /\ name.first \in STRING /\ name \in Titles
  <2>1. name \in Titles /\ name.rest = <<>>
    BY DEF SavedNames
  <2>2. name = [first |-> name.first, rest |-> name.rest] /\ name.first \in STRING
    BY <2>1 DEF Titles
  <2>. QED
    BY <2>1, <2>2 DEF Title
<1>4. NoName \in SavedNames
  <2>. DEFINE w == ""
  <2>1. w \in STRING /\ NoName = Title(w)
    BY <1>1 DEF NoName
  <2>. HIDE DEF w
  <2>. QED
    BY <1>2, <2>1
<1>. QED
  BY <1>1, <1>3, <1>4 DEF Unnamed, Keyless, NoKey

\* and what is written of it is its header, if it has any
LEMMA HeaderTextIs ==
  ASSUME NEW name \in SavedNames
  PROVE  HeaderText(name) = IF Unnamed(name) THEN <<>> ELSE <<Header(name.first)>>
<1>1. name.rest = <<>>
  BY DEF SavedNames
<1>. QED
  BY <1>1, Zenon DEF HeaderText, SavedHeader, Unnamed, NoName

\* blank lines
LEMMA BlanksParts ==
  /\ \A n \in Nat : Blanks(n) \in Seq(Lines) /\ Len(Blanks(n)) = n /\ \A i \in 1..n : Blanks(n)[i] = Blank
  /\ Blanks(0) = <<>> /\ Blanks(2) = <<Blank, Blank>> /\ Blanks(1) = <<Blank>>
<1>1. Blank \in Lines
  BY LineTypes
<1>2. \A n \in Nat : Blanks(n) \in Seq(Lines) /\ Len(Blanks(n)) = n /\ \A i \in 1..n : Blanks(n)[i] = Blank
  BY <1>1 DEF Blanks
<1>3. Blanks(0) = <<>>
  BY DEF Blanks
<1>4. Blanks(2) = <<Blank, Blank>>
  <2>. DEFINE q == <<Blank, Blank>>
  <2>1. q = [i \in 1..2 |-> q[i]]
    OBVIOUS
  <2>2. \A i \in 1..2 : q[i] = Blank
    OBVIOUS
  <2>. QED
    BY <2>1, <2>2 DEF Blanks
<1>5. Blanks(1) = <<Blank>>
  <2>. DEFINE q == <<Blank>>
  <2>1. q = [i \in 1..1 |-> q[i]]
    OBVIOUS
  <2>2. \A i \in 1..1 : q[i] = Blank
    OBVIOUS
  <2>. QED
    BY <2>1, <2>2 DEF Blanks
<1>. QED
  BY <1>2, <1>3, <1>4, <1>5

\* what a piece adds, and the position behind it
LEMMA PieceParts ==
  ASSUME NEW x \in Positions, NEW y, NEW b, NEW c, NEW body, NEW many, NEW multi,
         Piece(x, y, b, c, body, many, multi)
  PROVE  /\ y \in Positions /\ b \in Nat /\ c \in Seq(Lines) /\ Whole(c)
         /\ body \in Seq(Lines) /\ body # <<>>
         /\ PieceText(b, c, body) \in Seq(Lines)
         /\ y.text = x.text \o PieceText(b, c, body)
<1>1. c \in Seq(Lines) /\ Whole(c) /\ x.text \in Seq(Lines)
  BY DEF Piece, Positions
<1>2. \A w \in STRING : <<Header(w)>> \in Seq(Lines) /\ <<Header(w)>> # <<>>
  <2>1. ASSUME NEW w \in STRING PROVE <<Header(w)>> \in Seq(Lines) /\ <<Header(w)>> # <<>>
    <3>. DEFINE line == Header(w)
    <3>1. line \in Lines
      BY LineTypes
    <3>. HIDE DEF line
    <3>2. <<line>> \in Seq(Lines) /\ <<line>> # <<>>
      BY <3>1
    <3>. QED
      BY <3>2 DEF line
  <2>. QED
    BY <2>1
<1>3. \A k \in STRING, value \in Seq(Lines) \ {<<>>} :
        ValueText(k, value, multi) \in Seq(Lines)
  BY ValueTextType
<1>4. \A k \in STRING, value \in Seq(Lines) \ {<<>>} : ValueText(k, value, multi) # <<>>
  BY DEF ValueText
<1>5. b \in Nat /\ body \in Seq(Lines) /\ body # <<>>
  <2>1. ASSUME NEW name, HeaderPiece(x, y, b, c, body, name) PROVE b \in Nat /\ body \in Seq(Lines) /\ body # <<>>
    <3>1. name \in SavedNames /\ body = <<Header(name.first)>> /\ b = (IF x.behind THEN 2 ELSE 0)
      BY <2>1, Zenon DEF HeaderPiece
    <3>2. name.first \in STRING
      BY <3>1, NamesParts
    <3>3. b \in Nat
      BY <3>1
    <3>. QED
      BY <1>2, <3>1, <3>2, <3>3
  <2>2. ASSUME NEW k, NEW value, EntryPiece(x, y, b, c, body, k, value, many, multi)
        PROVE  b \in Nat /\ body \in Seq(Lines) /\ body # <<>>
    <3>1. /\ k \in STRING /\ value \in Seq(Lines) \ {<<>>} /\ body = ValueText(k, value, multi)
          /\ b = (IF x.section \notin x.sections /\ x.behind THEN 2 ELSE 0) + (IF c = <<>> THEN 0 ELSE 1)
      BY <2>2, Zenon DEF EntryPiece
    <3>2. b \in Nat
      BY <3>1
    <3>3. body \in Seq(Lines) /\ body # <<>>
      BY <1>3, <1>4, <3>1, Zenon
    <3>. QED
      BY <3>2, <3>3
  <2>. QED
    BY <2>1, <2>2 DEF Piece
<1>6. c \o body \in Seq(Lines) /\ PieceText(b, c, body) \in Seq(Lines)
      /\ x.text \o PieceText(b, c, body) \in Seq(Lines)
  BY <1>1, <1>5, BlanksParts, LinesJoined DEF PieceText
<1>. DEFINE t == x.text \o PieceText(b, c, body)
<1>. HIDE DEF t
<1>7. y \in Positions /\ y.text = t
  <2>0. t \in Seq(Lines) /\ NoKey \in STRING
    BY <1>6, NamesParts DEF t
  <2>1. ASSUME NEW name, HeaderPiece(x, y, b, c, body, name) PROVE y \in Positions /\ y.text = t
    <3>1. y = [text |-> t, behind |-> TRUE, sections |-> x.sections \cup {name}, section |-> name,
               keys |-> {}, key |-> NoKey] /\ name \in SavedNames
      BY <2>1, Zenon DEF HeaderPiece, t
    <3>. QED
      BY <2>0, <3>1 DEF Positions
  <2>2. ASSUME NEW k, NEW value, EntryPiece(x, y, b, c, body, k, value, many, multi)
        PROVE  y \in Positions /\ y.text = t
    <3>1. y = [text |-> t, behind |-> TRUE, sections |-> x.sections \cup {x.section},
               section |-> x.section, keys |-> x.keys \cup {k}, key |-> k] /\ k \in STRING
      BY <2>2, Zenon DEF EntryPiece, t
    <3>. QED
      BY <2>0, <3>1 DEF Positions
  <2>. QED
    BY <2>1, <2>2 DEF Piece
<1>. QED
  BY <1>1, <1>5, <1>6, <1>7 DEF t

\* a position is longer than the one before it
LEMMA StepText ==
  ASSUME NEW x \in Positions, NEW y, NEW many, NEW multi, StepTo(x, y, many, multi)
  PROVE  y \in Positions /\ \E more \in Seq(Lines) : y.text = x.text \o more
<1>1. PICK b, c, body : Piece(x, y, b, c, body, many, multi)
  BY DEF StepTo
<1>2. /\ y \in Positions /\ PieceText(b, c, body) \in Seq(Lines)
      /\ y.text = x.text \o PieceText(b, c, body)
  BY <1>1, PieceParts
<1>. QED
  BY <1>2

\* paths: none
LEMMA PathHere ==
  ASSUME NEW x \in Positions, NEW many, NEW multi
  PROVE  Path(x, x, many, multi)
<1>. DEFINE st == [i \in 0..0 |-> x]
<1>1. st \in [0..0 -> Positions] /\ st[0] = x /\ \A i \in 1..0 : StepTo(st[i - 1], st[i], many, multi)
  OBVIOUS
<1>. HIDE DEF st
<1>. QED
  BY <1>1 DEF Path

\* one more piece
LEMMA PathLonger ==
  ASSUME NEW x, NEW y, NEW z, NEW many, NEW multi, Path(x, y, many, multi), StepTo(y, z, many, multi)
  PROVE  Path(x, z, many, multi) /\ z \in Positions
<1>0. PICK n \in Nat : \E st \in [0..n -> Positions] :
        st[0] = x /\ st[n] = y /\ \A i \in 1..n : StepTo(st[i - 1], st[i], many, multi)
  BY DEF Path
<1>1. PICK st \in [0..n -> Positions] :
        st[0] = x /\ st[n] = y /\ \A i \in 1..n : StepTo(st[i - 1], st[i], many, multi)
  BY <1>0
<1>2. y \in Positions
  BY <1>1
<1>3. z \in Positions
  BY <1>2, StepText
<1>. DEFINE w == [i \in 0..n + 1 |-> IF i = n + 1 THEN z ELSE st[i]]
<1>4. w \in [0..n + 1 -> Positions] /\ w[0] = x /\ w[n + 1] = z /\ w[n] = y
  BY <1>1, <1>3
<1>5. ASSUME NEW i \in 1..n + 1 PROVE StepTo(w[i - 1], w[i], many, multi)
  <2>1. CASE i = n + 1
    <3>1. i - 1 = n
      BY <2>1
    <3>. HIDE DEF w
    <3>. QED
      BY <1>4, <2>1, <3>1
  <2>2. CASE i # n + 1
    <3>1. i \in 1..n /\ i \in 0..n + 1 /\ i - 1 \in 0..n + 1 /\ i - 1 # n + 1
      BY <2>2
    <3>2. w[i] = st[i] /\ w[i - 1] = st[i - 1]
      BY <2>2, <3>1
    <3>. HIDE DEF w
    <3>. QED
      BY <1>1, <3>1, <3>2
  <2>. QED
    BY <2>1, <2>2
<1>. HIDE DEF w
<1>6. n + 1 \in Nat
  OBVIOUS
<1>. QED
  BY <1>3, <1>4, <1>5, <1>6 DEF Path

\* the first piece
LEMMA PathFirst ==
  ASSUME NEW x, NEW z, NEW many, NEW multi, Path(x, z, many, multi), x # z
  PROVE  \E y \in Positions : StepTo(x, y, many, multi) /\ Path(y, z, many, multi)
<1>0. PICK n \in Nat : \E st \in [0..n -> Positions] :
        st[0] = x /\ st[n] = z /\ \A i \in 1..n : StepTo(st[i - 1], st[i], many, multi)
  BY DEF Path
<1>1. PICK st \in [0..n -> Positions] :
        st[0] = x /\ st[n] = z /\ \A i \in 1..n : StepTo(st[i - 1], st[i], many, multi)
  BY <1>0
<1>. DEFINE m == n - 1
            w == [i \in 0..m |-> st[i + 1]]
<1>2. m \in Nat /\ m + 1 = n /\ 1 \in 1..n /\ 1 - 1 = 0 /\ 1 \in 0..n
  BY <1>1
<1>3. \A i \in 0..m : i + 1 \in 0..n /\ w[i] = st[i + 1]
  BY <1>2
<1>4. w \in [0..m -> Positions] /\ w[0] = st[1] /\ w[m] = z
  BY <1>1, <1>2, <1>3
<1>5. ASSUME NEW i \in 1..m PROVE StepTo(w[i - 1], w[i], many, multi)
  <2>1. i \in 0..m /\ i - 1 \in 0..m /\ i + 1 \in 1..n /\ (i - 1) + 1 = i /\ (i + 1) - 1 = i
    BY <1>2
  <2>2. w[i] = st[i + 1] /\ w[i - 1] = st[i]
    BY <1>3, <2>1
  <2>3. StepTo(st[(i + 1) - 1], st[i + 1], many, multi)
    BY <1>1, <2>1
  <2>. HIDE DEF w, m
  <2>. QED
    BY <2>1, <2>2, <2>3
<1>6. StepTo(st[1 - 1], st[1], many, multi) /\ st[1] \in Positions
  BY <1>1, <1>2
<1>7. StepTo(x, st[1], many, multi)
  BY <1>1, <1>2, <1>6
<1>. HIDE DEF w, m
<1>8. Path(st[1], z, many, multi)
  BY <1>2, <1>4, <1>5 DEF Path
<1>. QED
  BY <1>6, <1>7, <1>8

\* and the text behind the position a path begins at
LEMMA PathText ==
  ASSUME NEW x, NEW z, NEW many, NEW multi, Path(x, z, many, multi)
  PROVE  /\ x \in Positions /\ z \in Positions
         /\ \E rest \in Seq(Lines) : z.text = x.text \o rest
<1>0. PICK n \in Nat : \E st \in [0..n -> Positions] :
        st[0] = x /\ st[n] = z /\ \A i \in 1..n : StepTo(st[i - 1], st[i], many, multi)
  BY DEF Path
<1>1. PICK st \in [0..n -> Positions] :
        st[0] = x /\ st[n] = z /\ \A i \in 1..n : StepTo(st[i - 1], st[i], many, multi)
  BY <1>0
<1>2. x \in Positions /\ z \in Positions
  BY <1>1
<1>. DEFINE P == {i \in Nat : i \in 0..n => \E rest \in Seq(Lines) : st[i].text = x.text \o rest}
<1>3. x.text \in Seq(Lines)
  BY <1>2 DEF Positions
<1>4. 0 \in P
  <2>1. x.text = x.text \o <<>> /\ <<>> \in Seq(Lines)
    BY <1>3, ConcatEmptySeq
  <2>. QED
    BY <1>1, <2>1
<1>5. ASSUME NEW i \in Nat, i \in P PROVE i + 1 \in P
  <2>1. SUFFICES ASSUME i + 1 \in 0..n PROVE \E rest \in Seq(Lines) : st[i + 1].text = x.text \o rest
    OBVIOUS
  <2>2. i \in 0..n /\ i + 1 \in 1..n /\ (i + 1) - 1 = i
    BY <2>1
  <2>3. PICK rest \in Seq(Lines) : st[i].text = x.text \o rest
    BY <1>5, <2>2
  <2>4. StepTo(st[i], st[i + 1], many, multi) /\ st[i] \in Positions
    <3>1. StepTo(st[(i + 1) - 1], st[i + 1], many, multi)
      BY <1>1, <2>2
    <3>. QED
      BY <2>2, <3>1
  <2>5. PICK more \in Seq(Lines) : st[i + 1].text = st[i].text \o more
    BY <2>4, StepText
  <2>6. (x.text \o rest) \o more = x.text \o (rest \o more) /\ rest \o more \in Seq(Lines)
    BY <1>3, Regroup, LinesJoined
  <2>. QED
    BY <2>3, <2>5, <2>6
<1>. HIDE DEF P
<1>6. n \in P
  BY <1>4, <1>5, SetInduction
<1>. QED
  BY <1>1, <1>2, <1>6 DEF P

\* blank lines follow blank lines
LEMMA BlanksJoined ==
  ASSUME NEW i \in Nat, NEW j \in Nat
  PROVE  Blanks(i + j) = Blanks(i) \o Blanks(j)
<1>1. /\ Blanks(i) \in Seq(Lines) /\ Blanks(j) \in Seq(Lines) /\ Blanks(i + j) \in Seq(Lines)
      /\ Len(Blanks(i)) = i /\ Len(Blanks(j)) = j /\ Len(Blanks(i + j)) = i + j
  BY BlanksParts
<1>2. /\ \A n \in 1..i : Blanks(i)[n] = Blank
      /\ \A n \in 1..j : Blanks(j)[n] = Blank
      /\ \A n \in 1..i + j : Blanks(i + j)[n] = Blank
  BY DEF Blanks
<1>. DEFINE a == Blanks(i)
            b == Blanks(j)
            c == Blanks(i + j)
<1>. HIDE DEF a, b, c
<1>3. a \o b \in Seq(Lines) /\ Len(a \o b) = i + j
  BY <1>1, ConcatProperties DEF a, b
<1>4. \A n \in 1..i + j : (a \o b)[n] = IF n <= i THEN a[n] ELSE b[n - i]
  BY <1>1, ConcatProperties DEF a, b
<1>5. ASSUME NEW n \in 1..i + j PROVE (a \o b)[n] = c[n]
  <2>1. CASE n <= i
    <3>1. n \in 1..i
      BY <2>1
    <3>. QED
      BY <1>2, <1>4, <2>1, <3>1 DEF a, c
  <2>2. CASE ~(n <= i)
    <3>1. n - i \in 1..j
      BY <2>2
    <3>. QED
      BY <1>2, <1>4, <2>2, <3>1 DEF b, c
  <2>. QED
    BY <2>1, <2>2
<1>6. c \in Seq(Lines) /\ Len(c) = i + j
  BY <1>1 DEF c
<1>. DEFINE w == a \o b
<1>. HIDE DEF w
<1>0. w \in Seq(Lines) /\ Len(w) = i + j
  BY <1>3 DEF w
<1>7. w = [n \in 1..i + j |-> w[n]] /\ c = [n \in 1..i + j |-> c[n]]
  BY <1>0, <1>6
<1>8. \A n \in 1..i + j : w[n] = c[n]
  BY <1>5 DEF w
<1>9. w = c
  BY <1>7, <1>8
<1>. QED
  BY <1>9 DEF w, a, b, c

\* the text before an entry that is added: blank lines if it begins a section
\* without a header
OpenText(x) == x.text \o Gap(x.section \notin x.sections /\ x.behind)

EntryJoined(x, b, p, body) ==
  x.text \o PieceText(b, SavedComment(p), body) = OpenText(x) \o (CommentText(p) \o body)
\* the text behind an entry, with the blank lines before its section
LEMMA EntryPieceText ==
  ASSUME NEW x \in Positions, NEW p \in Comments, p # NULL => p.text # <<>>,
         NEW body \in Seq(Lines), NEW b,
         b = (IF x.section \notin x.sections /\ x.behind THEN 2 ELSE 0)
             + (IF SavedComment(p) = <<>> THEN 0 ELSE 1)
  PROVE  EntryJoined(x, b, p, body)
<1>. DEFINE opens == x.section \notin x.sections /\ x.behind
            i == IF opens THEN 2 ELSE 0
            j == IF SavedComment(p) = <<>> THEN 0 ELSE 1
            c == SavedComment(p)
<1>1. i \in Nat /\ j \in Nat /\ b = i + j
  OBVIOUS
<1>2. Blanks(i) = Gap(opens)
  BY BlanksParts DEF Gap
<1>3. c \in Seq(Lines) /\ CommentText(p) \in Seq(Lines) /\ x.text \in Seq(Lines)
  BY CommentTextType DEF Positions
<1>4. CommentText(p) = Blanks(j) \o c
  <2>1. CASE p = NULL
    <3>1. c = <<>> /\ CommentText(p) = <<>> /\ Blanks(j) = <<>>
      BY <2>1, BlanksParts DEF SavedComment, CommentText
    <3>. QED
      BY <1>3, <3>1, ConcatEmptySeq
  <2>2. CASE p # NULL
    <3>1. c = p.text /\ c # <<>> /\ CommentText(p) = <<Blank>> \o c
      BY <2>2 DEF SavedComment, CommentText
    <3>2. Blanks(j) = <<Blank>>
      BY <3>1, BlanksParts
    <3>. QED
      BY <3>1, <3>2
  <2>. QED
    BY <2>1, <2>2
<1>. HIDE DEF opens, i, j, c
<1>5. Blanks(b) = Blanks(i) \o Blanks(j) /\ Blanks(i) \in Seq(Lines) /\ Blanks(j) \in Seq(Lines)
  BY <1>1, BlanksJoined, BlanksParts
<1>. DEFINE t == c \o body
            u == Blanks(j) \o t
            g == Blanks(i)
            h == Blanks(j)
<1>. HIDE DEF g, h
<1>6. t \in Seq(Lines) /\ u \in Seq(Lines) /\ g \in Seq(Lines) /\ h \in Seq(Lines)
  BY <1>3, <1>5, LinesJoined DEF g, h
<1>7. (h \o c) \o body = h \o t
  <2>. HIDE DEF u
  <2>1. h \in Seq(Lines) /\ c \in Seq(Lines) /\ body \in Seq(Lines)
    BY <1>3, <1>6
  <2>. QED
    BY <2>1, Regroup
<1>9. u = h \o t /\ PieceText(b, c, body) = (g \o h) \o t
  BY <1>5 DEF PieceText, g, h
<1>. HIDE DEF t
<1>8. (g \o h) \o t = g \o (h \o t)
  <2>. HIDE DEF u
  <2>. QED
    BY <1>6, Regroup
<1>. HIDE DEF u
<1>. DEFINE e == x.text
<1>. HIDE DEF e
<1>13. e \in Seq(Lines) /\ u \in Seq(Lines) /\ g \in Seq(Lines)
  BY <1>3, <1>6 DEF e
<1>14. e \o (g \o u) = (e \o g) \o u
  BY <1>13, Regroup
<1>10. x.text \o (g \o u) = (x.text \o g) \o u
  BY <1>14 DEF e
<1>11. CommentText(p) \o body = u
  BY <1>4, <1>7, <1>9 DEF h
<1>12. OpenText(x) = x.text \o g
  BY <1>2 DEF OpenText, opens, g
<1>. QED
  BY <1>8, <1>9, <1>10, <1>11, <1>12 DEF EntryJoined, c

\* the text up to the first entry of a section is a sequence of lines
LEMMA OpenTextType ==
  ASSUME NEW x \in Positions
  PROVE  /\ x.text \in Seq(Lines) /\ OpenText(x) \in Seq(Lines)
         /\ x.section \in x.sections => OpenText(x) = x.text
<1>1. x.text \in Seq(Lines)
  BY DEF Positions
<1>2. x.section \in x.sections => Gap(x.section \notin x.sections /\ x.behind) = <<>>
  BY DEF Gap
<1>. QED
  BY <1>1, <1>2, GapType, LinesJoined, ConcatEmptySeq DEF OpenText
-----------------------------------------------------------------------------
(* What Save writes of what a file can hold is such a file *)

CommentOK(p) == p # NULL => p.text # <<>> /\ Whole(p.text)
EntryFits(e, multi) ==
  e \in KeyEntries /\ ~Keyless(e.pItem.text) /\ Fits(e.value.text, multi) /\ CommentOK(e.pComment)
Grown(x, k, text) ==
  [text |-> text, behind |-> TRUE, sections |-> x.sections \cup {x.section},
   section |-> x.section, keys |-> x.keys \cup {k}, key |-> k]

\* writing an entry goes on to the position behind it
LEMMA EntryWritten ==
  ASSUME NEW s, NEW x, NEW many, NEW multi, Path(s, x, many, multi), NEW e, EntryFits(e, multi),
         e.pItem.text \in x.keys => many /\ e.pItem.text = x.key
  PROVE  Path(s, Grown(x, e.pItem.text, OpenText(x) \o EntryText(e, multi)), many, multi)
<1>. DEFINE k == e.pItem.text
            value == e.value.text
            c == SavedComment(e.pComment)
            b == (IF x.section \notin x.sections /\ x.behind THEN 2 ELSE 0) + (IF c = <<>> THEN 0 ELSE 1)
            body == ValueText(k, value, multi)
            y == Grown(x, k, x.text \o PieceText(b, c, body))
<1>1. x \in Positions
  BY PathText
<1>2. /\ k \in STRING /\ ~Keyless(k) /\ value \in Seq(Lines) \ {<<>>} /\ Fits(value, multi)
      /\ e.pComment \in Comments /\ CommentOK(e.pComment)
  BY DEF EntryFits, KeyEntries, Names, Values
<1>3. c \in Seq(Lines) /\ Whole(c)
  <2>1. CASE e.pComment = NULL
    BY <1>2, <2>1, CommentTextType DEF SavedComment, Whole
  <2>2. CASE e.pComment # NULL
    BY <1>2, <2>2, CommentTextType DEF SavedComment, CommentOK
  <2>. QED
    BY <2>1, <2>2
<1>4. EntryPiece(x, y, b, c, body, k, value, many, multi)
  <2>. HIDE DEF k, value, c
  <2>1. y = [text |-> x.text \o PieceText(b, c, body), behind |-> TRUE,
             sections |-> x.sections \cup {x.section}, section |-> x.section,
             keys |-> x.keys \cup {k}, key |-> k]
    BY DEF Grown
  <2>2. k \in x.keys => many /\ k = x.key
    BY DEF k
  <2>. QED
    BY <1>2, <2>1, <2>2, Zenon DEF EntryPiece
<1>5. x.text \o PieceText(b, c, body) = OpenText(x) \o (CommentText(e.pComment) \o body)
  <2>1. body \in Seq(Lines)
    BY <1>2, ValueTextType
  <2>2. e.pComment # NULL => e.pComment.text # <<>>
    BY <1>2 DEF CommentOK
  <2>3. b = (IF x.section \notin x.sections /\ x.behind THEN 2 ELSE 0)
            + (IF SavedComment(e.pComment) = <<>> THEN 0 ELSE 1)
    OBVIOUS
  <2>. HIDE DEF body, b
  <2>. DEFINE p == e.pComment
  <2>. HIDE DEF k, value, c
  <2>4. p \in Comments /\ (p # NULL => p.text # <<>>)
        /\ b = (IF x.section \notin x.sections /\ x.behind THEN 2 ELSE 0)
               + (IF SavedComment(p) = <<>> THEN 0 ELSE 1)
    BY <1>2, <2>2, <2>3
  <2>. HIDE DEF p
  <2>5. EntryJoined(x, b, p, body)
    BY <1>1, <2>1, <2>4, EntryPieceText
  <2>. QED
    BY <2>5 DEF EntryJoined, p, c
<1>6. StepTo(x, y, many, multi)
  <2>. HIDE DEF y, b, c, body, k, value
  <2>. QED
    BY <1>3, <1>4 DEF StepTo, Piece
<1>7. Path(s, y, many, multi)
  BY <1>6, PathLonger
<1>8. CommentText(e.pComment) \o body = EntryText(e, multi)
  BY DEF EntryText
<1>. HIDE DEF body, b, c
<1>9. y = Grown(x, e.pItem.text, OpenText(x) \o EntryText(e, multi))
  BY <1>5, <1>8
<1>. QED
  BY <1>7, <1>9

\* the values of a key that is new to the section
LEMMA KeyWritten ==
  ASSUME NEW s, NEW x, NEW many, NEW multi, Path(s, x, many, multi), NEW keys, GoodKeys(keys),
         \A e \in keys : EntryFits(e, multi), NEW k, OfKey(keys, k) # {}, k \notin x.keys
  PROVE  Path(s, Grown(x, k, OpenText(x) \o KeyText(keys, k, many, multi)), many, multi)
<1>. DEFINE listed == Listed(keys, k, many)
            n == Len(listed)
            texts == [j \in 1..n |-> EntryText(listed[j], multi)]
            open == OpenText(x)
<1>1. /\ listed \in Seq(KeyEntries) /\ n \in Nat \ {0} /\ (n > 1 => many)
      /\ \A j \in 1..n : listed[j] \in OfKey(keys, k)
  <2>. DEFINE S == OfKey(keys, k)
              all == Sorted(S)
  <2>1. Ordered(S) /\ S # {}
    BY KeysParts
  <2>. HIDE DEF S
  <2>2. /\ all \in Seq(S) /\ Len(all) \in Nat /\ Len(all) = Cardinality(S)
        /\ \A j \in 1..Len(all) : all[j] \in S
    BY <2>1, SortedIsSorted
  <2>3. Len(all) # 0 /\ all # <<>> /\ all[1] \in S
    <3>1. PICK e \in S : TRUE
      BY <2>1
    <3>2. Rank(S, e) \in 1..Cardinality(S)
      BY <2>1, SortedAt
    <3>3. Len(all) # 0
      BY <2>2, <3>2
    <3>. HIDE DEF all
    <3>. QED
      BY <2>2, <3>3
  <2>4. listed = IF many THEN all ELSE <<all[1]>>
    BY <2>3 DEF Listed, S
  <2>5. listed \in Seq(KeyEntries)
    BY KeyTextType
  <2>. HIDE DEF all, listed
  <2>6. CASE many
    BY <2>2, <2>3, <2>4, <2>5, <2>6 DEF S
  <2>7. CASE ~many
    <3>. DEFINE one == <<all[1]>>
    <3>1. Len(one) = 1 /\ one[1] = all[1] /\ listed = one
      BY <2>4, <2>7
    <3>. HIDE DEF one
    <3>2. \A j \in 1..1 : j = 1
      OBVIOUS
    <3>3. Len(listed) = 1 /\ listed[1] \in S
      BY <2>3, <3>1
    <3>4. \A j \in 1..Len(listed) : listed[j] \in S
      BY <3>2, <3>3
    <3>5. Len(listed) \in Nat \ {0} /\ (Len(listed) > 1 => many)
      BY <3>3
    <3>. QED
      BY <2>5, <3>4, <3>5 DEF S
  <2>. QED
    BY <2>6, <2>7
<1>2. \A j \in 1..n : EntryFits(listed[j], multi) /\ listed[j].pItem.text = k /\ listed[j] \in KeyEntries
  <2>. HIDE DEF listed, n
  <2>. QED
    BY <1>1 DEF OfKey, EntryFits
<1>3. /\ KeyText(keys, k, many, multi) = FlattenSeq(texts) /\ texts \in [1..n -> Seq(Lines)]
      /\ \A j \in 1..n : texts[j] = EntryText(listed[j], multi)
  BY <1>2, EntryTextType DEF KeyText
<1>. HIDE DEF listed, n, texts
<1>4. PICK f \in [0..n -> Seq(Lines)] :
        f[0] = <<>> /\ (\A i \in 1..n : f[i] = f[i - 1] \o texts[i]) /\ FlattenSeq(texts) = f[n]
  <2>1. texts \in Seq(Seq(Lines)) /\ Len(texts) = n
    BY <1>1, <1>3
  <2>. QED
    BY <2>1, FlattenSteps
<1>5. x \in Positions /\ open \in Seq(Lines)
  BY PathText, OpenTextType
<1>. HIDE DEF open
<1>. DEFINE P == {j \in Nat : j + 1 \in 1..n => Path(s, Grown(x, k, open \o f[j + 1]), many, multi)}
<1>6. 0 \in P
  <2>1. 0 + 1 = 1 /\ 1 \in 1..n /\ 1 - 1 = 0
    BY <1>1
  <2>2. f[1] = <<>> \o texts[1] /\ texts[1] = EntryText(listed[1], multi) /\ texts[1] \in Seq(Lines)
    BY <1>3, <1>4, <2>1
  <2>3. f[1] = EntryText(listed[1], multi)
    BY <2>2, ConcatEmptySeq
  <2>4. Path(s, Grown(x, listed[1].pItem.text, OpenText(x) \o EntryText(listed[1], multi)), many, multi)
    BY <1>2, <2>1, EntryWritten
  <2>5. Path(s, Grown(x, k, open \o f[1]), many, multi)
    BY <1>2, <2>1, <2>3, <2>4 DEF open
  <2>. QED
    BY <2>1, <2>5
<1>7. ASSUME NEW j \in Nat, j \in P PROVE j + 1 \in P
  <2>. DEFINE i == j + 1
              e == listed[i + 1]
              y == Grown(x, k, open \o f[i])
  <2>0. SUFFICES ASSUME i + 1 \in 1..n PROVE Path(s, Grown(x, k, open \o f[i + 1]), many, multi)
    OBVIOUS
  <2>1. i \in 1..n /\ i \in 0..n /\ i + 1 \in 0..n /\ (i + 1) - 1 = i /\ n > 1
    BY <1>1, <2>0
  <2>2. Path(s, y, many, multi)
    BY <1>7, <2>1
  <2>3. EntryFits(e, multi) /\ e.pItem.text = k /\ many /\ f[i] \in Seq(Lines)
        /\ EntryText(e, multi) \in Seq(Lines)
    BY <1>1, <1>2, <1>4, <2>0, <2>1, EntryTextType
  <2>4. f[i + 1] = f[i] \o EntryText(e, multi)
    BY <1>3, <1>4, <2>0, <2>1
  <2>. HIDE DEF e, i
  <2>5. /\ y.section = x.section /\ x.section \in y.sections /\ y.sections = x.sections \cup {x.section}
        /\ y.key = k /\ y.keys = x.keys \cup {k} /\ y.text = open \o f[i]
    BY DEF Grown
  <2>. HIDE DEF y
  <2>6. Path(s, Grown(y, k, OpenText(y) \o EntryText(e, multi)), many, multi)
    BY <2>2, <2>3, <2>5, EntryWritten
  <2>7. OpenText(y) = open \o f[i]
    <3>1. y \in Positions
      BY <2>2, PathText
    <3>. QED
      BY <2>5, <3>1, OpenTextType
  <2>8. (open \o f[i]) \o EntryText(e, multi) = open \o (f[i] \o EntryText(e, multi))
    <3>. DEFINE a == f[i]
                d == EntryText(e, multi)
    <3>. HIDE DEF a, d
    <3>1. a \in Seq(Lines) /\ d \in Seq(Lines)
      BY <2>3 DEF a, d
    <3>2. (open \o a) \o d = open \o (a \o d)
      BY <1>5, <3>1, Regroup
    <3>. QED
      BY <3>2 DEF a, d
  <2>9. OpenText(y) \o EntryText(e, multi) = open \o f[i + 1]
    BY <2>4, <2>7, <2>8
  <2>10. \A t : Grown(y, k, t) = Grown(x, k, t)
    <3>1. y.sections \cup {y.section} = x.sections \cup {x.section} /\ y.keys \cup {k} = x.keys \cup {k}
      BY <2>5
    <3>. QED
      BY <2>5, <3>1 DEF Grown
  <2>. QED
    BY <2>6, <2>9, <2>10
<1>. DEFINE m == n - 1
<1>8. m \in Nat /\ m + 1 = n /\ n \in 1..n
  BY <1>1
<1>. HIDE DEF P, m
<1>9. m \in P
  BY <1>6, <1>7, <1>8, SetInduction
<1>. QED
  BY <1>3, <1>4, <1>8, <1>9 DEF P, open

\* the keys of a section, behind its header
KeysEnd(s, x, y, keys, many, multi) ==
  /\ Path(s, y, many, multi) /\ OpenText(y) = OpenText(x) \o KeysText(keys, many, multi)
  /\ keys = {} => y = x
  /\ keys # {} => y.behind /\ y.sections = x.sections \cup {x.section} /\ x.section = y.section
\* so does writing the entries of a section, key by key
LEMMA KeysWritten ==
  ASSUME NEW s, NEW x, NEW many, NEW multi, Path(s, x, many, multi), x.keys = {},
         NEW keys, GoodKeys(keys), \A e \in keys : EntryFits(e, multi)
  PROVE  \E y : KeysEnd(s, x, y, keys, many, multi)
<1>. DEFINE S == Firsts(keys)
            n == Cardinality(S)
            key(i) == Sorted(S)[i].pItem.text
            texts == [i \in 1..n |-> KeyText(keys, key(i), many, multi)]
            open == OpenText(x)
<1>1. /\ n \in Nat /\ (n = 0 <=> keys = {})
      /\ \A i \in 1..n : Sorted(S)[i] \in S /\ Sorted(S)[i] \in keys /\ Rank(S, Sorted(S)[i]) = i
  <2>1. S \subseteq keys /\ Ordered(S)
    BY KeysParts
  <2>2. n \in Nat /\ \A i \in 1..n : Sorted(S)[i] \in S /\ Rank(S, Sorted(S)[i]) = i
    BY <2>1, SortedIsSorted
  <2>3. n = 0 <=> S = {}
    BY <2>1, FS_EmptySet DEF Ordered
  <2>4. S = {} <=> keys = {}
    <3>1. \A e \in keys : First(OfKey(keys, e.pItem.text)) \in S
      BY KeysParts
    <3>. HIDE DEF S
    <3>. QED
      BY <2>1, <3>1
  <2>. QED
    BY <2>1, <2>2, <2>3, <2>4
<1>2. \A i \in 1..n : OfKey(keys, key(i)) # {}
  BY <1>1, KeysParts
<1>3. ASSUME NEW i \in 1..n, NEW j \in 1..n, key(i) = key(j) PROVE i = j
  <2>1. Sorted(S)[i] = First(OfKey(keys, key(i))) /\ Sorted(S)[j] = First(OfKey(keys, key(j)))
    BY <1>1, KeysParts
  <2>2. Sorted(S)[i] = Sorted(S)[j]
    BY <1>3, <2>1
  <2>. HIDE DEF S, n
  <2>. QED
    BY <1>1, <2>2
<1>4. /\ KeysText(keys, many, multi) = FlattenSeq(texts) /\ texts \in [1..n -> Seq(Lines)]
      /\ \A i \in 1..n : texts[i] = KeyText(keys, key(i), many, multi)
  BY KeyTextType DEF KeysText
<1>. HIDE DEF S, n, key, texts
<1>5. PICK f \in [0..n -> Seq(Lines)] :
        f[0] = <<>> /\ (\A i \in 1..n : f[i] = f[i - 1] \o texts[i]) /\ FlattenSeq(texts) = f[n]
  <2>1. texts \in Seq(Seq(Lines)) /\ Len(texts) = n
    BY <1>1, <1>4
  <2>. QED
    BY <2>1, FlattenSteps
<1>6. x \in Positions /\ open \in Seq(Lines)
  BY PathText, OpenTextType
<1>. HIDE DEF open
<1>. DEFINE Here(i, y) == /\ Path(s, y, many, multi) /\ OpenText(y) = open \o f[i]
                          /\ y.section = x.section /\ y.keys = {key(j) : j \in 1..i}
                          /\ i = 0 => y = x
                          /\ i # 0 => y.behind /\ y.sections = x.sections \cup {x.section}
            P == {i \in Nat : i \in 0..n => \E y : Here(i, y)}
<1>7. 0 \in P
  <2>1. open = open \o f[0]
    BY <1>5, <1>6, ConcatEmptySeq
  <2>2. {key(j) : j \in 1..0} = {}
    OBVIOUS
  <2>3. Here(0, x)
    BY <2>1, <2>2 DEF open
  <2>. HIDE DEF Here
  <2>. QED
    BY <2>3
<1>8. ASSUME NEW i \in Nat, i \in P PROVE i + 1 \in P
  <2>0. SUFFICES ASSUME i + 1 \in 0..n PROVE \E y : Here(i + 1, y)
    <3>. HIDE DEF Here
    <3>. QED
      OBVIOUS
  <2>1. i \in 0..n /\ i + 1 \in 1..n /\ (i + 1) - 1 = i /\ i + 1 # 0
        /\ \A j \in 1..i : j \in 1..n /\ j # i + 1
    BY <1>1, <2>0
  <2>2. PICK y : Here(i, y)
    BY <1>8, <2>1
  <2>3. key(i + 1) \notin y.keys
    BY <1>3, <2>1, <2>2
  <2>. DEFINE k == key(i + 1)
              t == KeyText(keys, k, many, multi)
              z == Grown(y, k, OpenText(y) \o t)
  <2>4. Path(s, z, many, multi)
    BY <1>2, <2>1, <2>2, <2>3, KeyWritten
  <2>5. f[i + 1] = f[i] \o t /\ f[i] \in Seq(Lines) /\ t \in Seq(Lines)
    BY <1>4, <1>5, <2>1
  <2>. HIDE DEF t
  <2>6. OpenText(y) \o t = open \o f[i + 1]
    <3>. DEFINE a == f[i]
    <3>. HIDE DEF a
    <3>1. (open \o a) \o t = open \o (a \o t)
      <4>1. a \in Seq(Lines)
        BY <2>5 DEF a
      <4>. QED
        BY <1>6, <2>5, <4>1, Regroup
    <3>. QED
      BY <2>2, <2>5, <3>1 DEF a
  <2>7. /\ z.text = open \o f[i + 1] /\ z.behind /\ z.sections = y.sections \cup {y.section}
        /\ z.section = y.section /\ z.keys = y.keys \cup {k}
    BY <2>6 DEF Grown
  <2>. HIDE DEF z
  <2>8. z.section = x.section /\ z.sections = x.sections \cup {x.section} /\ z.section \in z.sections
    BY <2>2, <2>7
  <2>9. z.keys = {key(j) : j \in 1..i + 1}
    <3>1. \A j : j \in 1..i + 1 <=> j \in 1..i \/ j = i + 1
      OBVIOUS
    <3>2. z.keys = {key(j) : j \in 1..i} \cup {key(i + 1)}
      BY <2>2, <2>7
    <3>. QED
      BY <3>1, <3>2
  <2>10. OpenText(z) = open \o f[i + 1]
    <3>1. z \in Positions
      BY <2>4, PathText
    <3>. QED
      BY <2>7, <2>8, <3>1, OpenTextType
  <2>11. Here(i + 1, z)
    BY <2>1, <2>4, <2>7, <2>8, <2>9, <2>10
  <2>. HIDE DEF Here
  <2>. QED
    BY <2>11
<1>9. n \in Nat /\ n \in 0..n
  BY <1>1
<1>. HIDE DEF P
<1>10. n \in P
  BY <1>7, <1>8, <1>9, SetInduction
<1>11. PICK y : Here(n, y)
  <2>. HIDE DEF Here
  <2>. QED
    BY <1>9, <1>10 DEF P
<1>12. OpenText(y) = OpenText(x) \o KeysText(keys, many, multi)
  BY <1>4, <1>5, <1>11 DEF open
<1>13. KeysEnd(s, x, y, keys, many, multi)
  BY <1>1, <1>11, <1>12 DEF KeysEnd
<1>. QED
  BY <1>13

SectionFits(section, multi) ==
  /\ section \in SectionEntries /\ section.pItem.text \in SavedNames
  /\ GoodKeys(section.keys) /\ CommentOK(section.pComment)
  /\ \A e \in section.keys : EntryFits(e, multi)

\* a section: its comment and header, unless it is the one without, and its keys
SectionEnd(s, x, y, section, many, multi) ==
  /\ Path(s, y, many, multi) /\ y.behind /\ y.sections = x.sections \cup {section.pItem.text}
  /\ y.text = x.text \o (Gap(x.behind) \o SectionText(section, many, multi))
\* and writing a section, its comment and its header first
LEMMA SectionWritten ==
  ASSUME NEW s, NEW x, NEW many, NEW multi, Path(s, x, many, multi),
         NEW section, SectionFits(section, multi), NEW name, name = section.pItem.text,
         name \notin x.sections,
         ~Unnamed(name) /\ section.pComment # NULL => x.behind,
         Unnamed(name) => /\ Unnamed(x.section) /\ x.keys = {}
                            /\ section.pComment = NULL /\ section.keys # {}
  PROVE  \E y : SectionEnd(s, x, y, section, many, multi)
<1>. DEFINE t == x.text
            g == Gap(x.behind)
            c == SavedComment(section.pComment)
            h == HeaderText(name)
            k == KeysText(section.keys, many, multi)
<1>1. /\ x \in Positions /\ t \in Seq(Lines) /\ g \in Seq(Lines) /\ c \in Seq(Lines)
      /\ h \in Seq(Lines) /\ k \in Seq(Lines) /\ name \in SavedNames
  <2>1. x \in Positions
    BY PathText
  <2>2. section \in SectionEntries /\ GoodKeys(section.keys)
    BY DEF SectionFits
  <2>3. c \in Seq(Lines) /\ h \in Seq(Lines) /\ k \in Seq(Lines)
    BY <2>2, SectionTextType, KeysTextType
  <2>4. name \in SavedNames
    BY DEF SectionFits
  <2>5. t \in Seq(Lines)
    BY <2>1 DEF Positions
  <2>6. g \in Seq(Lines)
    BY GapType
  <2>. QED
    BY <2>1, <2>3, <2>4, <2>5, <2>6
<1>2. SectionText(section, many, multi) = c \o (h \o k)
  BY DEF SectionText
<1>3. \A e \in section.keys : EntryFits(e, multi)
  BY DEF SectionFits
<1>4. GoodKeys(section.keys)
  BY DEF SectionFits
<1>5. CASE Unnamed(name)
  <2>0. x.section = name
    BY <1>5, Zenon DEF Unnamed
  <2>1. PICK y : /\ Path(s, y, many, multi) /\ OpenText(y) = OpenText(x) \o k
                 /\ y.behind /\ y.sections = x.sections \cup {x.section} /\ y.section = x.section
    <3>. DEFINE keys == section.keys
    <3>0. x.keys = {} /\ keys # {} /\ GoodKeys(keys) /\ (\A e \in keys : EntryFits(e, multi))
          /\ k = KeysText(keys, many, multi)
      BY <1>3, <1>4, <1>5
    <3>. HIDE DEF keys, k
    <3>1. PICK y : KeysEnd(s, x, y, keys, many, multi)
      BY <3>0, KeysWritten
    <3>. QED
      BY <3>0, <3>1 DEF KeysEnd
  <2>2. OpenText(y) = y.text
    <3>1. y \in Positions
      BY <2>1, PathText
    <3>. QED
      BY <2>1, <3>1, OpenTextType
  <2>3. OpenText(x) = t \o g
    <3>1. (x.section \notin x.sections /\ x.behind) <=> x.behind
      BY <2>0
    <3>. QED
      BY <3>1 DEF OpenText, Gap
  <2>4. c = <<>> /\ h = <<>>
    <3>1. c = <<>>
      BY <1>5 DEF SavedComment
    <3>2. h = <<>>
      BY <1>1, <1>5, HeaderTextIs
    <3>. QED
      BY <3>1, <3>2
  <2>5. y.text = (t \o g) \o k
    BY <2>1, <2>2, <2>3
  <2>. HIDE DEF t, g, c, h, k
  <2>6. c \o (h \o k) = k
    BY <1>1, <2>4, ConcatEmptySeq
  <2>7. (t \o g) \o k = t \o (g \o k)
    <3>1. t \in Seq(Lines) /\ g \in Seq(Lines) /\ k \in Seq(Lines)
      BY <1>1
    <3>. QED
      BY <3>1, Regroup
  <2>8. y.text = t \o (g \o SectionText(section, many, multi))
    BY <1>2, <2>5, <2>6, <2>7
  <2>. QED
    BY <2>0, <2>1, <2>8 DEF t, g, SectionEnd
<1>6. CASE ~Unnamed(name)
  <2>. DEFINE b == IF x.behind THEN 2 ELSE 0
              y == [text |-> t \o PieceText(b, c, h), behind |-> TRUE,
                    sections |-> x.sections \cup {name}, section |-> name, keys |-> {}, key |-> NoKey]
  <2>1. h = <<Header(name.first)>>
    BY <1>1, <1>6, HeaderTextIs
  <2>2. Whole(c) /\ (c # <<>> => x.behind)
    BY <1>6 DEF SectionFits, CommentOK, SavedComment, Whole
  <2>. HIDE DEF c, h
  <2>3. HeaderPiece(x, y, b, c, h, name)
    <3>1. name \in SavedNames /\ ~Unnamed(name)
      BY <1>1, <1>6
    <3>2. b = (IF x.behind THEN 2 ELSE 0)
      OBVIOUS
    <3>3. y = [text |-> x.text \o PieceText(b, c, h), behind |-> TRUE,
               sections |-> x.sections \cup {name}, section |-> name, keys |-> {}, key |-> NoKey]
      BY DEF t
    <3>. HIDE DEF b, y
    <3>. QED
      BY <2>1, <2>2, <3>1, <3>2, <3>3, Zenon DEF HeaderPiece
  <2>4. t \o PieceText(b, c, h) = t \o (g \o (c \o h))
    <3>1. b = IF x.behind THEN 2 ELSE 0
      OBVIOUS
    <3>. HIDE DEF b
    <3>2. Blanks(b) = g
      BY <3>1, BlanksParts DEF Gap
    <3>. QED
      BY <3>2 DEF PieceText
  <2>. HIDE DEF t, g, b, k
  <2>5. /\ y.text = t \o (g \o (c \o h)) /\ y.behind /\ y.sections = x.sections \cup {name}
        /\ y.section = name /\ y.keys = {}
    BY <2>4
  <2>. HIDE DEF y
  <2>6. StepTo(x, y, many, multi)
    BY <1>1, <2>2, <2>3 DEF StepTo, Piece
  <2>7. Path(s, y, many, multi)
    BY <2>6, PathLonger
  <2>8. OpenText(y) = y.text
    <3>1. y \in Positions
      BY <2>7, PathText
    <3>. QED
      BY <2>5, <3>1, OpenTextType
  <2>9. PICK z : /\ Path(s, z, many, multi) /\ OpenText(z) = OpenText(y) \o k
                 /\ section.keys = {} => z = y
                 /\ section.keys # {} => z.behind /\ z.sections = y.sections \cup {y.section}
                                         /\ y.section = z.section
    <3>. DEFINE keys == section.keys
    <3>0. y.keys = {} /\ GoodKeys(keys) /\ (\A e \in keys : EntryFits(e, multi))
          /\ k = KeysText(keys, many, multi)
      BY <1>3, <1>4, <2>5 DEF k
    <3>. HIDE DEF keys
    <3>1. PICK z : KeysEnd(s, y, z, keys, many, multi)
      BY <2>7, <3>0, KeysWritten
    <3>. QED
      BY <3>0, <3>1 DEF KeysEnd, keys
  <2>10. z.behind /\ z.sections = x.sections \cup {name} /\ z.section = name
    BY <2>5, <2>9
  <2>11. OpenText(z) = z.text
    <3>1. z \in Positions
      BY <2>9, PathText
    <3>. QED
      BY <2>10, <3>1, OpenTextType
  <2>12. z.text = (t \o (g \o (c \o h))) \o k
    BY <2>5, <2>8, <2>9, <2>11
  <2>13. (t \o (g \o (c \o h))) \o k = t \o (g \o (c \o (h \o k)))
    <3>1. t \in Seq(Lines) /\ g \in Seq(Lines) /\ c \in Seq(Lines) /\ h \in Seq(Lines) /\ k \in Seq(Lines)
      BY <1>1
    <3>2. RegroupsAll(t, g, c, h, k)
      <4>. HIDE DEF t, g, c, h, k
      <4>. QED
        BY <3>1, RegroupAll
    <3>. QED
      BY <3>2 DEF RegroupsAll
  <2>14. z.text = t \o (g \o SectionText(section, many, multi))
    BY <1>2, <2>12, <2>13
  <2>. QED
    BY <2>9, <2>10, <2>14 DEF t, g, SectionEnd
<1>. QED
  BY <1>5, <1>6

\* the comments of the table are comments a file can hold
CommentsOK ==
  /\ m_pFileComment # NULL =>
       /\ m_pFileComment.text # <<>>
       /\ \A i \in DOMAIN m_pFileComment.text : IsComment(m_pFileComment.text[i])
  /\ \A s \in DOMAIN m_data : /\ CommentOK(m_data[s].pComment)
                              /\ \A e \in m_data[s].keys : CommentOK(e.pComment)
  /\ load # NULL => CommentOK(load.pComment)
Written(text, many, multi) ==
  \E c \in Seq(Lines) : \E z :
    (\A i \in DOMAIN c : IsComment(c[i])) /\ Path(Start(c), z, many, multi) /\ text = z.text

\* what a file can hold, section by section
LEMMA SaveableParts ==
  ASSUME IniTypeOK, CommentsOK, Saveable
  PROVE  /\ \A s \in DOMAIN m_data : /\ SectionFits(m_data[s], m_bAllowMultiLine)
                                     /\ Unnamed(s) => /\ GetAllSections[1] = m_data[s]
                                                      /\ m_data[s].pComment = NULL
                                                      /\ m_data[s].keys # {}
         /\ DOMAIN m_data # {} /\ GetAllSections[1].pComment # NULL => m_pFileComment # NULL
<1>1. ASSUME NEW s \in DOMAIN m_data PROVE SectionFits(m_data[s], m_bAllowMultiLine)
  <2>. DEFINE section == m_data[s]
              multi == m_bAllowMultiLine
  <2>1. TableOK(m_data, m_nOrder)
    BY TypeParts
  <2>2. section \in SectionEntries /\ GoodKeys(section.keys)
    BY <2>1, TableParts
  <2>3. CommentOK(section.pComment) /\ \A e \in section.keys : CommentOK(e.pComment)
    BY DEF CommentsOK
  <2>4. \A e \in section.keys : e \in KeyEntries
    BY <2>2 DEF GoodKeys
  <2>5. s.rest = <<>> /\ \A e \in section.keys : ~Keyless(e.pItem.text) /\ Holds(e.value.text)
    BY Zenon DEF Saveable, Keyless, NoKey
  <2>9. section.pItem.text \in SavedNames
    <3>1. section.pItem.text = s /\ section.pItem.text \in Titles
      BY <2>1, <2>2, TableParts DEF SectionEntries, SectionNames
    <3>. QED
      BY <2>5, <3>1 DEF SavedNames
  <2>6. \A value : Holds(value) <=> Fits(value, multi)
    BY DEF Holds, Fits
  <2>. HIDE DEF section, multi
  <2>7. \A e \in section.keys : EntryFits(e, multi)
    BY <2>3, <2>4, <2>5, <2>6, Zenon DEF EntryFits
  <2>8. SectionFits(section, multi)
    BY <2>2, <2>3, <2>7, <2>9 DEF SectionFits
  <2>. QED
    BY <2>8 DEF section, multi
<1>2. ASSUME NEW s \in DOMAIN m_data, Unnamed(s)
      PROVE GetAllSections[1] = m_data[s] /\ m_data[s].pComment = NULL /\ m_data[s].keys # {}
  <2>1. NoName \in DOMAIN m_data => /\ GetAllSections[1] = m_data[NoName]
                                     /\ m_data[NoName].pComment = NULL /\ m_data[NoName].keys # {}
    BY Zenon DEF Saveable, NoName
  <2>2. s = NoName
    BY <1>2 DEF Unnamed
  <2>. QED
    BY <1>2, <2>1, <2>2, Zenon
<1>3. ASSUME DOMAIN m_data # {}, GetAllSections[1].pComment # NULL PROVE m_pFileComment # NULL
  <2>1. DOMAIN <<>> = {}
    OBVIOUS
  <2>2. m_data # <<>>
    BY <1>3, <2>1
  <2>. QED
    BY <1>3, <2>2, Zenon DEF Saveable
<1>. QED
  BY <1>1, <1>2, <1>3, Zenon

\* What Save writes of a table a file can hold is a file of such pieces, behind the
\* lines of the file comment.
LEMMA SavedWritten ==
  ASSUME IniTypeOK, CommentsOK, Saveable
  PROVE  Written(SavedText, m_bAllowMultiKey, m_bAllowMultiLine)
<1>. DEFINE S == SectionsOf(m_data)
            n == Cardinality(S)
            section(i) == Sorted(S)[i]
            name(i) == section(i).pItem.text
            many == m_bAllowMultiKey
            multi == m_bAllowMultiLine
            fc == m_pFileComment
            c == SavedComment(fc)
            texts == SectionTexts(fc, m_data, many, multi)
            text(i) == SectionText(section(i), many, multi)
<1>1. TableOK(m_data, m_nOrder) /\ fc \in Comments
  BY TypeParts DEF IniTypeOK
<1>2. /\ n \in Nat /\ texts \in [1..n -> Seq(Lines)]
      /\ \A i \in 1..n : texts[i] = Gap(i > 1 \/ fc # NULL) \o text(i)
  <2>1. n \in Nat /\ texts \in [1..n -> Seq(Lines)]
    BY <1>1, SectionsTextType
  <2>2. \A i \in 1..n : texts[i] = Gap(i > 1 \/ fc # NULL) \o text(i)
    BY DEF SectionTexts
  <2>. QED
    BY <2>1, <2>2
<1>3. \A i \in 1..n : section(i) \in S /\ Rank(S, section(i)) = i
  BY <1>1, TableParts, SortedIsSorted
<1>4. \A i \in 1..n : name(i) \in DOMAIN m_data /\ section(i) = m_data[name(i)]
  BY <1>1, <1>3, TableParts
<1>5. \A i, j \in 1..n : section(i) = section(j) => i = j
  <2>. HIDE DEF S, n, section
  <2>. QED
    BY <1>3
<1>6. \A i, j \in 1..n : name(i) = name(j) => i = j
  <2>. HIDE DEF S, n, section, name
  <2>. QED
    BY <1>4, <1>5
<1>7. GetAllSections[1] = section(1)
  BY DEF GetAllSections, SectionsOf
<1>8. \A i \in 1..n : /\ SectionFits(section(i), multi)
                      /\ Unnamed(name(i)) => /\ i = 1 /\ section(i).pComment = NULL
                                             /\ section(i).keys # {}
                      /\ i = 1 /\ section(i).pComment # NULL => fc # NULL
  <2>1. ASSUME NEW i \in 1..n
        PROVE  /\ SectionFits(section(i), multi)
               /\ Unnamed(name(i)) => /\ section(1) = section(i) /\ section(i).pComment = NULL
                                      /\ section(i).keys # {}
    BY <1>4, <1>7, SaveableParts
  <2>2. ASSUME NEW i \in 1..n PROVE i = 1 /\ section(i).pComment # NULL => fc # NULL
    BY <1>4, <1>7, SaveableParts
  <2>3. n > 0 => 1 \in 1..n
    BY <1>2
  <2>4. ASSUME NEW i \in 1..n, section(1) = section(i) PROVE i = 1
    <3>1. 1 \in 1..n
      BY <1>2
    <3>. HIDE DEF section, n
    <3>. QED
      BY <1>5, <2>4, <3>1
  <2>. HIDE DEF section, n, name, multi, fc
  <2>. QED
    BY <2>1, <2>2, <2>4
<1>9. /\ c \in Seq(Lines) /\ (\A i \in DOMAIN c : IsComment(c[i])) /\ (c # <<>> <=> fc # NULL)
  <2>1. c \in Seq(Lines)
    BY <1>1, CommentTextType
  <2>2. CASE fc = NULL
    BY <2>1, <2>2 DEF SavedComment
  <2>3. CASE fc # NULL
    BY <2>1, <2>3 DEF SavedComment, CommentsOK
  <2>. QED
    BY <2>2, <2>3
<1>10. SavedText = c \o FlattenSeq(texts)
  BY SavedTextIs DEF TableText
<1>. HIDE DEF S, n, section, name, many, multi, fc, c, texts, text
<1>11. PICK f \in [0..n -> Seq(Lines)] :
        f[0] = <<>> /\ (\A i \in 1..n : f[i] = f[i - 1] \o texts[i]) /\ FlattenSeq(texts) = f[n]
  <2>1. texts \in Seq(Seq(Lines)) /\ Len(texts) = n
    BY <1>2
  <2>. QED
    BY <2>1, FlattenSteps
<1>. DEFINE s == Start(c)
            Here(i, y) == /\ Path(s, y, many, multi) /\ y.text = c \o f[i]
                          /\ y.sections = {name(j) : j \in 1..i}
                          /\ y.behind <=> (i > 0 \/ fc # NULL)
                          /\ i = 0 => y = s
            P == {i \in Nat : i \in 0..n => \E y : Here(i, y)}
<1>12. s \in Positions /\ s.text = c /\ (s.behind <=> fc # NULL) /\ s.sections = {} /\ s.keys = {}
       /\ Unnamed(s.section)
  <2>1. s = [text |-> c, behind |-> c # <<>>, sections |-> {}, section |-> NoName, keys |-> {},
             key |-> NoKey]
    BY DEF Start
  <2>2. s \in Positions
    BY <1>9, <2>1, NamesParts DEF Positions
  <2>. HIDE DEF s
  <2>3. s.text = c /\ s.behind = (c # <<>>) /\ s.sections = {} /\ s.section = NoName /\ s.keys = {}
    BY <2>1
  <2>. QED
    BY <1>9, <2>2, <2>3, NamesParts
<1>. HIDE DEF s
<1>13. 0 \in P
  <2>1. Path(s, s, many, multi)
    BY <1>12, PathHere
  <2>2. c = c \o f[0]
    BY <1>9, <1>11, ConcatEmptySeq
  <2>3. {name(j) : j \in 1..0} = {}
    OBVIOUS
  <2>4. Here(0, s)
    BY <1>12, <2>1, <2>2, <2>3
  <2>. HIDE DEF Here
  <2>. QED
    BY <2>4
<1>14. ASSUME NEW i \in Nat, i \in P PROVE i + 1 \in P
  <2>0. SUFFICES ASSUME i + 1 \in 0..n PROVE \E y : Here(i + 1, y)
    <3>. HIDE DEF Here
    <3>. QED
      OBVIOUS
  <2>1. i \in 0..n /\ i + 1 \in 1..n /\ (i + 1) - 1 = i /\ i + 1 # 0
        /\ (i + 1 = 1 <=> i = 0) /\ (i + 1 > 1 <=> i > 0) /\ i + 1 > 0
        /\ \A j \in 1..i : j \in 1..n /\ j # i + 1
    BY <1>2, <2>0
  <2>2. PICK y : Here(i, y)
    BY <1>14, <2>1
  <2>. DEFINE x == section(i + 1)
              g == Gap(i + 1 > 1 \/ fc # NULL)
  <2>3. /\ SectionFits(x, multi) /\ name(i + 1) = x.pItem.text /\ name(i + 1) \notin y.sections
        /\ ~Unnamed(name(i + 1)) /\ x.pComment # NULL => y.behind
        /\ Unnamed(name(i + 1)) => Unnamed(y.section) /\ y.keys = {} /\ x.pComment = NULL /\ x.keys # {}
    <3>1. SectionFits(x, multi)
      BY <1>8, <2>1
    <3>2. name(i + 1) = x.pItem.text
      BY DEF name
    <3>3. name(i + 1) \notin y.sections
      BY <1>6, <2>1, <2>2
    <3>4. x.pComment # NULL => y.behind
      BY <1>8, <2>1, <2>2
    <3>5. ASSUME Unnamed(name(i + 1))
          PROVE  Unnamed(y.section) /\ y.keys = {} /\ x.pComment = NULL /\ x.keys # {}
      <4>1. i + 1 = 1 /\ x.pComment = NULL /\ x.keys # {}
        BY <1>8, <2>1, <3>5
      <4>2. y = s
        BY <2>1, <2>2, <4>1
      <4>. QED
        BY <1>12, <4>1, <4>2
    <3>. QED
      BY <3>1, <3>2, <3>3, <3>4, <3>5
  <2>4. PICK z : /\ Path(s, z, many, multi) /\ z.behind /\ z.sections = y.sections \cup {name(i + 1)}
                 /\ z.text = y.text \o (Gap(y.behind) \o SectionText(x, many, multi))
    <3>. DEFINE k == name(i + 1)
    <3>. HIDE DEF x, k
    <3>1. /\ SectionFits(x, multi) /\ k = x.pItem.text /\ k \notin y.sections
          /\ ~Unnamed(k) /\ x.pComment # NULL => y.behind
          /\ Unnamed(k) => Unnamed(y.section) /\ y.keys = {} /\ x.pComment = NULL /\ x.keys # {}
      BY <2>3 DEF k
    <3>2. Path(s, y, many, multi)
      BY <2>2
    <3>. QED
      <4>1. PICK z : SectionEnd(s, y, z, x, many, multi)
        BY <3>1, <3>2, SectionWritten
      <4>. QED
        BY <3>1, <4>1 DEF k, SectionEnd
  <2>5. Gap(y.behind) = g
    BY <2>1, <2>2 DEF Gap
  <2>6. texts[i + 1] = g \o SectionText(x, many, multi) /\ texts[i + 1] \in Seq(Lines)
    BY <1>2, <2>1 DEF text
  <2>7. f[i + 1] = f[i] \o texts[i + 1] /\ f[i] \in Seq(Lines)
    BY <1>11, <2>1
  <2>8. z.text = c \o f[i + 1]
    <3>. DEFINE a == f[i]
                b == texts[i + 1]
    <3>1. a \in Seq(Lines) /\ b \in Seq(Lines) /\ c \in Seq(Lines)
      BY <1>9, <2>6, <2>7
    <3>2. z.text = (c \o a) \o b
      BY <2>2, <2>4, <2>5, <2>6
    <3>3. f[i + 1] = a \o b
      BY <2>7
    <3>. HIDE DEF a, b
    <3>4. (c \o a) \o b = c \o (a \o b)
      BY <3>1, Regroup
    <3>. QED
      BY <3>2, <3>3, <3>4
  <2>9. z.sections = {name(j) : j \in 1..i + 1}
    <3>1. \A j : j \in 1..i + 1 <=> j \in 1..i \/ j = i + 1
      OBVIOUS
    <3>2. z.sections = {name(j) : j \in 1..i} \cup {name(i + 1)}
      BY <2>2, <2>4
    <3>. QED
      BY <3>1, <3>2
  <2>10. Here(i + 1, z)
    BY <2>1, <2>4, <2>8, <2>9
  <2>. HIDE DEF Here
  <2>. QED
    BY <2>10
<1>15. n \in Nat /\ n \in 0..n
  BY <1>2
<1>. HIDE DEF P
<1>16. n \in P
  BY <1>13, <1>14, <1>15, SetInduction
<1>17. PICK y : Here(n, y)
  <2>. HIDE DEF Here
  <2>. QED
    BY <1>15, <1>16 DEF P
<1>18. SavedText = y.text
  BY <1>10, <1>11, <1>17
<1>19. Written(SavedText, many, multi)
  BY <1>9, <1>17, <1>18 DEF Written, s
<1>. QED
  BY <1>19 DEF many, multi

-----------------------------------------------------------------------------
(* Lines that are read *)

\* a line is of one kind
LEMMA KindsApart ==
  ASSUME NEW line \in Lines
  PROVE  /\ IsComment(line) => /\ ~Is("text", line) /\ ~Is("padded", line) /\ ~Is("header", line)
                               /\ ~Is("open", line) /\ ~Is("tag", line) /\ ~IsKeyLine(line)
         /\ Is("header", line) => /\ ~Is("text", line) /\ ~Is("padded", line) /\ ~Is("open", line)
                                  /\ ~Is("tag", line) /\ ~IsComment(line) /\ ~IsKeyLine(line)
         /\ Is("text", line) => ~Is("header", line) /\ ~Is("open", line) /\ ~IsComment(line) /\ ~IsKeyLine(line)
         /\ IsKeyLine(line) => /\ ~Is("text", line) /\ ~Is("padded", line) /\ ~Is("header", line)
                               /\ ~Is("open", line) /\ ~Is("tag", line) /\ ~IsComment(line)
<1>1. \/ DOMAIN line.body = {"text"} \/ DOMAIN line.body = {"padded"} \/ DOMAIN line.body = {"comment"}
      \/ DOMAIN line.body = {"header"} \/ DOMAIN line.body = {"open"} \/ DOMAIN line.body = {"tag"}
  BY DEF Lines, Bodies
<1>. QED
  BY <1>1 DEF Is, IsComment, IsKeyLine

\* the lines that Save makes are of the kinds they are read as
LEMMA LineKinds ==
  /\ \A w : Is("text", Text(w)) /\ Is("header", Header(w)) /\ Header(w).body.header = w
  /\ Is("text", Blank) /\ ~IsComment(Blank) /\ ~Is("header", Blank) /\ ~IsKeyLine(Blank)
  /\ \A k \in STRING, line \in Lines : /\ IsKeyLine(KeyLine(k, line)) /\ KeyOf(KeyLine(k, line)) = k
                                       /\ ValueOf(KeyLine(k, line)) = line
  /\ \A w : Is("tag", Tag(w)) /\ Tag(w).body.tag = w
  /\ \A w \in STRING : Header(w) # Blank
  /\ \A k \in STRING, line \in Lines : KeyLine(k, line) # Blank
<1>1. \A w : Is("text", Text(w)) /\ Is("header", Header(w)) /\ Header(w).body.header = w
  BY DEF Is, Text, Header, Plain
<1>2. Is("text", Blank) /\ Blank \in Lines
  BY <1>1, LineTypes, Zenon DEF Blank
<1>3. ~IsComment(Blank) /\ ~Is("header", Blank) /\ ~IsKeyLine(Blank)
  BY <1>2, KindsApart
<1>4. ASSUME NEW k \in STRING, NEW line \in Lines
      PROVE  /\ IsKeyLine(KeyLine(k, line)) /\ KeyOf(KeyLine(k, line)) = k
             /\ ValueOf(KeyLine(k, line)) = line
  <2>. DEFINE names == <<k>> \o line.names
  <2>1. line.names \in Seq(STRING) /\ line = [names |-> line.names, body |-> line.body, brackets |-> line.brackets]
    BY DEF Lines
  <2>2. names # <<>> /\ Head(names) = k /\ Tail(names) = line.names
    BY <2>1
  <2>. HIDE DEF names
  <2>3. KeyLine(k, line) = [names |-> names, body |-> line.body, brackets |-> line.brackets]
    <3>1. KeyLine(k, line) = [line EXCEPT !.names = names]
      BY DEF KeyLine, names
    <3>2. \A line1 \in Lines : [line1 EXCEPT !.names = names]
                                   = [names |-> names, body |-> line1.body, brackets |-> line1.brackets]
      BY DEF Lines
    <3>. QED
      BY <3>1, <3>2
  <2>4. ValueOf(KeyLine(k, line)) = line
    BY <2>1, <2>2, <2>3 DEF ValueOf
  <2>. QED
    BY <2>2, <2>3, <2>4 DEF IsKeyLine, KeyOf
<1>5. \A w \in STRING : Header(w) # Blank
  BY <1>1, <1>3
<1>6. \A k \in STRING, line \in Lines : KeyLine(k, line) # Blank
  BY <1>3, <1>4
<1>7. \A w : Is("tag", Tag(w)) /\ Tag(w).body.tag = w
  BY DEF Is, Tag, Plain
<1>. QED
  BY <1>1, <1>2, <1>3, <1>4, <1>5, <1>6, <1>7

\* a comment is read to its end
LEMMA CommentAhead ==
  ASSUME NEW c \in Seq(Lines), NEW d \in Seq(Lines), NEW blanks,
         \A i \in 1..Len(c) : IsComment(c[i]) \/ (blanks /\ c[i] = Blank),
         c # <<>> => IsComment(c[Len(c)]),
         d # <<>> => ~IsComment(d[1]) /\ ~(blanks /\ d[1] = Blank)
  PROVE  CommentLines(c \o d, blanks) = Len(c)
<1>. DEFINE q == c \o d
            m == Len(c)
            inside(n) == \A i \in 1..n : IsComment(q[i]) \/ (blanks /\ q[i] = Blank)
            S == {0} \cup {n \in 1..Len(q) : inside(n) /\ IsComment(q[n])}
<1>1. /\ q \in Seq(Lines) /\ m \in Nat /\ Len(d) \in Nat /\ Len(q) = m + Len(d)
      /\ \A i \in 1..m : q[i] = c[i]
      /\ Len(d) > 0 => q[m + 1] = d[1]
  <2>1. m \in Nat /\ Len(d) \in Nat /\ q \in Seq(Lines) /\ Len(q) = m + Len(d)
    BY ConcatProperties
  <2>2. \A i \in 1..m + Len(d) : q[i] = IF i <= m THEN c[i] ELSE d[i - m]
    BY ConcatProperties
  <2>3. \A i \in 1..m : i \in 1..m + Len(d) /\ i <= m
    BY <2>1
  <2>4. Len(d) > 0 => m + 1 \in 1..m + Len(d) /\ ~(m + 1 <= m) /\ (m + 1) - m = 1
    BY <2>1
  <2>. HIDE DEF q, m
  <2>. QED
    BY <2>1, <2>2, <2>3, <2>4
<1>2. CommentLines(q, blanks) = Max(S)
  BY DEF CommentLines
<1>3. Len(d) > 0 <=> d # <<>>
  BY <1>1
<1>. HIDE DEF q, m
<1>4. m \in S
  <2>1. CASE m = 0
    BY <2>1
  <2>2. CASE m # 0
    <3>1. m \in 1..Len(q) /\ c # <<>>
      BY <1>1, <2>2 DEF m
    <3>2. IsComment(q[m])
      BY <1>1, <2>2, <3>1 DEF m
    <3>3. inside(m)
      BY <1>1 DEF m
    <3>. QED
      BY <3>1, <3>2, <3>3
  <2>. QED
    BY <2>1, <2>2
<1>5. \A n \in S : n \in Nat /\ n <= m
  <2>1. SUFFICES ASSUME NEW n \in 1..Len(q), inside(n), ~(n <= m) PROVE FALSE
    BY <1>1
  <2>2. m + 1 \in 1..n /\ Len(d) > 0
    BY <1>1, <2>1
  <2>3. IsComment(q[m + 1]) \/ (blanks /\ q[m + 1] = Blank)
    BY <2>1, <2>2
  <2>. QED
    BY <1>1, <1>3, <2>2, <2>3
<1>. HIDE DEF S
<1>6. S \subseteq Nat /\ S # {} /\ \A n \in S : n <= m
  BY <1>4, <1>5
<1>7. Max(S) \in S /\ \A n \in S : n <= Max(S)
  BY <1>1, <1>6, MaxIsGreatest
<1>8. Max(S) = m
  <2>1. Max(S) \in Nat /\ Max(S) <= m
    BY <1>5, <1>7
  <2>2. m <= Max(S)
    BY <1>4, <1>7
  <2>. QED
    BY <1>1, <2>1, <2>2
<1>. QED
  BY <1>2, <1>8 DEF q, m

\* the value of a block is read to its end tag
LEMMA ValueAhead ==
  ASSUME NEW value \in Seq(Lines), EndTag \notin ToSet(value), NEW rest \in Seq(Lines)
  PROVE  LinesOfValue(value \o (<<EndTag>> \o rest), EndTag) = Len(value)
<1>. DEFINE d == <<EndTag>> \o rest
            q == value \o d
            m == Len(value)
            S == {Len(q)} \cup {n - 1 : n \in {i \in 1..Len(q) : q[i] = EndTag}}
<1>0. d \in Seq(Lines) /\ Len(d) \in Nat \ {0} /\ d[1] = EndTag
  <2>. DEFINE e == EndTag
              one == <<e>>
  <2>0. e \in Lines
    BY LineTypes
  <2>. HIDE DEF e
  <2>1. one \in Seq(Lines) /\ Len(one) = 1 /\ one[1] = e
    BY <2>0
  <2>. HIDE DEF one
  <2>2. one \o rest \in Seq(Lines) /\ Len(one \o rest) = 1 + Len(rest) /\ Len(rest) \in Nat
        /\ (one \o rest)[1] = e
    BY <2>1, ConcatProperties
  <2>. QED
    BY <2>2 DEF one, e
<1>. HIDE DEF d
<1>1. /\ m \in Nat /\ q \in Seq(Lines) /\ Len(q) \in Nat /\ m + 1 \in 1..Len(q) /\ q[m + 1] = EndTag
      /\ \A i \in 1..m : q[i] # EndTag
  <2>1. m \in Nat /\ Len(d) \in Nat /\ q \in Seq(Lines) /\ Len(q) = m + Len(d)
    BY <1>0, ConcatProperties
  <2>2. \A i \in 1..m + Len(d) : q[i] = IF i <= m THEN value[i] ELSE d[i - m]
    BY <1>0, ConcatProperties
  <2>3. m + 1 \in 1..m + Len(d) /\ ~(m + 1 <= m) /\ (m + 1) - m = 1
    BY <1>0, <2>1
  <2>4. \A i \in 1..m : i \in 1..m + Len(d) /\ i <= m
    BY <2>1
  <2>5. \A i \in 1..m : value[i] # EndTag
    BY DEF ToSet
  <2>. HIDE DEF q, m
  <2>. QED
    BY <1>0, <2>1, <2>2, <2>3, <2>4, <2>5
<1>2. LinesOfValue(q, EndTag) = Min(S)
  BY DEF LinesOfValue
<1>. HIDE DEF q, m
<1>3. m \in S
  BY <1>1
<1>4. \A n \in S : n \in Nat /\ m <= n
  <2>1. ASSUME NEW i \in 1..Len(q), q[i] = EndTag PROVE i - 1 \in Nat /\ m <= i - 1
    <3>1. i \notin 1..m
      BY <1>1, <2>1
    <3>. QED
      BY <1>1, <3>1
  <2>. QED
    BY <1>1, <2>1
<1>. HIDE DEF S
<1>5. Min(S) \in S /\ \A n \in S : Min(S) <= n
  BY <1>3, <1>4, MinIsLeast
<1>6. Min(S) = m
  <2>1. Min(S) \in Nat /\ m <= Min(S)
    BY <1>4, <1>5
  <2>2. Min(S) <= m
    BY <1>3, <1>5
  <2>. QED
    BY <1>1, <2>1, <2>2
<1>. QED
  BY <1>2, <1>6 DEF q, m, d

-----------------------------------------------------------------------------
(* Where LoadData is in such a file: behind a part of it that the table    *)
(* matches, and before or in the piece that comes next                     *)

Coming(b, c, body, rest) == Blanks(b) \o (c \o (body \o rest))
Ahead(ld, c, body, rest) ==
  \/ ld.pComment = NULL /\ \E j \in Nat : ld.data = Coming(j, c, body, rest)
  \/ c # <<>> /\ ld.pComment # NULL /\ ld.pComment.text = c /\ ld.data = body \o rest
Matches(x, fc, data, name, many, multi) ==
  /\ TableText(fc, data, many, multi) = x.text
  /\ x.behind <=> fc # NULL \/ DOMAIN data # {}
  /\ x.sections = DOMAIN data /\ x.section = name
  /\ name \notin DOMAIN data => Unnamed(name) /\ DOMAIN data = {} /\ x.keys = {}
  /\ name \in DOMAIN data =>
       /\ \A s \in DOMAIN data : data[s].nOrder <= data[name].nOrder
       /\ x.keys = {e.pItem.text : e \in data[name].keys}
       /\ \A g, h \in Firsts(data[name].keys) : g.pItem.text = x.key => h.nOrder <= g.nOrder
InPiece(ld, x, z, text, many, multi) ==
  \E y, b, c, body : /\ Piece(x, y, b, c, body, many, multi) /\ Path(y, z, many, multi)
                     /\ \E rest \in Seq(Lines) : text = y.text \o rest /\ Ahead(ld, c, body, rest)
Reading(ld, fc, data, text, many, multi) ==
  \E x, z : /\ x \in Positions /\ z.text = text
            /\ Matches(x, fc, data, ld.pSection.text, many, multi) /\ ~ld.runsOn
            /\ \/ x = z /\ ld.data = <<>> /\ ld.pComment = NULL
               \/ InPiece(ld, x, z, text, many, multi)

\* how a piece begins
LEMMA BodyBegins ==
  ASSUME NEW x \in Positions, NEW y, NEW b, NEW c, NEW body, NEW many, NEW multi,
         Piece(x, y, b, c, body, many, multi)
  PROVE  /\ body[1] \in Lines /\ ~IsComment(body[1]) /\ body[1] # Blank
         /\ b = 0 => c = <<>>
<1>1. ASSUME NEW name, HeaderPiece(x, y, b, c, body, name)
      PROVE  body[1] \in Lines /\ ~IsComment(body[1]) /\ body[1] # Blank /\ (b = 0 => c = <<>>)
  <2>. DEFINE line == Header(name.first)
  <2>1. /\ name \in SavedNames /\ body = <<line>> /\ b = (IF x.behind THEN 2 ELSE 0)
        /\ c # <<>> => x.behind
    BY <1>1, Zenon DEF HeaderPiece
  <2>2. line \in Lines /\ Is("header", line) /\ line # Blank
    <3>1. name.first \in STRING
      BY <2>1, NamesParts
    <3>. QED
      BY <3>1, LineTypes, LineKinds
  <2>3. ~IsComment(line)
    BY <2>2, KindsApart
  <2>. HIDE DEF line
  <2>4. body[1] = line
    BY <2>1
  <2>. QED
    BY <2>1, <2>2, <2>3, <2>4
<1>2. ASSUME NEW k, NEW value, EntryPiece(x, y, b, c, body, k, value, many, multi)
      PROVE  body[1] \in Lines /\ ~IsComment(body[1]) /\ body[1] # Blank /\ (b = 0 => c = <<>>)
  <2>. DEFINE line == IF multi /\ IsMultiLineData(value) THEN Tag("END_OF_TEXT") ELSE value[1]
  <2>1. /\ k \in STRING /\ value \in Seq(Lines) \ {<<>>} /\ body = ValueText(k, value, multi)
        /\ b = (IF x.section \notin x.sections /\ x.behind THEN 2 ELSE 0) + (IF c = <<>> THEN 0 ELSE 1)
    BY <1>2, Zenon DEF EntryPiece
  <2>2. b = 0 => c = <<>>
    BY <2>1
  <2>3. line \in Lines
    BY <2>1, LineTypes
  <2>4. body[1] = KeyLine(k, line)
    BY <2>1, <2>3 DEF ValueText
  <2>. HIDE DEF line
  <2>5. KeyLine(k, line) \in Lines /\ IsKeyLine(KeyLine(k, line)) /\ KeyLine(k, line) # Blank
    BY <2>1, <2>3, LineTypes, LineKinds
  <2>6. ~IsComment(KeyLine(k, line))
    BY <2>5, KindsApart
  <2>. QED
    BY <2>2, <2>4, <2>5, <2>6
<1>. QED
  BY <1>1, <1>2 DEF Piece

\* a piece is its blank lines, its comment and its body
LEMMA PieceBehind ==
  ASSUME NEW b \in Nat, NEW c \in Seq(Lines), NEW body \in Seq(Lines), NEW rest \in Seq(Lines)
  PROVE  PieceText(b, c, body) \o rest = Coming(b, c, body, rest)
<1>. DEFINE g == Blanks(b)
            t == c \o body
            u == body \o rest
<1>1. g \in Seq(Lines) /\ t \in Seq(Lines) /\ u \in Seq(Lines) /\ c \o u \in Seq(Lines)
  BY BlanksParts, LinesJoined
<1>2. t \o rest = c \o u
  BY Regroup
<1>3. PieceText(b, c, body) = g \o t
  BY DEF PieceText
<1>. HIDE DEF g, t
<1>4. (g \o t) \o rest = g \o (t \o rest)
  BY <1>1, Regroup
<1>. QED
  BY <1>1, <1>2, <1>3, <1>4 DEF g, Coming

\* the piece that follows, in the data it is read from
NextPiece(x, z, d, y, b, c, body, rest, many, multi) ==
  /\ Piece(x, y, b, c, body, many, multi) /\ Path(y, z, many, multi) /\ rest \in Seq(Lines)
  /\ z.text = y.text \o rest /\ d = Coming(b, c, body, rest) /\ b \in Nat
\* the first piece behind a position that is not the last one is next in the data
LEMMA PieceFollows ==
  ASSUME NEW many, NEW multi, NEW x, NEW z, x # z, Path(x, z, many, multi),
         NEW d \in Seq(Lines), z.text = x.text \o d
  PROVE  \E y, b, c, body, rest : NextPiece(x, z, d, y, b, c, body, rest, many, multi)
<1>1. x \in Positions /\ z \in Positions /\ x.text \in Seq(Lines)
  BY PathText DEF Positions
<1>2. PICK y \in Positions : StepTo(x, y, many, multi) /\ Path(y, z, many, multi)
  BY PathFirst
<1>3. PICK b, c, body : Piece(x, y, b, c, body, many, multi)
  BY <1>2 DEF StepTo
<1>4. /\ b \in Nat /\ c \in Seq(Lines) /\ body \in Seq(Lines) /\ PieceText(b, c, body) \in Seq(Lines)
      /\ y.text = x.text \o PieceText(b, c, body)
  BY <1>1, <1>3, PieceParts
<1>5. PICK rest \in Seq(Lines) : z.text = y.text \o rest
  BY <1>2, PathText
<1>. DEFINE t == x.text
            p == PieceText(b, c, body)
<1>6. p \o rest = Coming(b, c, body, rest)
  BY <1>4, PieceBehind
<1>7. t \in Seq(Lines) /\ p \in Seq(Lines) /\ (t \o p) \o rest = t \o d
  BY <1>1, <1>4, <1>5
<1>. HIDE DEF t, p
<1>8. (t \o p) \o rest = t \o (p \o rest) /\ p \o rest \in Seq(Lines)
  BY <1>7, Regroup, LinesJoined
<1>9. d = p \o rest
  <2>. DEFINE w == p \o rest
  <2>1. w \in Seq(Lines) /\ t \o d = t \o w
    BY <1>7, <1>8
  <2>. HIDE DEF w
  <2>2. d = w
    BY <1>7, <2>1, Cancel
  <2>. QED
    BY <2>2 DEF w
<1>10. NextPiece(x, z, d, y, b, c, body, rest, many, multi)
  BY <1>2, <1>3, <1>4, <1>5, <1>6, <1>9 DEF NextPiece
<1>. QED
  BY <1>10

\* behind a piece, or the comment of the file, the next one begins
LEMMA Boundary ==
  ASSUME NEW ld, ld.pComment = NULL, ~ld.runsOn, ld.data \in Seq(Lines), NEW fc, NEW data,
         NEW many, NEW multi, NEW x, NEW z, Path(x, z, many, multi),
         Matches(x, fc, data, ld.pSection.text, many, multi), z.text = x.text \o ld.data
  PROVE  Reading(ld, fc, data, z.text, many, multi)
<1>1. x \in Positions /\ z \in Positions /\ x.text \in Seq(Lines)
  BY PathText DEF Positions
<1>2. CASE x = z
  <2>. DEFINE t == x.text
              d == ld.data
  <2>1. t \in Seq(Lines) /\ d \in Seq(Lines) /\ t = t \o d
    BY <1>1, <1>2
  <2>. HIDE DEF t, d
  <2>2. t \o <<>> = t /\ <<>> \in Seq(Lines)
    BY <2>1, ConcatEmptySeq
  <2>3. d = <<>>
    BY <2>1, <2>2, Cancel
  <2>4. ld.data = <<>>
    BY <2>3 DEF d
  <2>. QED
    BY <1>1, <1>2, <2>4 DEF Reading
<1>3. CASE x # z
  <2>. DEFINE d == ld.data
  <2>1. d \in Seq(Lines) /\ z.text = x.text \o d
    OBVIOUS
  <2>. HIDE DEF d
  <2>2. PICK y, b, c, body, rest : NextPiece(x, z, d, y, b, c, body, rest, many, multi)
    BY <1>3, <2>1, PieceFollows
  <2>3. /\ Piece(x, y, b, c, body, many, multi) /\ Path(y, z, many, multi) /\ rest \in Seq(Lines)
        /\ z.text = y.text \o rest /\ ld.data = Coming(b, c, body, rest) /\ b \in Nat
    BY <2>2 DEF NextPiece, d
  <2>4. Ahead(ld, c, body, rest)
    BY <2>3 DEF Ahead
  <2>5. InPiece(ld, x, z, z.text, many, multi)
    BY <2>3, <2>4 DEF InPiece
  <2>. QED
    BY <1>1, <2>5 DEF Reading
<1>. QED
  BY <1>2, <1>3

\* a sequence in front of another one, and what is behind it
LEMMA Behind ==
  ASSUME NEW a \in Seq(Lines), NEW b \in Seq(Lines)
  PROVE  /\ SubSeq(a \o b, 1, Len(a)) = a /\ From(a \o b, Len(a) + 1) = b
         /\ a # <<>> => (a \o b)[1] = a[1]
<1>1. SubSeq(a \o b, 1, Len(a)) = a /\ SubSeq(a \o b, Len(a) + 1, Len(a \o b)) = b
  BY Cancel
<1>2. ASSUME a # <<>> PROVE (a \o b)[1] = a[1]
  <2>1. Len(a) \in Nat \ {0} /\ Len(b) \in Nat
    BY <1>2
  <2>2. \A i \in 1..Len(a) + Len(b) : (a \o b)[i] = IF i <= Len(a) THEN a[i] ELSE b[i - Len(a)]
    BY ConcatProperties
  <2>3. 1 \in 1..Len(a) + Len(b) /\ 1 <= Len(a)
    BY <2>1
  <2>. QED
    BY <2>2, <2>3
<1>. QED
  BY <1>1, <1>2 DEF From

AtBlank(ld, c, body, rest) ==
  /\ ld.data[1] = Blank /\ ld.pComment = NULL
  /\ \E j \in Nat : From(ld.data, 2) = Coming(j, c, body, rest)
AtComment(ld, c, body, rest) ==
  /\ c # <<>> /\ ld.pComment = NULL /\ IsComment(ld.data[1])
  /\ CommentLines(ld.data, TRUE) = Len(c) /\ SubSeq(ld.data, 1, Len(c)) = c
  /\ From(ld.data, Len(c) + 1) = body \o rest
AtBody(ld, c, body, rest) ==
  /\ ld.data = body \o rest /\ ld.data[1] = body[1]
  /\ c = SavedComment(ld.pComment) /\ (ld.pComment # NULL => c # <<>>)

\* the next line is a blank line, the comment or the header or entry itself
LEMMA FirstAhead ==
  ASSUME NEW ld, NEW c \in Seq(Lines), Whole(c), NEW body \in Seq(Lines), body # <<>>,
         ~IsComment(body[1]), body[1] # Blank, NEW rest \in Seq(Lines), Ahead(ld, c, body, rest)
  PROVE  \/ AtBlank(ld, c, body, rest) \/ AtComment(ld, c, body, rest) \/ AtBody(ld, c, body, rest)
<1>. DEFINE u == body \o rest
            t == c \o u
            q == ld.data
<1>1. u \in Seq(Lines) /\ t \in Seq(Lines)
  BY LinesJoined
<1>2. u # <<>> /\ u[1] = body[1]
  <2>1. Len(u) = Len(body) + Len(rest) /\ Len(body) \in Nat \ {0} /\ Len(rest) \in Nat
    BY ConcatProperties
  <2>2. u[1] = body[1]
    BY Behind
  <2>. HIDE DEF u
  <2>. QED
    BY <2>1, <2>2
<1>. HIDE DEF u
<1>3. ASSUME NEW j \in Nat, j # 0, q = Coming(j, c, body, rest), ld.pComment = NULL
      PROVE  AtBlank(ld, c, body, rest)
  <2>. DEFINE i == j - 1
              g == Blanks(1)
              h == Blanks(i)
  <2>1. i \in Nat /\ j = 1 + i
    BY <1>3
  <2>. HIDE DEF i
  <2>2. Blanks(j) = g \o h /\ g \in Seq(Lines) /\ h \in Seq(Lines) /\ g = <<Blank>>
    BY <2>1, BlanksJoined, BlanksParts
  <2>. HIDE DEF g, h
  <2>3. q = (g \o h) \o t
    BY <1>3, <2>2 DEF Coming, u
  <2>4. h \o t = Coming(i, c, body, rest) /\ h \o t \in Seq(Lines)
    BY <1>1, <2>2, LinesJoined DEF Coming, u, h
  <2>. HIDE DEF t
  <2>5. (g \o h) \o t = g \o (h \o t)
    BY <1>1, <2>2, Regroup
  <2>. DEFINE w == h \o t
  <2>6. w \in Seq(Lines) /\ q = g \o w
    BY <2>3, <2>4, <2>5
  <2>. HIDE DEF w, q
  <2>7. Len(g) = 1 /\ g # <<>> /\ g[1] = Blank
    BY <2>2
  <2>8. From(g \o w, Len(g) + 1) = w /\ (g \o w)[1] = g[1]
    BY <2>2, <2>6, <2>7, Behind
  <2>9. From(q, 2) = w /\ q[1] = Blank
    BY <2>6, <2>7, <2>8
  <2>10. w = Coming(i, c, body, rest)
    BY <2>4 DEF w
  <2>. QED
    BY <1>3, <2>1, <2>9, <2>10 DEF AtBlank, q
<1>4. ASSUME q = t, ld.pComment = NULL, c # <<>> PROVE AtComment(ld, c, body, rest)
  <2>1. /\ \A i \in 1..Len(c) : IsComment(c[i]) \/ c[i] = Blank
        /\ IsComment(c[Len(c)]) /\ IsComment(c[1])
    BY <1>4 DEF Whole
  <2>2. CommentLines(c \o u, TRUE) = Len(c)
    <3>1. \A i \in 1..Len(c) : IsComment(c[i]) \/ (TRUE /\ c[i] = Blank)
      BY <2>1
    <3>2. u # <<>> => ~IsComment(u[1]) /\ ~(TRUE /\ u[1] = Blank)
      BY <1>2
    <3>3. c # <<>> => IsComment(c[Len(c)])
      BY <2>1
    <3>. DEFINE blanks == TRUE
    <3>4. /\ \A i \in 1..Len(c) : IsComment(c[i]) \/ (blanks /\ c[i] = Blank)
          /\ u # <<>> => ~IsComment(u[1]) /\ ~(blanks /\ u[1] = Blank)
      BY <3>1, <3>2
    <3>. HIDE DEF blanks
    <3>5. CommentLines(c \o u, blanks) = Len(c)
      BY <1>1, <3>3, <3>4, CommentAhead
    <3>. QED
      BY <3>5 DEF blanks
  <2>3. SubSeq(c \o u, 1, Len(c)) = c /\ From(c \o u, Len(c) + 1) = u /\ (c \o u)[1] = c[1]
    BY <1>1, <1>4, Behind
  <2>. QED
    BY <1>4, <2>1, <2>2, <2>3 DEF AtComment, u
<1>5. ASSUME q = u, c = SavedComment(ld.pComment), ld.pComment # NULL => c # <<>>
      PROVE  AtBody(ld, c, body, rest)
  BY <1>2, <1>5 DEF AtBody, u
<1>6. ASSUME NEW j \in Nat, q = Coming(j, c, body, rest), ld.pComment = NULL
      PROVE  AtBlank(ld, c, body, rest) \/ AtComment(ld, c, body, rest) \/ AtBody(ld, c, body, rest)
  <2>1. CASE j # 0
    BY <1>3, <1>6, <2>1
  <2>2. CASE j = 0
    <3>1. q = t
      <4>1. Blanks(0) = <<>>
        BY BlanksParts
      <4>2. q = <<>> \o t
        BY <1>6, <2>2, <4>1 DEF Coming, u
      <4>. HIDE DEF t
      <4>. QED
        BY <1>1, <4>2, ConcatEmptySeq
    <3>2. CASE c # <<>>
      BY <1>4, <1>6, <3>1, <3>2
    <3>3. CASE c = <<>>
      <4>1. q = u
        BY <1>1, <3>1, <3>3, ConcatEmptySeq
      <4>2. SavedComment(ld.pComment) = <<>>
        BY <1>6 DEF SavedComment
      <4>. QED
        BY <1>5, <1>6, <3>3, <4>1, <4>2
    <3>. QED
      BY <3>2, <3>3
  <2>. QED
    BY <2>1, <2>2
<1>7. ASSUME c # <<>>, ld.pComment # NULL, ld.pComment.text = c, q = u
      PROVE  AtBody(ld, c, body, rest)
  <2>1. SavedComment(ld.pComment) = c
    BY <1>7 DEF SavedComment
  <2>. QED
    BY <1>5, <1>7, <2>1
<1>. QED
  BY <1>6, <1>7 DEF Ahead, u

\* the line a header is read from, and that of an entry
LEMMA HeaderLine ==
  ASSUME NEW x, NEW y, NEW b, NEW c, NEW body, NEW name, HeaderPiece(x, y, b, c, body, name)
  PROVE  Is("header", body[1]) /\ body[1].body.header = name.first /\ body = <<Header(name.first)>>
<1>. DEFINE line == Header(name.first)
<1>1. body = <<line>>
  BY Zenon DEF HeaderPiece
<1>2. Is("header", line) /\ line.body.header = name.first
  BY LineKinds
<1>. HIDE DEF line
<1>3. body[1] = line
  BY <1>1
<1>. QED
  BY <1>1, <1>2, <1>3 DEF line

\* the line an entry is read from
LEMMA EntryLine ==
  ASSUME NEW x, NEW y, NEW b, NEW c, NEW body, NEW k, NEW value, NEW many, NEW multi,
         EntryPiece(x, y, b, c, body, k, value, many, multi)
  PROVE  /\ IsKeyLine(body[1]) /\ KeyOf(body[1]) = k /\ ~Keyless(k)
         /\ ValueOf(body[1]) = IF multi /\ IsMultiLineData(value) THEN Tag("END_OF_TEXT") ELSE value[1]
<1>. DEFINE line == IF multi /\ IsMultiLineData(value) THEN Tag("END_OF_TEXT") ELSE value[1]
<1>1. k \in STRING /\ value \in Seq(Lines) \ {<<>>} /\ body = ValueText(k, value, multi) /\ ~Keyless(k)
  BY Zenon DEF EntryPiece
<1>2. line \in Lines
  BY <1>1, LineTypes
<1>3. body[1] = KeyLine(k, line)
  <2>1. value[1] \in Lines /\ Tail(value) \in Seq(Lines) /\ value \in Seq(Lines) /\ Tag("END_OF_TEXT") \in Lines
    BY <1>1, LineTypes
  <2>2. CASE multi /\ IsMultiLineData(value)
    <3>. DEFINE first == KeyLine(k, Tag("END_OF_TEXT"))
    <3>1. body = <<first>> \o value \o <<EndTag>> /\ line = Tag("END_OF_TEXT")
      BY <1>1, <2>2, Zenon DEF ValueText
    <3>. HIDE DEF first
    <3>2. body[1] = first
      BY <2>1, <3>1
    <3>. QED
      BY <3>1, <3>2 DEF first
  <2>3. CASE ~(multi /\ IsMultiLineData(value))
    <3>. DEFINE first == KeyLine(k, value[1])
    <3>1. body = <<first>> \o Tail(value) /\ line = value[1]
      BY <1>1, <2>3, Zenon DEF ValueText
    <3>. HIDE DEF first
    <3>2. body[1] = first
      BY <2>1, <3>1
    <3>. QED
      BY <3>1, <3>2 DEF first
  <2>. QED
    BY <2>2, <2>3
<1>. HIDE DEF line
<1>4. IsKeyLine(KeyLine(k, line)) /\ KeyOf(KeyLine(k, line)) = k /\ ValueOf(KeyLine(k, line)) = line
  BY <1>1, <1>2, LineKinds
<1>. QED
  BY <1>1, <1>3, <1>4 DEF line

ReadingNow ==
  Reading(load, m_pFileComment, m_data, file, m_bAllowMultiKey, m_bAllowMultiLine)

\* a step that goes on to the next line of a piece
LEMMA ReadOn ==
  ASSUME IniTypeOK, Parsing, ReadingNow, SkipLine \/ ReadComment \/ SkipHeader
  PROVE  ReadingNow'
<1>. DEFINE many == m_bAllowMultiKey
            multi == m_bAllowMultiLine
            ld == load
<1>1. /\ ld \in Loads /\ ld # NULL /\ ld.data \in Seq(Lines) /\ ld.data # <<>>
      /\ Line \in Lines /\ Line = ld.data[1] /\ ld.block \in Nat
      /\ \A n \in Nat : AfterLines(n) = [ld EXCEPT !.data = From(ld.data, n + 1)]
  BY ParseTypes DEF Parsing, Line
<1>2. /\ load' # NULL => TRUE
      /\ UNCHANGED <<m_pFileComment, m_data, file, m_bAllowMultiKey, m_bAllowMultiLine>>
  BY DEF SkipLine, ReadComment, SkipHeader, ParseVars, TableVars, options
<1>3. PICK x, z : /\ x \in Positions /\ z.text = file
                  /\ Matches(x, m_pFileComment, m_data, ld.pSection.text, many, multi)
                  /\ InPiece(ld, x, z, file, many, multi) /\ ~ld.runsOn
  BY <1>1 DEF ReadingNow, Reading
<1>4. PICK y, b, c, body : /\ Piece(x, y, b, c, body, many, multi) /\ Path(y, z, many, multi)
                           /\ \E rest \in Seq(Lines) : file = y.text \o rest /\ Ahead(ld, c, body, rest)
  BY <1>3 DEF InPiece
<1>5. PICK rest \in Seq(Lines) : file = y.text \o rest /\ Ahead(ld, c, body, rest)
  BY <1>4
<1>. HIDE DEF many, multi, ld
<1>6. c \in Seq(Lines) /\ Whole(c) /\ body \in Seq(Lines) /\ body # <<>>
  BY <1>3, <1>4, PieceParts
<1>7. ~IsComment(body[1]) /\ body[1] # Blank
  BY <1>3, <1>4, BodyBegins
<1>8. AtBlank(ld, c, body, rest) \/ AtComment(ld, c, body, rest) \/ AtBody(ld, c, body, rest)
  BY <1>5, <1>6, <1>7, FirstAhead
<1>9. SUFFICES Ahead(load', c, body, rest) /\ load'.pSection = ld.pSection /\ ~load'.runsOn
  <2>1. InPiece(load', x, z, file', many', multi')
    <3>1. many' = many /\ multi' = multi /\ file' = file
      BY <1>2 DEF many, multi
    <3>2. InPiece(load', x, z, file, many, multi)
      BY <1>4, <1>5, <1>9 DEF InPiece
    <3>. QED
      BY <3>1, <3>2
  <2>2. Matches(x, m_pFileComment', m_data', load'.pSection.text, many', multi')
    BY <1>2, <1>3, <1>9 DEF many, multi
  <2>3. z.text = file'
    BY <1>2, <1>3
  <2>. QED
    BY <1>3, <1>9, <2>1, <2>2, <2>3 DEF ReadingNow, Reading, many, multi
<1>10. CASE AtBlank(ld, c, body, rest)
  <2>1. Line = Blank /\ ld.pComment = NULL
    BY <1>1, <1>10 DEF AtBlank
  <2>2. PICK j \in Nat : From(ld.data, 2) = Coming(j, c, body, rest)
    BY <1>10 DEF AtBlank
  <2>3. ~IsComment(Line) /\ ~Is("open", Line)
    BY <1>1, <2>1, LineKinds, KindsApart
  <2>4. load' = [AfterLines(1) EXCEPT !.pSection = RunsOn(<<Line>>)]
    BY <2>3 DEF SkipLine, ReadComment, SkipHeader
  <2>5. load' = [[ld EXCEPT !.data = From(ld.data, 2)] EXCEPT !.pSection = ld.pSection]
    <3>1. RunsOn(<<Line>>) = ld.pSection
      BY <1>3 DEF RunsOn, ld
    <3>2. AfterLines(1) = [ld EXCEPT !.data = From(ld.data, 2)]
      BY <1>1
    <3>. QED
      BY <2>4, <3>1, <3>2
  <2>6. /\ load'.data = From(ld.data, 2) /\ load'.pComment = ld.pComment /\ load'.pSection = ld.pSection
        /\ ~load'.runsOn
    BY <1>1, <1>3, <2>5 DEF Loads
  <2>. QED
    BY <2>1, <2>2, <2>6 DEF Ahead
<1>11. CASE AtComment(ld, c, body, rest)
  <2>1. IsComment(Line)
    BY <1>1, <1>11 DEF AtComment
  <2>2. /\ ~Is("open", Line) /\ ~Is("text", Line) /\ ~Is("padded", Line) /\ ~Is("tag", Line)
        /\ ~IsKeyLine(Line)
    BY <1>1, <2>1, KindsApart
  <2>3. ReadComment
    BY <2>2 DEF SkipLine, SkipHeader
  <2>. DEFINE n == CommentLines(ld.data, TRUE)
              p == InBlock(SubSeq(ld.data, 1, n))
  <2>4. load' = [AfterLines(n) EXCEPT !.pComment = p, !.pSection = ld.pSection, !.runsOn = FALSE]
    <3>1. \A comment : RunsOn(comment) = ld.pSection
      BY <1>3 DEF RunsOn, ld
    <3>. QED
      BY <2>3, <3>1 DEF ReadComment, ld
  <2>5. n = Len(c) /\ n \in Nat /\ SubSeq(ld.data, 1, n) = c /\ From(ld.data, n + 1) = body \o rest /\ c # <<>>
    <3>1. /\ n = Len(c) /\ SubSeq(ld.data, 1, Len(c)) = c /\ From(ld.data, Len(c) + 1) = body \o rest
          /\ c # <<>>
      BY <1>11 DEF AtComment
    <3>2. Len(c) \in Nat
      BY <1>6
    <3>. HIDE DEF n
    <3>. QED
      BY <3>1, <3>2
  <2>6. p = [text |-> c, at |-> ld.block]
    BY <2>5 DEF InBlock, Ptr, ld
  <2>7. p # NULL
    <3>1. NULL \notin [text : Seq(Lines), at : Nat]
      BY IniAssumption
    <3>2. [text |-> c, at |-> ld.block] \in [text : Seq(Lines), at : Nat]
      BY <1>1, <1>6
    <3>. QED
      BY <2>6, <3>1, <3>2
  <2>. HIDE DEF n
  <2>8. load' = [[ld EXCEPT !.data = From(ld.data, n + 1)]
                  EXCEPT !.pComment = p, !.pSection = ld.pSection, !.runsOn = FALSE]
    BY <1>1, <2>4, <2>5
  <2>. HIDE DEF p
  <2>9. /\ load'.data = From(ld.data, n + 1) /\ load'.pComment = p /\ load'.pSection = ld.pSection
        /\ ~load'.runsOn
    BY <1>1, <2>8 DEF Loads
  <2>. QED
    BY <2>5, <2>6, <2>7, <2>9 DEF Ahead
<1>12. CASE AtBody(ld, c, body, rest)
  <2>1. Line = body[1]
    BY <1>1, <1>12 DEF AtBody
  <2>2. Is("header", Line) \/ (IsKeyLine(Line) /\ ~Keyless(KeyOf(Line)))
    <3>1. ASSUME NEW name, HeaderPiece(x, y, b, c, body, name) PROVE Is("header", Line)
      BY <2>1, <3>1, HeaderLine
    <3>2. ASSUME NEW k, NEW value, EntryPiece(x, y, b, c, body, k, value, many, multi)
          PROVE  IsKeyLine(Line) /\ ~Keyless(KeyOf(Line))
      <4>1. IsKeyLine(body[1]) /\ KeyOf(body[1]) = k /\ ~Keyless(k)
        BY <3>2, EntryLine
      <4>. QED
        BY <2>1, <4>1
    <3>. QED
      BY <1>4, <3>1, <3>2 DEF Piece
  <2>3. /\ ~Is("open", Line) /\ ~Is("text", Line) /\ ~Is("padded", Line) /\ ~Is("tag", Line)
        /\ ~IsComment(Line) /\ ~(IsKeyLine(Line) /\ Keyless(KeyOf(Line)))
    BY <1>1, <2>2, KindsApart
  <2>4. ~SkipLine
    BY <2>3, Zenon DEF SkipLine, Keyless, NoKey
  <2>5. ~ReadComment /\ ~SkipHeader
    BY <2>3 DEF ReadComment, SkipHeader
  <2>. QED
    BY <2>4, <2>5
<1>. QED
  BY <1>8, <1>10, <1>11, <1>12

\* the header or the entry that is read next, of which the comment has been read
BodyNow(x, z, y, b, c, body, rest) ==
  /\ x \in Positions /\ ~load.runsOn
  /\ Matches(x, m_pFileComment, m_data, load.pSection.text, m_bAllowMultiKey, m_bAllowMultiLine)
  /\ Piece(x, y, b, c, body, m_bAllowMultiKey, m_bAllowMultiLine)
  /\ Path(y, z, m_bAllowMultiKey, m_bAllowMultiLine)
  /\ z.text = file /\ rest \in Seq(Lines) /\ file = y.text \o rest
  /\ load.data = body \o rest /\ Line = body[1]
  /\ c = SavedComment(load.pComment) /\ (load.pComment # NULL => c # <<>>)

\* a header or an entry that is read is that of the piece that comes next
LEMMA BodyAhead ==
  ASSUME IniTypeOK, Parsing, ReadingNow,
         Is("header", Line) \/ (IsKeyLine(Line) /\ ~Keyless(KeyOf(Line)))
  PROVE  \E x, z, y, b, c, body, rest : BodyNow(x, z, y, b, c, body, rest)
<1>. DEFINE many == m_bAllowMultiKey
            multi == m_bAllowMultiLine
            ld == load
<1>1. /\ ld \in Loads /\ ld # NULL /\ ld.data \in Seq(Lines) /\ ld.data # <<>>
      /\ Line \in Lines /\ Line = ld.data[1]
  BY ParseTypes DEF Parsing, Line
<1>3. PICK x, z : /\ x \in Positions /\ z.text = file
                  /\ Matches(x, m_pFileComment, m_data, ld.pSection.text, many, multi)
                  /\ InPiece(ld, x, z, file, many, multi) /\ ~ld.runsOn
  BY <1>1 DEF ReadingNow, Reading
<1>4. PICK y, b, c, body : /\ Piece(x, y, b, c, body, many, multi) /\ Path(y, z, many, multi)
                           /\ \E rest \in Seq(Lines) : file = y.text \o rest /\ Ahead(ld, c, body, rest)
  BY <1>3 DEF InPiece
<1>5. PICK rest \in Seq(Lines) : file = y.text \o rest /\ Ahead(ld, c, body, rest)
  BY <1>4
<1>. HIDE DEF many, multi, ld
<1>6. c \in Seq(Lines) /\ Whole(c) /\ body \in Seq(Lines) /\ body # <<>>
  BY <1>3, <1>4, PieceParts
<1>7. ~IsComment(body[1]) /\ body[1] # Blank
  BY <1>3, <1>4, BodyBegins
<1>8. AtBlank(ld, c, body, rest) \/ AtComment(ld, c, body, rest) \/ AtBody(ld, c, body, rest)
  BY <1>5, <1>6, <1>7, FirstAhead
<1>9. Line # Blank /\ ~IsComment(Line)
  BY <1>1, LineKinds, KindsApart
<1>10. AtBody(ld, c, body, rest)
  BY <1>1, <1>8, <1>9 DEF AtBlank, AtComment
<1>11. BodyNow(x, z, y, b, c, body, rest)
  BY <1>1, <1>3, <1>4, <1>5, <1>10 DEF AtBody, BodyNow, ld, many, multi
<1>. QED
  BY <1>11

\* behind it, the next piece begins
LEMMA PieceRead ==
  ASSUME NEW x, NEW z, NEW y, NEW b, NEW c, NEW body, NEW rest, BodyNow(x, z, y, b, c, body, rest),
         UNCHANGED <<file, m_bAllowMultiKey, m_bAllowMultiLine>>,
         load'.data = rest, load'.pComment = NULL, ~load'.runsOn,
         Matches(y, m_pFileComment', m_data', load'.pSection.text, m_bAllowMultiKey, m_bAllowMultiLine)
  PROVE  ReadingNow'
<1>. DEFINE ld == load'
            fc == m_pFileComment'
            data == m_data'
            many == m_bAllowMultiKey
            multi == m_bAllowMultiLine
<1>1. /\ Path(y, z, many, multi) /\ z.text = file /\ rest \in Seq(Lines) /\ file = y.text \o rest
      /\ Matches(y, fc, data, ld.pSection.text, many, multi)
  BY DEF BodyNow
<1>2. ld.pComment = NULL /\ ~ld.runsOn /\ ld.data \in Seq(Lines) /\ z.text = y.text \o ld.data
  BY <1>1
<1>. HIDE DEF ld, fc, data, many, multi
<1>3. Reading(ld, fc, data, z.text, many, multi)
  BY <1>1, <1>2, Boundary
<1>4. z.text = file'
  BY <1>1
<1>5. many = many' /\ multi = multi'
  BY DEF many, multi
<1>. QED
  BY <1>3, <1>4, <1>5 DEF ReadingNow, ld, fc, data, many, multi

\* a section without entries is written without any
LEMMA NoKeysText ==
  Firsts({}) = {} /\ \A many, multi : KeysText({}, many, multi) = <<>>
<1>1. Firsts({}) = {}
  BY DEF Firsts
<1>2. ASSUME NEW many, NEW multi PROVE KeysText({}, many, multi) = <<>>
  <2>1. Cardinality(Firsts({})) = 0
    BY <1>1, FS_EmptySet
  <2>. DEFINE q == [i \in 1..0 |-> KeyText({}, Sorted(Firsts({}))[i].pItem.text, many, multi)]
  <2>2. KeysText({}, many, multi) = FlattenSeq(q)
    BY <2>1 DEF KeysText
  <2>3. q = <<>>
    OBVIOUS
  <2>. QED
    BY <2>2, <2>3, FlattenNone
<1>. QED
  BY <1>1, <1>2

\* the same comment is written the same way
LEMMA SameTextSaved ==
  ASSUME NEW p \in Comments, NEW q \in Comments, SameText(p, q)
  PROVE  /\ SavedComment(p) = SavedComment(q) /\ CommentText(p) = CommentText(q)
         /\ CommentOK(q) => CommentOK(p)
BY DEF SameText, SavedComment, CommentText, CommentOK

\* what the parser keeps when a header or an entry has been read
LEMMA ReadLines ==
  ASSUME NEW ld \in Loads, NEW n, NEW q
  PROVE  LET new == [[ld EXCEPT !.data = From(ld.data, n)]
                       EXCEPT !.pSection = q, !.runsOn = FALSE, !.pComment = NULL]
         IN  new.data = From(ld.data, n) /\ new.pComment = NULL /\ new.pSection = q /\ ~new.runsOn
BY DEF Loads

\* a header begins a section behind what has been read
LEMMA HeaderRead ==
  ASSUME IniInv, Parsing, ReadingNow, ReadHeader
  PROVE  ReadingNow'
<1>. DEFINE many == m_bAllowMultiKey
            multi == m_bAllowMultiLine
            fc == m_pFileComment
<1>0. IniTypeOK /\ TableOK(m_data, m_nOrder) /\ fc \in Comments
  BY TypeParts DEF IniInv, IniTypeOK
<1>1. /\ load \in Loads /\ load.block \in Nat \ {0} /\ load.data \in Seq(Lines)
      /\ load.pComment \in Comments /\ Line \in Lines
      /\ \A n \in Nat : AfterLines(n) = [load EXCEPT !.data = From(load.data, n + 1)]
  BY <1>0, ParseTypes
<1>2. Is("header", Line)
  BY DEF ReadHeader
<1>3. PICK x, z, y, b, c, body, rest : BodyNow(x, z, y, b, c, body, rest)
  BY <1>0, <1>2, BodyAhead
<1>4. /\ x \in Positions /\ Matches(x, fc, m_data, load.pSection.text, many, multi)
      /\ Piece(x, y, b, c, body, many, multi) /\ Line = body[1] /\ load.data = body \o rest
      /\ rest \in Seq(Lines) /\ c = SavedComment(load.pComment)
  BY <1>3 DEF BodyNow
<1>5. PICK name : HeaderPiece(x, y, b, c, body, name)
  <2>1. ASSUME NEW k, NEW value, EntryPiece(x, y, b, c, body, k, value, many, multi) PROVE FALSE
    <3>1. IsKeyLine(body[1])
      BY <2>1, EntryLine
    <3>. QED
      BY <1>1, <1>2, <1>4, <3>1, KindsApart
  <2>. QED
    BY <1>4, <2>1 DEF Piece
<1>6. Line.body.header = name.first /\ body = <<Header(name.first)>>
  BY <1>4, <1>5, HeaderLine
<1>7. /\ name \in SavedNames /\ ~Unnamed(name) /\ name \notin x.sections
      /\ b = (IF x.behind THEN 2 ELSE 0)
  BY <1>5, Zenon DEF HeaderPiece
<1>8. y = [text |-> x.text \o PieceText(b, c, body), behind |-> TRUE,
           sections |-> x.sections \cup {name}, section |-> name, keys |-> {}, key |-> NoKey]
  BY <1>5, Zenon DEF HeaderPiece
<1>9. /\ y.text = x.text \o PieceText(b, c, body) /\ y.behind /\ y.sections = x.sections \cup {name}
      /\ y.section = name /\ y.keys = {}
  BY <1>8
<1>10. /\ TableText(fc, m_data, many, multi) = x.text /\ x.sections = DOMAIN m_data
       /\ (x.behind <=> fc # NULL \/ DOMAIN m_data # {})
  BY <1>4 DEF Matches
<1>. DEFINE p == InBlock(name)
            comment == IF Copying THEN CopyString(load.pComment, 1) ELSE load.pComment
            copy == Copying
            section == SectionFor(p, comment, copy)
            m == OrderAfter(p)
<1>11. p \in SectionNames /\ p.text = name /\ p = InBlock(Title(Line.body.header))
  <2>1. name = Title(name.first) /\ name.first \in STRING
    BY <1>7, NamesParts
  <2>2. Ptr(Title(name.first), load.block) \in SectionNames
    BY <1>1, <2>1, PtrTypes
  <2>. QED
    BY <1>6, <2>1, <2>2 DEF InBlock, Ptr
<1>12. comment \in Comments /\ SameText(comment, load.pComment) /\ copy \in BOOLEAN
  <2>1. SameText(load.pComment, load.pComment)
    BY DEF SameText
  <2>2. copy \in BOOLEAN
    BY DEF Copying
  <2>3. /\ CopyString(load.pComment, 1) \in Comments
        /\ SameText(CopyString(load.pComment, 1), load.pComment)
    <3>1. \A q \in Comments : CopyString(q, 1) \in Comments /\ SameText(CopyString(q, 1), q)
      BY CopyType
    <3>. QED
      BY <1>1, <3>1
  <2>. QED
    BY <1>1, <2>1, <2>2, <2>3
<1>13. m_data' = WithSection(name, section)
  BY <1>11 DEF ReadHeader, AddSection
<1>. HIDE DEF p, comment, copy
<1>14. /\ SectionOK(name, section, m) /\ m \in Nat /\ m_nOrder <= m /\ m_nOrder \in Nat
       /\ section.nOrder > m_nOrder
  BY <1>7, <1>10, <1>11, <1>12, SectionForOK
<1>15. section.pComment = comment /\ section.keys = {} /\ section.pItem.text = name
  <2>1. section.pComment = comment /\ section.keys = {}
    BY <1>7, <1>10, <1>11 DEF SectionFor
  <2>. QED
    BY <1>14, <2>1 DEF SectionOK
<1>. HIDE DEF section, m
<1>16. body \in Seq(Lines) /\ c \in Seq(Lines) /\ Len(body) = 1 /\ body # <<>>
  <2>. DEFINE line == Header(name.first)
  <2>1. line \in Lines
    BY <1>7, NamesParts, LineTypes
  <2>2. body = <<line>>
    BY <1>6
  <2>. HIDE DEF line
  <2>. QED
    BY <1>1, <1>4, <2>1, <2>2, CommentTextType
<1>17. SectionText(section, many, multi) = c \o body
  <2>1. SavedComment(section.pComment) = c
    BY <1>1, <1>4, <1>12, <1>15, SameTextSaved
  <2>2. HeaderText(name) = body
    BY <1>6, <1>7, HeaderTextIs
  <2>3. KeysText(section.keys, many, multi) = <<>>
    BY <1>15, NoKeysText
  <2>4. SectionText(section, many, multi) = c \o (body \o <<>>)
    BY <1>15, <2>1, <2>2, <2>3 DEF SectionText
  <2>. QED
    BY <1>16, <2>4, ConcatEmptySeq
<1>18. TableText(fc, m_data', many, multi) = y.text
  <2>1. TableText(fc, m_data', many, multi)
          = x.text \o (Gap(DOMAIN m_data # {} \/ fc # NULL) \o SectionText(section, many, multi))
    <3>. HIDE DEF many, multi, fc
    <3>1. name \notin DOMAIN m_data
      BY <1>7, <1>10
    <3>2. TableLonger(fc, name, section, NewText(fc, section, many, multi), many, multi)
      BY <1>0, <1>14, <3>1, NewSectionText
    <3>. QED
      BY <1>10, <1>13, <3>2 DEF TableLonger, NewText
  <2>2. Gap(DOMAIN m_data # {} \/ fc # NULL) = Blanks(b)
    BY <1>7, <1>10, BlanksParts DEF Gap
  <2>. QED
    BY <1>9, <1>17, <2>1, <2>2 DEF PieceText
<1>19. /\ DOMAIN m_data' = DOMAIN m_data \cup {name} /\ m_data'[name] = section
       /\ \A s \in DOMAIN m_data : s # name /\ m_data'[s] = m_data[s]
  BY <1>7, <1>10, <1>13 DEF WithSection
<1>20. \A s \in DOMAIN m_data' : m_data'[s].nOrder <= m_data'[name].nOrder
  <2>1. \A s \in DOMAIN m_data : m_data[s].nOrder \in 1..m_nOrder
    BY <1>0 DEF TableOK, SectionOK
  <2>2. section.nOrder \in Nat
    BY <1>14 DEF SectionOK
  <2>. QED
    BY <1>14, <1>19, <2>1, <2>2
<1>21. load'.data = rest /\ load'.pComment = NULL /\ load'.pSection.text = name /\ ~load'.runsOn
  <2>1. load' = [[load EXCEPT !.data = From(load.data, 2)]
                  EXCEPT !.pSection = p, !.runsOn = FALSE, !.pComment = NULL]
    <3>1. AfterLines(1) = [load EXCEPT !.data = From(load.data, 2)]
      BY <1>1
    <3>. QED
      BY <1>11, <3>1 DEF ReadHeader
  <2>2. From(load.data, 2) = rest
    <3>1. From(body \o rest, Len(body) + 1) = rest
      BY <1>4, <1>16, Behind
    <3>. QED
      BY <1>4, <1>16, <3>1
  <2>. QED
    BY <1>1, <1>11, <2>1, <2>2, ReadLines
<1>22. Matches(y, fc, m_data', load'.pSection.text, many, multi)
  <2>1. y.behind <=> fc # NULL \/ DOMAIN m_data' # {}
    BY <1>9, <1>19
  <2>2. y.keys = {e.pItem.text : e \in m_data'[name].keys} /\ Firsts(m_data'[name].keys) = {}
    BY <1>9, <1>15, <1>19, NoKeysText
  <2>3. name \in DOMAIN m_data' /\ y.sections = DOMAIN m_data'
    BY <1>9, <1>10, <1>19
  <2>. QED
    BY <1>9, <1>18, <1>20, <1>21, <2>1, <2>2, <2>3 DEF Matches
<1>23. UNCHANGED <<file, m_pFileComment, m_bAllowMultiKey, m_bAllowMultiLine>>
  BY DEF ReadHeader, ParseVars, options
<1>. QED
  BY <1>3, <1>21, <1>22, <1>23, PieceRead

\* an entry is written behind those before it
KeysLonger(keys, e, many, multi) ==
  /\ KeysAppended(keys, e, many, multi)
  /\ \A g, h \in Firsts(keys \cup {e}) : g.pItem.text = e.pItem.text => h.nOrder <= g.nOrder
\* an entry that is read comes behind those of its section
LEMMA KeysRead ==
  ASSUME NEW keys, GoodKeys(keys), NEW e \in KeyEntries, \A f \in keys : f.nOrder < e.nOrder,
         NEW key, \A g, h \in Firsts(keys) : g.pItem.text = key => h.nOrder <= g.nOrder,
         NEW many \in BOOLEAN, NEW multi,
         \A f \in keys : f.pItem.text = e.pItem.text => many /\ e.pItem.text = key
  PROVE  KeysLonger(keys, e, many, multi)
<1>. DEFINE k == e.pItem.text
            S == Firsts(keys)
<1>1. /\ S \subseteq keys
      /\ \A f \in keys : First(OfKey(keys, f.pItem.text)) \in S
                         /\ First(OfKey(keys, f.pItem.text)).pItem.text = f.pItem.text
  BY KeysParts
<1>2. e.nOrder \in Nat /\ \A f \in keys : f.nOrder \in Nat
  BY DEF KeyEntries, GoodKeys
<1>3. CASE \E f \in keys : f.pItem.text = k
  <2>1. PICK f \in keys : f.pItem.text = k
    BY <1>3
  <2>. DEFINE g == First(OfKey(keys, f.pItem.text))
  <2>2. g \in S /\ g.pItem.text = k /\ many = TRUE /\ k = key
    BY <1>1, <2>1
  <2>3. \A h \in S : h.nOrder <= g.nOrder
    BY <2>2
  <2>. HIDE DEF g
  <2>4. KeysAppended(keys, e, TRUE, multi) /\ Firsts(keys \cup {e}) = S
    BY <2>2, <2>3, SameKeyText
  <2>. QED
    BY <2>2, <2>4 DEF KeysLonger
<1>4. CASE \A f \in keys : f.pItem.text # k
  <2>1. KeysAppended(keys, e, many, multi) /\ Firsts(keys \cup {e}) = S \cup {e}
    BY <1>4, NewKeyText
  <2>2. ASSUME NEW g \in S \cup {e}, NEW h \in S \cup {e}, g.pItem.text = k PROVE h.nOrder <= g.nOrder
    <3>1. g = e
      BY <1>1, <1>4, <2>2
    <3>2. h = e \/ h \in keys
      BY <1>1
    <3>. QED
      BY <1>2, <3>1, <3>2
  <2>. QED
    BY <2>1, <2>2 DEF KeysLonger
<1>. QED
  BY <1>3, <1>4

\* and so does its section, in a table
LEMMA SectionRead ==
  ASSUME NEW old, old \in SectionEntries, GoodKeys(old.keys), NEW section,
         section.pComment = old.pComment, section.pItem.text = old.pItem.text,
         NEW e \in KeyEntries, section.keys = old.keys \cup {e}, NEW many, NEW multi,
         KeysLonger(old.keys, e, many, multi)
  PROVE  SectionLonger(old, section, EntryText(e, multi), many, multi)
<1>. DEFINE a == SavedComment(old.pComment)
            h == HeaderText(old.pItem.text)
            t == KeysText(old.keys, many, multi)
            y == EntryText(e, multi)
<1>1. y \in Seq(Lines)
  BY EntryTextType
<1>2. a \in Seq(Lines) /\ h \in Seq(Lines) /\ t \in Seq(Lines)
  <2>1. a \in Seq(Lines) /\ h \in Seq(Lines)
    BY SectionTextType
  <2>2. t \in Seq(Lines)
    BY KeysTextType
  <2>. QED
    BY <2>1, <2>2
<1>3. SectionText(old, many, multi) = a \o (h \o t)
  BY DEF SectionText
<1>4. SectionText(section, many, multi) = a \o (h \o (t \o y))
  BY DEF SectionText, KeysLonger, KeysAppended
<1>. HIDE DEF a, h, t, y
<1>5. (h \o t) \o y = h \o (t \o y) /\ h \o t \in Seq(Lines)
  BY <1>1, <1>2, Regroup, LinesJoined
<1>. DEFINE u == h \o t
<1>6. u \in Seq(Lines)
  BY <1>5
<1>. HIDE DEF u
<1>7. (a \o u) \o y = a \o (u \o y)
  BY <1>1, <1>2, <1>6, Regroup
<1>. QED
  BY <1>3, <1>4, <1>5, <1>7 DEF SectionLonger, u, y

\* the table with the entry that is read
EntryPut(x, fc, s, section, e, many, multi) ==
  /\ TableText(fc, WithSection(s, section), many, multi) = OpenText(x) \o EntryText(e, multi)
  /\ \A g, h \in Firsts(section.keys) : g.pItem.text = e.pItem.text => h.nOrder <= g.nOrder
EntryFor(x, s, section, e, many) ==
  /\ section.keys = Entries(s) \cup {e} /\ \A f \in Entries(s) : f.nOrder < e.nOrder
  /\ s \in DOMAIN m_data => section.nOrder = m_data[s].nOrder /\ section.pComment = m_data[s].pComment
  /\ s \notin DOMAIN m_data => section.nOrder > m_nOrder /\ section.pComment = NULL
  /\ e.pItem.text \in x.keys => many /\ e.pItem.text = x.key

\* an entry that is read goes into the section that is read
LEMMA EntryInSection ==
  ASSUME TableOK(m_data, m_nOrder), NEW x \in Positions, NEW fc \in Comments, NEW many \in BOOLEAN,
         NEW multi, NEW s \in DOMAIN m_data, Matches(x, fc, m_data, s, many, multi),
         NEW m \in Nat, m_nOrder <= m, NEW section, SectionOK(s, section, m),
         NEW e \in KeyEntries, EntryFor(x, s, section, e, many)
  PROVE  EntryPut(x, fc, s, section, e, many, multi)
<1>. DEFINE old == m_data[s]
            keys == old.keys
            y == EntryText(e, multi)
<1>1. /\ TableText(fc, m_data, many, multi) = x.text
      /\ x.sections = DOMAIN m_data /\ x.section = s
      /\ \A t \in DOMAIN m_data : m_data[t].nOrder <= m_data[s].nOrder
      /\ x.keys = {f.pItem.text : f \in keys}
      /\ \A g, h \in Firsts(keys) : g.pItem.text = x.key => h.nOrder <= g.nOrder
  BY DEF Matches
<1>2. /\ section.keys = keys \cup {e} /\ \A f \in keys : f.nOrder < e.nOrder
      /\ section.nOrder = old.nOrder /\ section.pComment = old.pComment
      /\ e.pItem.text \in x.keys => many /\ e.pItem.text = x.key
  BY DEF EntryFor, Entries
<1>3. old \in SectionEntries /\ GoodKeys(keys) /\ old.pItem.text = s
  <2>1. old \in SectionEntries /\ GoodKeys(keys)
    BY TableParts
  <2>2. old.pItem.text = s
    BY TableSections
  <2>. QED
    BY <2>1, <2>2
<1>4. section.pItem.text = s
  BY DEF SectionOK
<1>5. y \in Seq(Lines)
  BY EntryTextType
<1>6. OpenText(x) = x.text
  BY <1>1, OpenTextType
<1>7. \A f \in keys : f.pItem.text = e.pItem.text => many /\ e.pItem.text = x.key
  BY <1>1, <1>2
<1>. HIDE DEF keys, old, y
<1>8. KeysLonger(keys, e, many, multi)
  <2>. DEFINE key == x.key
  <2>1. \A g, h \in Firsts(keys) : g.pItem.text = key => h.nOrder <= g.nOrder
    BY <1>1
  <2>2. \A f \in keys : f.pItem.text = e.pItem.text => many /\ e.pItem.text = key
    BY <1>7
  <2>3. GoodKeys(keys) /\ \A f \in keys : f.nOrder < e.nOrder
    BY <1>2, <1>3
  <2>. HIDE DEF key
  <2>. QED
    BY <2>1, <2>2, <2>3, KeysRead
<1>9. SectionLonger(old, section, y, many, multi)
  BY <1>2, <1>3, <1>4, <1>8, SectionRead DEF keys, y
<1>10. TableLonger(fc, s, section, y, many, multi)
  BY <1>1, <1>2, <1>5, <1>9, LastSectionText DEF old
<1>. QED
  BY <1>1, <1>2, <1>6, <1>8, <1>10 DEF TableLonger, KeysLonger, EntryPut, y

\* or into the section before the first header, which it makes
LEMMA EntryInFirst ==
  ASSUME TableOK(m_data, m_nOrder), NEW x \in Positions, NEW fc \in Comments, NEW many \in BOOLEAN,
         NEW multi, NEW s, s \notin DOMAIN m_data, Matches(x, fc, m_data, s, many, multi),
         NEW m \in Nat, m_nOrder <= m, NEW section, SectionOK(s, section, m),
         NEW e \in KeyEntries, EntryFor(x, s, section, e, many)
  PROVE  EntryPut(x, fc, s, section, e, many, multi)
<1>. DEFINE y == EntryText(e, multi)
            none == {}
<1>1. /\ TableText(fc, m_data, many, multi) = x.text /\ Unnamed(s)
      /\ x.sections = DOMAIN m_data /\ x.section = s /\ DOMAIN m_data = {}
      /\ (x.behind <=> fc # NULL \/ DOMAIN m_data # {})
  BY DEF Matches
<1>2. section.keys = {e} /\ section.nOrder > m_nOrder /\ section.pComment = NULL
  BY DEF EntryFor, Entries
<1>3. section.pItem.text = s
  BY DEF SectionOK
<1>4. y \in Seq(Lines)
  BY EntryTextType
<1>5. GoodKeys(none)
  BY SortedEmpty DEF GoodKeys
<1>6. (\A f \in none : f.nOrder < e.nOrder) /\ Firsts(none) = {}
  BY NoKeysText
<1>7. KeysLonger(none, e, many, multi)
  <2>1. \A f \in none : f.pItem.text = e.pItem.text => many /\ e.pItem.text = x.key
    OBVIOUS
  <2>2. \A g, h \in Firsts(none) : g.pItem.text = x.key => h.nOrder <= g.nOrder
    BY <1>6
  <2>. HIDE DEF none
  <2>. QED
    BY <1>5, <1>6, <2>1, <2>2, KeysRead
<1>8. none \cup {e} = {e} /\ KeysText(none, many, multi) = <<>>
  BY NoKeysText
<1>. HIDE DEF y, none
<1>9. KeysText(section.keys, many, multi) = y
  <2>1. KeysText({e}, many, multi) = <<>> \o y
    BY <1>7, <1>8 DEF KeysLonger, KeysAppended, y
  <2>. QED
    BY <1>2, <1>4, <2>1, ConcatEmptySeq
<1>10. SectionText(section, many, multi) = y
  <2>1. SavedComment(section.pComment) = <<>>
    BY <1>2 DEF SavedComment
  <2>2. HeaderText(section.pItem.text) = <<>>
    BY <1>1, <1>3, NamesParts, HeaderTextIs DEF Unnamed
  <2>3. SectionText(section, many, multi) = <<>> \o (<<>> \o y)
    BY <1>9, <2>1, <2>2 DEF SectionText
  <2>. QED
    BY <1>4, <2>3, ConcatEmptySeq
<1>11. TableLonger(fc, s, section, NewText(fc, section, many, multi), many, multi)
  BY <1>2, NewSectionText
<1>. DEFINE g == Gap(DOMAIN m_data # {} \/ fc # NULL)
            t == x.text
<1>12. OpenText(x) = t \o g
  BY <1>1 DEF OpenText, Gap
<1>13. TableText(fc, WithSection(s, section), many, multi) = t \o (g \o y)
  BY <1>1, <1>10, <1>11 DEF TableLonger, NewText
<1>14. t \in Seq(Lines) /\ g \in Seq(Lines)
  BY GapType, OpenTextType
<1>. HIDE DEF t, g
<1>15. (t \o g) \o y = t \o (g \o y)
  BY <1>4, <1>14, Regroup
<1>. QED
  BY <1>2, <1>7, <1>8, <1>12, <1>13, <1>15 DEF KeysLonger, EntryPut, y

\* an entry is put behind what has been read
LEMMA EntryRead ==
  ASSUME IniInv, NEW x, NEW z, NEW y, NEW b, NEW c, NEW body, NEW rest,
         BodyNow(x, z, y, b, c, body, rest), NEW k, NEW value,
         EntryPiece(x, y, b, c, body, k, value, m_bAllowMultiKey, m_bAllowMultiLine),
         load.pSection \in SectionNames, load.pComment \in Comments,
         NEW q \in Names, q.text = k, NEW v \in Values, v.text = value,
         NEW force \in BOOLEAN, ~force, NEW copy \in BOOLEAN,
         AddEntry(load.pSection, q, v, load.pComment, force, copy),
         UNCHANGED <<file, m_pFileComment, m_bAllowMultiKey, m_bAllowMultiLine>>,
         load'.data = rest, load'.pComment = NULL, ~load'.runsOn, load'.pSection = load.pSection
  PROVE  ReadingNow'
<1>. DEFINE many == m_bAllowMultiKey
            multi == m_bAllowMultiLine
            fc == m_pFileComment
            p == load.pComment
            s == load.pSection.text
<1>1. /\ x \in Positions /\ Matches(x, fc, m_data, s, many, multi)
      /\ c = SavedComment(p) /\ (p # NULL => c # <<>>)
      /\ Piece(x, y, b, c, body, many, multi)
  BY DEF BodyNow
<1>2. TableOK(m_data, m_nOrder) /\ fc \in Comments /\ many \in BOOLEAN /\ multi \in BOOLEAN
  BY TypeParts DEF IniInv, IniTypeOK
<1>3. /\ k \in x.keys => many /\ k = x.key
      /\ b = (IF x.section \notin x.sections /\ x.behind THEN 2 ELSE 0) + (IF c = <<>> THEN 0 ELSE 1)
      /\ body = ValueText(k, value, multi)
      /\ y = [text |-> x.text \o PieceText(b, c, body), behind |-> TRUE,
              sections |-> x.sections \cup {x.section}, section |-> x.section,
              keys |-> x.keys \cup {k}, key |-> k]
  BY Zenon DEF EntryPiece
<1>4. /\ y.text = x.text \o PieceText(b, c, body) /\ y.behind
      /\ y.sections = x.sections \cup {x.section} /\ y.section = x.section
      /\ y.keys = x.keys \cup {k} /\ y.key = k
  BY <1>3
<1>5. /\ TableText(fc, m_data, many, multi) = x.text
      /\ x.sections = DOMAIN m_data /\ x.section = s
      /\ s \notin DOMAIN m_data => DOMAIN m_data = {} /\ x.keys = {}
      /\ s \in DOMAIN m_data =>
           /\ \A t \in DOMAIN m_data : m_data[t].nOrder <= m_data[s].nOrder
           /\ x.keys = {f.pItem.text : f \in m_data[s].keys}
  BY <1>1 DEF Matches
<1>6. x.keys = {f.pItem.text : f \in Entries(s)}
  BY <1>5 DEF Entries
<1>7. InsertKey(load.pSection, q, v, p, force, copy)
  <2>1. ASSUME UpdateKey(load.pSection, q, v, p, copy) PROVE FALSE
    <3>1. SameKey(s, k) # {} /\ ~many
      BY <2>1 DEF UpdateKey
    <3>2. PICK f \in Entries(s) : f.pItem.text = k
      BY <3>1 DEF SameKey
    <3>3. k \in x.keys
      BY <1>6, <3>2
    <3>. QED
      BY <1>3, <3>1, <3>3
  <2>. QED
    BY <2>1 DEF AddEntry
<1>8. m_nOrder' \in Nat /\ m_nOrder <= m_nOrder'
  BY <1>7, InsertKeyTable
<1>9. PICK section, e : /\ KeyInserted(s, k, section, e)
                        /\ e \in KeyEntries /\ e.value.text = value /\ SameText(e.pComment, p)
  BY <1>7, InsertKeyTable
<1>10. /\ m_data' = WithSection(s, section) /\ SectionOK(s, section, m_nOrder')
       /\ section.keys = Entries(s) \cup {e} /\ e.pItem.text = k
  BY <1>9 DEF KeyInserted
<1>11. EntryFor(x, s, section, e, many)
  BY <1>3, <1>9 DEF KeyInserted, EntryFor
<1>. HIDE DEF s, p, fc, many, multi
<1>12. EntryPut(x, fc, s, section, e, many, multi)
  <2>1. CASE s \in DOMAIN m_data
    BY <1>1, <1>2, <1>8, <1>9, <1>10, <1>11, <2>1, EntryInSection
  <2>2. CASE s \notin DOMAIN m_data
    BY <1>1, <1>2, <1>8, <1>9, <1>10, <1>11, <2>2, EntryInFirst
  <2>. QED
    BY <2>1, <2>2
<1>13. EntryText(e, multi) = CommentText(p) \o body
  <2>1. CommentText(e.pComment) = CommentText(p)
    <3>1. e.pComment \in Comments
      BY <1>9 DEF KeyEntries
    <3>. QED
      BY <1>9, <3>1, SameTextSaved DEF p
  <2>. QED
    BY <1>3, <1>9, <1>10, <2>1 DEF EntryText
<1>14. y.text = OpenText(x) \o (CommentText(p) \o body)
  <2>1. p # NULL => p.text # <<>>
    BY <1>1 DEF SavedComment
  <2>2. body \in Seq(Lines)
    BY <1>1, PieceParts
  <2>3. EntryJoined(x, b, p, body)
    <3>1. b = (IF x.section \notin x.sections /\ x.behind THEN 2 ELSE 0)
              + (IF SavedComment(p) = <<>> THEN 0 ELSE 1)
      BY <1>1, <1>3
    <3>2. p \in Comments /\ x \in Positions
      BY <1>1 DEF p
    <3>. QED
      BY <2>1, <2>2, <3>1, <3>2, EntryPieceText
  <2>. QED
    BY <1>1, <1>4, <2>3 DEF EntryJoined
<1>15. TableText(fc, m_data', many, multi) = y.text
  BY <1>10, <1>12, <1>13, <1>14 DEF EntryPut
<1>16. DOMAIN m_data' = DOMAIN m_data \cup {s} /\ m_data'[s] = section
       /\ \A t \in DOMAIN m_data : t # s => m_data'[t] = m_data[t]
  BY <1>10 DEF WithSection
<1>17. \A t \in DOMAIN m_data' : m_data'[t].nOrder <= m_data'[s].nOrder
  <2>1. section.nOrder \in Nat
    BY <1>8, <1>10 DEF SectionOK
  <2>2. CASE s \in DOMAIN m_data
    <3>1. section.nOrder = m_data[s].nOrder
      BY <1>11, <2>2 DEF EntryFor
    <3>. QED
      BY <1>5, <1>16, <2>1, <2>2, <3>1
  <2>3. CASE s \notin DOMAIN m_data
    BY <1>5, <1>16, <2>1, <2>3
  <2>. QED
    BY <2>2, <2>3
<1>18. y.keys = {f.pItem.text : f \in m_data'[s].keys}
  BY <1>4, <1>6, <1>10, <1>16
<1>19. \A g, h \in Firsts(m_data'[s].keys) : g.pItem.text = y.key => h.nOrder <= g.nOrder
  BY <1>4, <1>10, <1>12, <1>16 DEF EntryPut
<1>20. load'.pSection.text = s
  BY DEF s
<1>21. Matches(y, fc, m_data', load'.pSection.text, many, multi)
  <2>1. y.behind <=> fc # NULL \/ DOMAIN m_data' # {}
    BY <1>4, <1>16
  <2>2. y.sections = DOMAIN m_data' /\ y.section = s /\ s \in DOMAIN m_data'
    BY <1>4, <1>5, <1>16
  <2>. QED
    BY <1>15, <1>17, <1>18, <1>19, <1>20, <2>1, <2>2 DEF Matches
<1>22. fc = m_pFileComment'
  BY DEF fc
<1>. QED
  BY <1>21, <1>22, PieceRead DEF many, multi

\* a sequence behind its first line
LEMMA TailBehind ==
  ASSUME NEW a \in Lines, NEW t \in Seq(Lines), NEW q, q = <<a>> \o t
  PROVE  q \in Seq(Lines) /\ Tail(q) = t /\ Len(q) = Len(t) + 1
<1>1. q \in Seq(Lines) /\ Len(q) = 1 + Len(t) /\ \A i \in 1..1 + Len(t) : q[i] = IF i <= 1 THEN a ELSE t[i - 1]
  OBVIOUS
<1>2. Len(t) \in Nat /\ t = [i \in 1..Len(t) |-> t[i]]
  OBVIOUS
<1>3. Tail(q) = [i \in 1..Len(q) - 1 |-> q[i + 1]]
  BY <1>1
<1>4. \A i \in 1..Len(t) : q[i + 1] = t[i]
  BY <1>1, <1>2
<1>. QED
  BY <1>1, <1>2, <1>3, <1>4

\* a value of one line that was written reads as itself
LEMMA LineRead ==
  ASSUME NEW value \in Seq(Lines) \ {<<>>}, NEW multi, Fits(value, multi), ~(multi /\ IsMultiLineData(value))
  PROVE  <<Trim(value[1])>> = value /\ Tail(value) = <<>> /\ value[1] \in Lines
<1>1. ~IsMultiLineData(value)
  BY DEF Fits
<1>2. ~(Len(value) > 1) /\ ~Is("padded", value[1])
  BY <1>1 DEF IsMultiLineData
<1>3. Len(value) = 1 /\ value[1] \in Lines
  BY <1>2
<1>4. Trim(value[1]) = value[1]
  BY <1>2, Zenon DEF Trim
<1>5. value = <<value[1]>>
  BY <1>3
<1>6. Tail(value) = <<>>
  <2>1. \A a : Tail(<<a>>) = <<>>
    OBVIOUS
  <2>. DEFINE a == value[1]
  <2>2. value = <<a>>
    BY <1>5
  <2>. HIDE DEF a
  <2>. QED
    BY <2>1, <2>2
<1>. QED
  BY <1>3, <1>4, <1>5, <1>6

\* Reading a value of one line puts the entry that was written into the table.
LEMMA KeyRead ==
  ASSUME IniInv, Parsing, ReadingNow, ReadKey
  PROVE  ReadingNow'
<1>. DEFINE many == m_bAllowMultiKey
            multi == m_bAllowMultiLine
            force == FALSE
            copy == Copying
<1>0. IniTypeOK /\ copy \in BOOLEAN /\ force \in BOOLEAN /\ ~force
  BY DEF IniInv, Copying
<1>1. /\ load \in Loads /\ load.block \in Nat \ {0} /\ load.data \in Seq(Lines)
      /\ load.pComment \in Comments /\ load.pSection \in SectionNames /\ Line \in Lines
      /\ \A n \in Nat : AfterLines(n) = [load EXCEPT !.data = From(load.data, n + 1)]
  BY <1>0, ParseTypes
<1>2. IsKeyLine(Line) /\ ~Keyless(KeyOf(Line))
  BY Zenon DEF ReadKey, IsKey, Keyless, NoKey
<1>3. PICK x, z, y, b, c, body, rest : BodyNow(x, z, y, b, c, body, rest)
  BY <1>0, <1>2, BodyAhead
<1>4. /\ x \in Positions /\ Piece(x, y, b, c, body, many, multi) /\ Line = body[1]
      /\ load.data = body \o rest /\ rest \in Seq(Lines)
  BY <1>3 DEF BodyNow
<1>4a. SectionOfKey = load.pSection
  BY <1>3 DEF BodyNow, SectionOfKey, RunsOn
<1>5. PICK k, value : EntryPiece(x, y, b, c, body, k, value, many, multi)
  <2>1. ASSUME NEW name, HeaderPiece(x, y, b, c, body, name) PROVE FALSE
    <3>1. Is("header", body[1])
      BY <2>1, HeaderLine
    <3>. QED
      BY <1>1, <1>2, <1>4, <3>1, KindsApart
  <2>. QED
    BY <1>4, <2>1 DEF Piece
<1>6. /\ k \in STRING /\ value \in Seq(Lines) \ {<<>>} /\ Fits(value, multi)
      /\ body = ValueText(k, value, multi)
  BY <1>5, Zenon DEF EntryPiece
<1>7. /\ KeyOf(Line) = k
      /\ ValueOf(Line) = IF multi /\ IsMultiLineData(value) THEN Tag("END_OF_TEXT") ELSE value[1]
  BY <1>4, <1>5, EntryLine
<1>8. ~(multi /\ IsMultiLineData(value))
  BY <1>7, LineKinds DEF ReadKey, IsMultiLineTag
<1>9. <<Trim(value[1])>> = value /\ Tail(value) = <<>> /\ value[1] \in Lines
  BY <1>6, <1>8, LineRead
<1>. DEFINE q == InBlock(KeyOf(Line))
            v == InBlock(<<Trim(ValueOf(Line))>>)
<1>10. q \in Names /\ q.text = k
  BY <1>1, <1>6, <1>7, PtrTypes DEF InBlock, Ptr
<1>11. v \in Values /\ v.text = value
  <2>1. v = Ptr(value, load.block)
    BY <1>7, <1>8, <1>9 DEF InBlock
  <2>2. Ptr(value, load.block) \in Values
    BY <1>1, <1>6, PtrTypes
  <2>3. Ptr(value, load.block).text = value
    BY DEF Ptr
  <2>. QED
    BY <2>1, <2>2, <2>3
<1>12. /\ AddEntry(load.pSection, q, v, load.pComment, force, copy)
       /\ UNCHANGED <<file, m_pFileComment, m_bAllowMultiKey, m_bAllowMultiLine>>
       /\ load' = [AfterLines(1) EXCEPT !.pSection = load.pSection, !.runsOn = FALSE, !.pComment = NULL]
  BY <1>4a DEF ReadKey, AddKey, ParseVars, options
<1>13. From(load.data, 2) = rest
  <2>. DEFINE line == KeyLine(k, value[1])
  <2>1. line \in Lines
    BY <1>6, <1>9, LineTypes
  <2>2. body = <<line>> \o <<>>
    BY <1>6, <1>8, <1>9 DEF ValueText
  <2>. HIDE DEF line
  <2>3. body \in Seq(Lines) /\ Len(body) = 1
    BY <2>1, <2>2
  <2>4. From(body \o rest, Len(body) + 1) = rest
    BY <1>4, <2>3, Behind
  <2>. QED
    BY <1>4, <2>3, <2>4
<1>14. load'.data = rest /\ load'.pComment = NULL /\ load'.pSection = load.pSection /\ ~load'.runsOn
  <2>1. AfterLines(1) = [load EXCEPT !.data = From(load.data, 2)]
    BY <1>1
  <2>2. load' = [[load EXCEPT !.data = From(load.data, 2)]
                  EXCEPT !.pSection = load.pSection, !.runsOn = FALSE, !.pComment = NULL]
    BY <1>12, <2>1
  <2>. QED
    BY <1>1, <1>13, <2>2, ReadLines
<1>. HIDE DEF q, v, force, copy
<1>. QED
  BY <1>0, <1>1, <1>3, <1>5, <1>10, <1>11, <1>12, <1>14, EntryRead

\* the length of joined sequences
LEMMA Joined ==
  ASSUME NEW a \in Seq(Lines), NEW b \in Seq(Lines)
  PROVE  a \o b \in Seq(Lines) /\ Len(a \o b) = Len(a) + Len(b) /\ Len(a) \in Nat /\ Len(b) \in Nat
<1>1. a \o b \in Seq(Lines)
  BY ConcatProperties
<1>2. Len(a \o b) = Len(a) + Len(b)
  BY ConcatProperties
<1>3. Len(a) \in Nat /\ Len(b) \in Nat
  OBVIOUS
<1>. QED
  BY <1>1, <1>2, <1>3

\* a value of several lines that was written is read to its end tag
Tagged(line, value, rest) == (<<line>> \o value \o <<EndTag>>) \o rest
ValueEnds(data, value, rest) ==
  /\ Len(data) # 1 /\ LinesOfValue(Tail(data), EndTag) = Len(value)
  /\ SubSeq(Tail(data), 1, Len(value)) = value /\ From(data, (Len(value) + 2) + 1) = rest
\* a value between its tags is found in the data
LEMMA ValueLines ==
  ASSUME NEW line \in Lines, NEW value \in Seq(Lines), EndTag \notin ToSet(value),
         NEW rest \in Seq(Lines)
  PROVE  ValueEnds(Tagged(line, value, rest), value, rest)
<1>. DEFINE body == <<line>> \o value \o <<EndTag>>
            data == body \o rest
            e == EndTag
            a == <<line>>
            z == <<e>>
            d == z \o rest
            t == value \o d
            w == a \o value
<1>0. e \in Lines
  BY LineTypes
<1>1. a \in Seq(Lines) /\ z \in Seq(Lines) /\ Len(a) = 1 /\ Len(z) = 1
  BY <1>0
<1>2. body = w \o z
  OBVIOUS
<1>5. LinesOfValue(t, EndTag) = Len(value)
  BY ValueAhead
<1>11. d = <<e>> \o rest /\ body \o rest = (w \o z) \o rest
  BY <1>2
<1>15. data = body \o rest /\ data = Tagged(line, value, rest)
  BY DEF Tagged
<1>. HIDE DEF a, z, e, body, data
<1>3. Len(value) \in Nat /\ w \in Seq(Lines) /\ Len(w) = 1 + Len(value)
  <2>1. Len(a \o value) = Len(a) + Len(value) /\ a \o value \in Seq(Lines) /\ Len(value) \in Nat
    BY <1>1, Joined
  <2>. QED
    BY <1>1, <2>1
<1>4. d \in Seq(Lines) /\ Len(d) = 1 + Len(rest) /\ Len(rest) \in Nat
  <2>1. Len(z \o rest) = Len(z) + Len(rest) /\ z \o rest \in Seq(Lines) /\ Len(rest) \in Nat
    BY <1>1, Joined
  <2>. QED
    BY <1>1, <2>1
<1>. HIDE DEF w
<1>6. body \in Seq(Lines) /\ Len(body) = Len(value) + 2
  <2>1. Len(w \o z) = Len(w) + Len(z) /\ w \o z \in Seq(Lines)
    BY <1>1, <1>3, Joined
  <2>2. Len(w \o z) = Len(value) + 2
    BY <1>1, <1>3, <2>1
  <2>. QED
    BY <1>2, <2>1, <2>2
<1>7. data = a \o t
  <2>0. w \in Seq(Lines) /\ z \in Seq(Lines)
    BY <1>1, <1>3
  <2>1. (w \o z) \o rest = w \o (z \o rest)
    BY <2>0, Regroup
  <2>2. data = w \o d
    BY <1>11, <1>15, <2>1
  <2>. HIDE DEF d
  <2>4. a \in Seq(Lines) /\ d \in Seq(Lines)
    BY <1>1, <1>4
  <2>3. (a \o value) \o d = a \o (value \o d)
    BY <2>4, Regroup
  <2>. QED
    BY <2>2, <2>3 DEF w
<1>. HIDE DEF d
<1>12. t \in Seq(Lines) /\ Len(t) = Len(value) + Len(d)
  BY <1>4, Joined
<1>8. SubSeq(t, 1, Len(value)) = value /\ From(body \o rest, Len(body) + 1) = rest
  BY <1>4, <1>6, Behind
<1>9. Tail(data) = t /\ Len(data) = Len(t) + 1
  <2>1. data = <<line>> \o t
    BY <1>7 DEF a
  <2>. HIDE DEF t
  <2>. QED
    BY <1>12, <2>1, TailBehind
<1>10. Len(t) \in Nat \ {0}
  BY <1>3, <1>4, <1>12
<1>13. From(data, Len(body) + 1) = rest
  BY <1>8, <1>15
<1>. HIDE DEF t
<1>14. Len(body) + 1 = (Len(value) + 2) + 1 /\ Len(data) # 1
  BY <1>6, <1>9, <1>10
<1>16. ValueEnds(data, value, rest)
  BY <1>5, <1>8, <1>9, <1>13, <1>14 DEF ValueEnds
<1>. QED
  BY <1>15, <1>16

\* Reading a value of several lines puts the entry that was written into the table.
LEMMA ValueRead ==
  ASSUME IniInv, Parsing, ReadingNow, ReadMultiLine
  PROVE  ReadingNow'
<1>. DEFINE many == m_bAllowMultiKey
            multi == m_bAllowMultiLine
            force == FALSE
            copy == Copying
            lines == IF Len(load.data) = 1 THEN <<Blank>> ELSE Tail(load.data)
            n == LinesOfValue(lines, Text(ValueOf(Line).body.tag))
<1>0. IniTypeOK /\ copy \in BOOLEAN /\ force \in BOOLEAN /\ ~force
  BY DEF IniInv, Copying
<1>1. /\ load \in Loads /\ load.block \in Nat \ {0} /\ load.data \in Seq(Lines)
      /\ load.pComment \in Comments /\ load.pSection \in SectionNames /\ Line \in Lines
      /\ \A m \in Nat : AfterLines(m) = [load EXCEPT !.data = From(load.data, m + 1)]
  BY <1>0, ParseTypes
<1>2. IsKeyLine(Line) /\ ~Keyless(KeyOf(Line))
  BY Zenon DEF ReadMultiLine, IsKey, Keyless, NoKey
<1>3. PICK x, z, y, b, c, body, rest : BodyNow(x, z, y, b, c, body, rest)
  BY <1>0, <1>2, BodyAhead
<1>4. /\ x \in Positions /\ Piece(x, y, b, c, body, many, multi) /\ Line = body[1]
      /\ load.data = body \o rest /\ rest \in Seq(Lines)
  BY <1>3 DEF BodyNow
<1>4a. SectionOfKey = load.pSection
  BY <1>3 DEF BodyNow, SectionOfKey, RunsOn
<1>5. PICK k, value : EntryPiece(x, y, b, c, body, k, value, many, multi)
  <2>1. ASSUME NEW name, HeaderPiece(x, y, b, c, body, name) PROVE FALSE
    <3>1. Is("header", body[1])
      BY <2>1, HeaderLine
    <3>. QED
      BY <1>1, <1>2, <1>4, <3>1, KindsApart
  <2>. QED
    BY <1>4, <2>1 DEF Piece
<1>6. /\ k \in STRING /\ value \in Seq(Lines) \ {<<>>} /\ Fits(value, multi)
      /\ body = ValueText(k, value, multi)
  BY <1>5, Zenon DEF EntryPiece
<1>7. /\ KeyOf(Line) = k
      /\ ValueOf(Line) = IF multi /\ IsMultiLineData(value) THEN Tag("END_OF_TEXT") ELSE value[1]
  BY <1>4, <1>5, EntryLine
<1>8. /\ AddEntry(load.pSection, InBlock(KeyOf(Line)), InBlock(SubSeq(lines, 1, n)), load.pComment,
                  force, copy)
      /\ UNCHANGED <<file, m_pFileComment, m_bAllowMultiKey, m_bAllowMultiLine>>
      /\ load' = [AfterLines(n + 2) EXCEPT !.pSection = load.pSection, !.runsOn = FALSE, !.pComment = NULL]
      /\ multi /\ IsMultiLineTag(ValueOf(Line))
  BY <1>4a DEF ReadMultiLine, AddKey, ParseVars, options
<1>9. IsMultiLineData(value) /\ EndTag \notin ToSet(value)
  <2>1. ASSUME ~IsMultiLineData(value) PROVE FALSE
    <3>1. IsMultiLineTag(value[1])
      BY <1>7, <1>8, <2>1
    <3>. QED
      BY <1>6, <1>8, <2>1, <3>1 DEF Fits
  <2>2. multi /\ IsMultiLineData(value)
    BY <1>8, <2>1
  <2>. QED
    BY <1>6, <2>2, Zenon DEF Fits
<1>9a. Text(ValueOf(Line).body.tag) = EndTag
  <2>. DEFINE w == "END_OF_TEXT"
  <2>1. ValueOf(Line) = Tag(w)
    BY <1>7, <1>8, <1>9
  <2>. HIDE DEF w
  <2>2. Tag(w).body.tag = w
    BY LineKinds
  <2>3. Text(ValueOf(Line).body.tag) = Text(w)
    BY <2>1, <2>2
  <2>. QED
    BY <2>3 DEF w, EndTag
<1>. DEFINE line == KeyLine(k, Tag("END_OF_TEXT"))
<1>10. line \in Lines /\ body = <<line>> \o value \o <<EndTag>>
  <2>1. line \in Lines
    BY <1>6, LineTypes
  <2>. QED
    BY <1>6, <1>8, <1>9, <2>1, Zenon DEF ValueText
<1>. HIDE DEF line
<1>11. n = Len(value) /\ SubSeq(lines, 1, n) = value /\ From(load.data, (n + 2) + 1) = rest
  <2>. DEFINE data == load.data
  <2>1. data = Tagged(line, value, rest)
    BY <1>4, <1>10, Zenon DEF Tagged
  <2>. HIDE DEF data
  <2>2. value \in Seq(Lines)
    BY <1>6
  <2>3. ValueEnds(Tagged(line, value, rest), value, rest)
    BY <1>4, <1>9, <1>10, <2>2, ValueLines
  <2>4. ValueEnds(data, value, rest)
    BY <2>1, <2>3
  <2>5. Len(data) # 1
    BY <2>4 DEF ValueEnds
  <2>6. lines = Tail(data) /\ n = LinesOfValue(lines, EndTag)
    BY <1>9a, <2>5 DEF data
  <2>. HIDE DEF lines, n
  <2>. QED
    BY <2>4, <2>6 DEF ValueEnds, data
<1>. DEFINE q == InBlock(KeyOf(Line))
            v == InBlock(SubSeq(lines, 1, n))
<1>12. q \in Names /\ q.text = k
  BY <1>1, <1>6, <1>7, PtrTypes DEF InBlock, Ptr
<1>13. v \in Values /\ v.text = value
  <2>1. v = Ptr(value, load.block)
    BY <1>11 DEF InBlock
  <2>2. Ptr(value, load.block) \in Values
    BY <1>1, <1>6, PtrTypes
  <2>3. Ptr(value, load.block).text = value
    BY DEF Ptr
  <2>. QED
    BY <2>1, <2>2, <2>3
<1>14. load'.data = rest /\ load'.pComment = NULL /\ load'.pSection = load.pSection /\ ~load'.runsOn
  <2>. HIDE DEF n
  <2>1. n + 2 \in Nat
    BY <1>6, <1>11
  <2>2. AfterLines(n + 2) = [load EXCEPT !.data = From(load.data, (n + 2) + 1)]
    BY <1>1, <2>1
  <2>3. load' = [[load EXCEPT !.data = From(load.data, (n + 2) + 1)]
                  EXCEPT !.pSection = load.pSection, !.runsOn = FALSE, !.pComment = NULL]
    BY <1>8, <2>2
  <2>. QED
    BY <1>1, <1>11, <2>3, ReadLines
<1>15. AddEntry(load.pSection, q, v, load.pComment, force, copy)
  BY <1>8
<1>16. UNCHANGED <<file, m_pFileComment, m_bAllowMultiKey, m_bAllowMultiLine>>
  BY <1>8
<1>. HIDE DEF q, v, force, copy, lines, n
<1>17. load.pSection \in SectionNames /\ load.pComment \in Comments
  BY <1>1
<1>. QED
  BY <1>0, <1>3, <1>5, <1>12, <1>13, <1>14, <1>15, <1>16, <1>17, EntryRead

-----------------------------------------------------------------------------
(* The comments of the table are comments a file can hold                  *)

LinesTaken(data, blanks, n, c) ==
  /\ n \in Nat /\ c \in Seq(Lines) /\ Len(c) = n
  /\ \A i \in 1..n : c[i] = data[i] /\ (IsComment(c[i]) \/ (blanks /\ c[i] = Blank))
  /\ n > 0 => IsComment(c[n])
  /\ data # <<>> /\ IsComment(data[1]) => n > 0
\* the lines of a comment are comments, and blank lines between them if allowed
LEMMA CommentTaken ==
  ASSUME NEW data \in Seq(Lines), NEW blanks
  PROVE  LET n == CommentLines(data, blanks) IN LinesTaken(data, blanks, n, SubSeq(data, 1, n))
<1>. DEFINE n == CommentLines(data, blanks)
            c == SubSeq(data, 1, n)
            inside(m) == \A i \in 1..m : IsComment(data[i]) \/ (blanks /\ data[i] = Blank)
            S == {0} \cup {m \in 1..Len(data) : inside(m) /\ IsComment(data[m])}
<1>1. n = Max(S)
  BY DEF CommentLines
<1>2. data # <<>> /\ IsComment(data[1]) => 1 \in S
  OBVIOUS
<1>3. \A m \in S : m # 0 => inside(m) /\ IsComment(data[m]) /\ m \in 1..Len(data)
  OBVIOUS
<1>4. S \subseteq Nat /\ S # {} /\ Len(data) \in Nat /\ \A m \in S : m <= Len(data)
  <2>. HIDE DEF inside
  <2>. QED
    OBVIOUS
<1>. HIDE DEF S, n
<1>5. n \in S /\ \A m \in S : m <= n
  BY <1>1, <1>4, MaxIsGreatest
<1>6. n \in Nat /\ n <= Len(data)
  BY <1>4, <1>5
<1>7. c \in Seq(Lines) /\ Len(c) = n /\ \A i \in 1..n : c[i] = data[i]
  <2>1. c \in Seq(Lines)
    BY <1>6, PartType
  <2>2. Len(c) = n
    BY <1>6, SubSeqProperties
  <2>3. \A i \in 1..n : c[i] = data[i]
    BY <1>6, SubSeqProperties
  <2>. QED
    BY <2>1, <2>2, <2>3
<1>8. n > 0 => n # 0 /\ n \in 1..n
  BY <1>6
<1>9. n > 0 => IsComment(c[n])
  BY <1>3, <1>5, <1>7, <1>8
<1>10. \A i \in 1..n : IsComment(c[i]) \/ (blanks /\ c[i] = Blank)
  <2>1. n = 0 \/ inside(n)
    BY <1>3, <1>5
  <2>2. n = 0 => 1..n = {}
    OBVIOUS
  <2>. QED
    BY <1>7, <2>1, <2>2
<1>. HIDE DEF c
<1>11. LinesTaken(data, blanks, n, c)
  BY <1>2, <1>5, <1>6, <1>7, <1>9, <1>10 DEF LinesTaken
<1>. QED
  BY <1>11 DEF n, c

\* the comments of a section and of its entries
SectionComments(section) ==
  CommentOK(section.pComment) /\ \A e \in section.keys : CommentOK(e.pComment)
TableComments(data) == \A s \in DOMAIN data : SectionComments(data[s])
FileCommentOK(p) == p # NULL => p.text # <<>> /\ \A i \in DOMAIN p.text : IsComment(p.text[i])

\* comments of the file, of the table and of a load
LEMMA CommentsParts ==
  CommentsOK <=> /\ FileCommentOK(m_pFileComment) /\ TableComments(m_data)
                 /\ load # NULL => CommentOK(load.pComment)
BY DEF CommentsOK, FileCommentOK, TableComments, SectionComments

\* and after a step
LEMMA CommentsNext ==
  ASSUME FileCommentOK(m_pFileComment'), TableComments(m_data'),
         load' # NULL => CommentOK(load'.pComment)
  PROVE  CommentsOK'
BY DEF CommentsOK, FileCommentOK, TableComments, SectionComments

\* no comment is one a file can hold
LEMMA NoComment == CommentOK(NULL) /\ FileCommentOK(NULL)
BY DEF CommentOK, FileCommentOK

\* comments of the sections and entries that the calls put into the table
LEMMA WithSectionComments ==
  ASSUME TableComments(m_data), NEW s, NEW section, SectionComments(section)
  PROVE  TableComments(WithSection(s, section))
BY DEF TableComments, WithSection

\* a section that is added has the comment it is given, or its copy
LEMMA AddSectionComments ==
  ASSUME IniInv, TableComments(m_data), NEW p \in SectionNames, NEW c \in Comments, NEW copy \in BOOLEAN,
         CommentOK(c), AddSection(p, c, copy)
  PROVE  TableComments(m_data')
<1>. DEFINE comment == IF copy THEN CopyString(c, 1) ELSE c
            section == SectionFor(p, comment, copy)
<1>1. CommentOK(comment)
  <2>1. \A q \in Comments : CopyString(q, 1) \in Comments /\ SameText(CopyString(q, 1), q)
    BY CopyType
  <2>. QED
    BY <2>1, SameTextSaved
<1>2. m_data' = WithSection(p.text, section)
  BY DEF AddSection
<1>. HIDE DEF comment
<1>3. SectionComments(section)
  BY <1>1 DEF SectionFor, TableComments, SectionComments
<1>. HIDE DEF section
<1>. QED
  BY <1>2, <1>3, WithSectionComments

\* entries of a section are replaced by one with such a comment
LEMMA ReplacedComments ==
  ASSUME TableComments(m_data), NEW s \in DOMAIN m_data, m_data \in [DOMAIN m_data -> SectionEntries],
         NEW gone, NEW e, CommentOK(e.pComment)
  PROVE  TableComments(Replaced(s, gone, e))
<1>. DEFINE keys == (m_data[s].keys \ gone) \cup {e}
            section == [m_data[s] EXCEPT !.keys = keys]
<1>1. Replaced(s, gone, e) = [m_data EXCEPT ![s] = section]
  BY DEF Replaced
<1>2. \A f \in keys : CommentOK(f.pComment)
  BY DEF TableComments, SectionComments
<1>. HIDE DEF keys
<1>3. section.keys = keys /\ section.pComment = m_data[s].pComment
  BY DEF SectionEntries
<1>4. SectionComments(section)
  BY <1>2, <1>3 DEF TableComments, SectionComments
<1>. HIDE DEF section
<1>. QED
  BY <1>1, <1>4 DEF TableComments

\* and so has an entry
LEMMA AddEntryComments ==
  ASSUME IniInv, TableComments(m_data), NEW p \in SectionNames, NEW k \in Names, NEW v \in Values,
         NEW c \in Comments, CommentOK(c), NEW force \in BOOLEAN, NEW copy \in BOOLEAN,
         AddEntry(p, k, v, c, force, copy)
  PROVE  TableComments(m_data')
<1>. DEFINE s == p.text
            same == SameKey(s, k.text)
            first == First(same)
<1>0. IniTypeOK /\ m_data \in [DOMAIN m_data -> SectionEntries]
  BY DEF IniInv, IniTypeOK
<1>1. ASSUME same # {}
      PROVE  s \in DOMAIN m_data /\ first \in m_data[s].keys /\ first \in KeyEntries
             /\ CommentOK(first.pComment)
  <2>1. s \in DOMAIN m_data /\ same \subseteq m_data[s].keys /\ first \in same
    BY <1>0, <1>1, SameKeyFirst
  <2>. HIDE DEF first, same, s
  <2>2. first \in KeyEntries
    BY <1>0, <2>1 DEF SectionEntries
  <2>. QED
    BY <2>1, <2>2 DEF TableComments, SectionComments
<1>2. CASE InsertKey(p, k, v, c, force, copy)
  <2>1. PICK section, e : /\ KeyInserted(s, k.text, section, e)
                          /\ e \in KeyEntries /\ SameText(e.pComment, c)
    BY <1>2, InsertKeyTable
  <2>2. CommentOK(e.pComment)
    BY <2>1, SameTextSaved DEF KeyEntries
  <2>3. section.keys = Entries(s) \cup {e} /\ m_data' = WithSection(s, section)
        /\ CommentOK(section.pComment)
    BY <2>1 DEF KeyInserted, TableComments, SectionComments, CommentOK
  <2>4. SectionComments(section)
    BY <2>2, <2>3 DEF SectionComments, Entries, TableComments
  <2>. QED
    BY <2>3, <2>4, WithSectionComments
<1>3. CASE UpdateKey(p, k, v, c, copy)
  <2>. DEFINE value == IF copy THEN CopyString(v, 4) ELSE v
              e == [first EXCEPT !.value = value]
  <2>1. same # {} /\ m_data' = Replaced(s, {first}, e)
    BY <1>3 DEF UpdateKey, Replaced
  <2>. HIDE DEF value, first, same, s
  <2>2. e.pComment = first.pComment
    BY <1>1, <2>1 DEF KeyEntries
  <2>. HIDE DEF e
  <2>. QED
    BY <1>0, <1>1, <2>1, <2>2, ReplacedComments
<1>4. CASE ReplaceKeys(p, k, v, c)
  <2>. DEFINE kept == first.pComment
  <2>5. PICK key \in Names, value \in Values, comment \in Comments :
          ReplacedBy(s, k.text, c, key, value, comment)
    BY <1>4, ReplaceKeysIs
  <2>. DEFINE e == [pItem |-> key, pComment |-> comment, value |-> value, nOrder |-> first.nOrder]
  <2>1. /\ same # {} /\ m_data' = Replaced(s, same, e)
        /\ comment = IF kept = NULL THEN CopyString(c, 1) ELSE CopyString(kept, 5)
    BY <2>5 DEF ReplacedBy
  <2>. HIDE DEF first, same, s
  <2>2. kept \in Comments /\ CommentOK(kept)
    BY <1>1, <2>1 DEF KeyEntries
  <2>. HIDE DEF kept
  <2>3. CommentOK(comment)
    <3>1. \A q \in Comments : CopyString(q, 1) \in Comments /\ SameText(CopyString(q, 1), q)
      BY CopyType
    <3>2. \A q \in Comments : CopyString(q, 5) \in Comments /\ SameText(CopyString(q, 5), q)
      BY CopyType
    <3>. QED
      BY <2>1, <2>2, <3>1, <3>2, SameTextSaved
  <2>4. e.pComment = comment
    OBVIOUS
  <2>. HIDE DEF e
  <2>. QED
    BY <1>0, <1>1, <2>1, <2>3, <2>4, ReplacedComments
<1>. QED
  BY <1>2, <1>3, <1>4 DEF AddEntry

-----------------------------------------------------------------------------
(* The file is read from its first line to its last one *)

\* an entry or a header that is still to be read is in the data
LEMMA AheadMore ==
  ASSUME NEW ld, NEW c \in Seq(Lines), NEW body \in Seq(Lines), body # <<>>, NEW rest \in Seq(Lines),
         Ahead(ld, c, body, rest)
  PROVE  ld.data # <<>>
<1>. DEFINE u == body \o rest
            t == c \o u
<1>1. u \in Seq(Lines) /\ Len(u) = Len(body) + Len(rest) /\ Len(body) \in Nat /\ Len(rest) \in Nat
  BY Joined
<1>2. Len(u) \in Nat \ {0}
  BY <1>1
<1>. HIDE DEF u
<1>3. t \in Seq(Lines) /\ Len(t) = Len(c) + Len(u) /\ Len(c) \in Nat
  BY <1>1, Joined
<1>4. Len(t) \in Nat \ {0}
  BY <1>2, <1>3
<1>. HIDE DEF t
<1>5. ASSUME NEW j \in Nat PROVE Coming(j, c, body, rest) # <<>>
  <2>. DEFINE g == Blanks(j)
  <2>1. g \in Seq(Lines)
    BY BlanksParts
  <2>2. Coming(j, c, body, rest) = g \o t
    BY DEF Coming, t, u
  <2>. HIDE DEF g
  <2>3. Len(g \o t) = Len(g) + Len(t) /\ Len(g) \in Nat
    BY <1>3, <2>1, Joined
  <2>4. Len(g \o t) # 0
    BY <1>4, <2>3
  <2>. DEFINE w == g \o t
  <2>. HIDE DEF w
  <2>5. Len(w) # 0
    BY <2>4 DEF w
  <2>6. w # <<>>
    BY <2>5
  <2>. QED
    BY <2>2, <2>6 DEF w
<1>6. u # <<>>
  BY <1>2
<1>. QED
  BY <1>5, <1>6 DEF Ahead, u

\* at the end of the data all of the file has been read
LEMMA ReadToEnd ==
  ASSUME IniTypeOK, load # NULL, load.data = <<>>, ReadingNow
  PROVE  SavedText = file
<1>. DEFINE many == m_bAllowMultiKey
            multi == m_bAllowMultiLine
            ld == load
<1>1. PICK x, z : /\ x \in Positions /\ z.text = file
                  /\ Matches(x, m_pFileComment, m_data, ld.pSection.text, many, multi)
                  /\ (x = z /\ ld.data = <<>> /\ ld.pComment = NULL) \/ InPiece(ld, x, z, file, many, multi)
  BY DEF ReadingNow, Reading
<1>2. CASE InPiece(ld, x, z, file, many, multi)
  <2>1. PICK y, b, c, body : /\ Piece(x, y, b, c, body, many, multi)
                             /\ \E rest \in Seq(Lines) : file = y.text \o rest /\ Ahead(ld, c, body, rest)
    BY <1>2 DEF InPiece
  <2>2. PICK rest \in Seq(Lines) : Ahead(ld, c, body, rest)
    BY <2>1
  <2>. HIDE DEF many, multi
  <2>3. c \in Seq(Lines) /\ body \in Seq(Lines) /\ body # <<>>
    BY <1>1, <2>1, PieceParts
  <2>. HIDE DEF ld
  <2>4. ld.data # <<>>
    BY <2>2, <2>3, AheadMore
  <2>. QED
    BY <2>4 DEF ld
<1>3. CASE x = z
  <2>1. TableText(m_pFileComment, m_data, many, multi) = file
    BY <1>1, <1>3 DEF Matches
  <2>. QED
    BY <2>1, SavedTextIs
<1>. QED
  BY <1>1, <1>2, <1>3

\* the position behind the file comment
LEMMA StartParts ==
  ASSUME NEW c \in Seq(Lines), NEW s, s = Start(c)
  PROVE  /\ s \in Positions /\ s.text = c /\ (s.behind <=> c # <<>>) /\ s.sections = {} /\ s.keys = {}
         /\ Unnamed(s.section) /\ s.section \in SavedNames
<1>1. NoName \in SavedNames /\ NoKey \in STRING /\ Unnamed(NoName)
  BY NamesParts
<1>2. s = [text |-> c, behind |-> c # <<>>, sections |-> {}, section |-> NoName, keys |-> {}, key |-> NoKey]
  BY DEF Start
<1>3. s \in Positions
  BY <1>1, <1>2 DEF Positions
<1>4. s.text = c /\ s.behind = (c # <<>>) /\ s.sections = {} /\ s.section = NoName /\ s.keys = {}
  BY <1>2
<1>. QED
  BY <1>1, <1>3, <1>4

\* the first line of a piece at the start of a file is no comment
LEMMA ComingFirst ==
  ASSUME NEW b \in Nat, NEW c \in Seq(Lines), b = 0 => c = <<>>, NEW body \in Seq(Lines), body # <<>>,
         ~IsComment(body[1]), NEW rest \in Seq(Lines), NEW d, d = Coming(b, c, body, rest)
  PROVE  ~IsComment(d[1])
<1>. DEFINE g == Blanks(b)
            u == body \o rest
            t == c \o u
<1>1. u \in Seq(Lines) /\ t \in Seq(Lines) /\ u[1] = body[1]
  BY LinesJoined, Behind
<1>2. g \in Seq(Lines) /\ Len(g) = b /\ (\A i \in 1..b : g[i] = Blank) /\ (b = 0 => g = <<>>)
  BY BlanksParts
<1>3. d = g \o t
  BY DEF Coming
<1>4. CASE b = 0
  <2>. HIDE DEF g, u
  <2>1. t = u
    BY <1>1, <1>4, ConcatEmptySeq
  <2>. HIDE DEF t
  <2>2. d = t
    BY <1>1, <1>2, <1>3, <1>4, ConcatEmptySeq
  <2>. QED
    BY <1>1, <2>1, <2>2
<1>5. CASE b # 0
  <2>. HIDE DEF g, t
  <2>1. g # <<>> /\ g[1] = Blank
    BY <1>2, <1>5
  <2>2. (g \o t)[1] = g[1]
    BY <1>1, <1>2, <2>1, Behind
  <2>3. d[1] = Blank
    BY <1>3, <2>1, <2>2
  <2>. QED
    BY <2>3, LineKinds
<1>. QED
  BY <1>4, <1>5

\* the comment of a file that was written ends where its first section begins
LEMMA FileStart ==
  ASSUME NEW c \in Seq(Lines), \A i \in DOMAIN c : IsComment(c[i]), NEW z, NEW many, NEW multi,
         Path(Start(c), z, many, multi)
  PROVE  \E d \in Seq(Lines) : z.text = c \o d /\ CommentLines(z.text, FALSE) = Len(c)
<1>. DEFINE s == Start(c)
            blanks == FALSE
<1>1. s \in Positions /\ s.text = c
  BY StartParts
<1>. HIDE DEF s, blanks
<1>2. PICK d \in Seq(Lines) : z.text = c \o d
  BY <1>1, PathText DEF s
<1>3. d # <<>> => ~IsComment(d[1])
  <2>1. ASSUME s # z PROVE ~IsComment(d[1])
    <3>1. Path(s, z, many, multi) /\ z.text = s.text \o d
      BY <1>1, <1>2 DEF s
    <3>2. PICK y, b, cc, body, rest : NextPiece(s, z, d, y, b, cc, body, rest, many, multi)
      BY <2>1, <3>1, PieceFollows
    <3>3. /\ Piece(s, y, b, cc, body, many, multi) /\ rest \in Seq(Lines)
          /\ d = Coming(b, cc, body, rest) /\ b \in Nat
      BY <3>2 DEF NextPiece
    <3>4. cc \in Seq(Lines) /\ body \in Seq(Lines) /\ body # <<>>
      BY <1>1, <3>3, PieceParts
    <3>5. ~IsComment(body[1]) /\ (b = 0 => cc = <<>>)
      BY <1>1, <3>3, BodyBegins
    <3>. QED
      BY <3>3, <3>4, <3>5, ComingFirst
  <2>2. ASSUME s = z PROVE d = <<>>
    <3>1. c \o d = c \o <<>> /\ <<>> \in Seq(Lines)
      BY <1>1, <1>2, <2>2, ConcatEmptySeq
    <3>. QED
      BY <3>1, Cancel
  <2>. QED
    BY <2>1, <2>2
<1>4. /\ \A i \in 1..Len(c) : IsComment(c[i]) \/ (blanks /\ c[i] = Blank)
      /\ c # <<>> => IsComment(c[Len(c)])
      /\ d # <<>> => ~IsComment(d[1]) /\ ~(blanks /\ d[1] = Blank)
  <2>1. \A i \in 1..Len(c) : IsComment(c[i])
    OBVIOUS
  <2>2. c # <<>> => Len(c) \in DOMAIN c
    OBVIOUS
  <2>. QED
    BY <1>3, <2>1, <2>2 DEF blanks
<1>5. CommentLines(c \o d, blanks) = Len(c)
  BY <1>4, CommentAhead
<1>. QED
  BY <1>2, <1>5 DEF blanks

\* LoadFile takes the comment lines the file begins with, unless it has a comment
Taken(n) ==
  /\ n \in Nat /\ n = CommentLines(file, FALSE)
  /\ load' # NULL /\ load'.data = From(file, n + 1)
  /\ load'.pComment = NULL /\ Unnamed(load'.pSection.text) /\ ~load'.runsOn
  /\ SavedComment(m_pFileComment') = SubSeq(file, 1, n)
  /\ m_pFileComment' = NULL <=> n = 0
  /\ FileCommentOK(m_pFileComment')
\* that comment is of comment lines, and the rest of the file is the data
LEMMA FileCommentTaken ==
  ASSUME IniInv, LoadFile, m_pFileComment = NULL
  PROVE  \E n : Taken(n)
<1>. DEFINE blanks == FALSE
            n == CommentLines(file, blanks)
            block == NewAllocation(1)
            c == SubSeq(file, 1, n)
            comment == Ptr(c, block)
            copied == CopyString(comment, 2)
            name == Ptr(Title(""), 0)
            fc == IF n = 0 THEN NULL ELSE IF Copying THEN copied ELSE comment
<1>0. file \in Seq(Lines) /\ block \in Nat \ {0}
  BY Fresh DEF IniInv, IniTypeOK
<1>1. /\ load' = [data |-> From(file, n + 1), pSection |-> name, pComment |-> NULL,
                 block |-> block, runsOn |-> FALSE]
      /\ m_pFileComment' = fc
  BY DEF LoadFile
<1>2. Unnamed(name.text) /\ name \in SectionNames
  <2>1. NoName \in SavedNames /\ Unnamed(NoName) /\ NoName \in Titles
    BY NamesParts
  <2>2. name = [text |-> NoName, at |-> 0]
    BY Zenon DEF Ptr, NoName
  <2>. HIDE DEF name
  <2>. QED
    BY <2>1, <2>2 DEF SectionNames
<1>. HIDE DEF blanks
<1>3. /\ n \in Nat /\ c \in Seq(Lines) /\ Len(c) = n
      /\ \A i \in 1..n : c[i] = file[i] /\ (IsComment(c[i]) \/ (blanks /\ c[i] = Blank))
  <2>1. LinesTaken(file, blanks, n, c)
    BY <1>0, CommentTaken
  <2>. HIDE DEF n, c
  <2>. QED
    BY <2>1 DEF LinesTaken
<1>. HIDE DEF n, c, name, block
<1>4. \A i \in DOMAIN c : IsComment(c[i])
  BY <1>3 DEF blanks
<1>5. comment \in Comments /\ comment.text = c /\ comment # NULL
  <2>1. comment = [text |-> c, at |-> block] /\ comment \in [text : Seq(Lines), at : Nat]
    BY <1>0, <1>3 DEF Ptr
  <2>2. NULL \notin [text : Seq(Lines), at : Nat]
    BY IniAssumption
  <2>. QED
    BY <2>1, <2>2 DEF Comments
<1>. HIDE DEF comment
<1>6. copied \in Comments /\ copied.text = c /\ copied # NULL
  <2>1. \A p \in Comments : CopyString(p, 2) \in Comments /\ SameText(CopyString(p, 2), p)
    BY CopyType
  <2>. QED
    BY <1>5, <2>1 DEF SameText
<1>. HIDE DEF copied
<1>7. n = 0 => c = <<>>
  BY <1>3
<1>8. fc = NULL <=> n = 0
  BY <1>5, <1>6
<1>9. SavedComment(fc) = c
  BY <1>5, <1>6, <1>7 DEF SavedComment
<1>10. FileCommentOK(fc)
  <2>1. n # 0 => c # <<>>
    BY <1>3
  <2>. QED
    BY <1>4, <1>5, <1>6, <2>1 DEF FileCommentOK
<1>. HIDE DEF fc
<1>11. load' # NULL
  <2>. DEFINE ld == load'
  <2>1. ld \in Loads
    <3>1. From(file, n + 1) \in Seq(Lines)
      BY <1>0, <1>3, PartType DEF From
    <3>2. NULL \in Comments
      BY DEF Comments
    <3>. QED
      BY <1>0, <1>1, <1>2, <3>1, <3>2 DEF Loads
  <2>2. NULL \notin Loads
    BY IniAssumption
  <2>. QED
    BY <2>1, <2>2
<1>12. /\ load'.data = From(file, n + 1) /\ load'.pComment = NULL /\ load'.pSection = name /\ ~load'.runsOn
  BY <1>1
<1>13. Taken(n)
  BY <1>1, <1>2, <1>3, <1>8, <1>9, <1>10, <1>11, <1>12 DEF Taken, n, c, blanks
<1>. QED
  BY <1>13

\* an empty table is written as the file comment only
LEMMA NoTableText ==
  \A fc, many, multi : TableText(fc, <<>>, many, multi) = SavedComment(fc) \o <<>>
<1>. DEFINE data == <<>>
<1>1. DOMAIN data = {}
  OBVIOUS
<1>. HIDE DEF data
<1>2. SectionsOf(data) = {}
  BY <1>1 DEF SectionsOf
<1>3. Cardinality(SectionsOf(data)) = 0
  BY <1>2, FS_EmptySet
<1>4. ASSUME NEW fc, NEW many, NEW multi
      PROVE  TableText(fc, data, many, multi) = SavedComment(fc) \o <<>>
  <2>. DEFINE q == [i \in 1..0 |->
                     Gap(i > 1 \/ fc # NULL) \o SectionText(Sorted(SectionsOf(data))[i], many, multi)]
  <2>1. SectionTexts(fc, data, many, multi) = q
    BY <1>3 DEF SectionTexts
  <2>2. q = <<>>
    OBVIOUS
  <2>3. FlattenSeq(SectionTexts(fc, data, many, multi)) = <<>>
    BY <2>1, <2>2, FlattenNone
  <2>. QED
    BY <2>3 DEF TableText
<1>. QED
  BY <1>4 DEF data

\* what was written is loaded into an empty object
LEMMA FileRead ==
  ASSUME IniInv, LoadFile, Reloads, Written(file, m_bAllowMultiKey, m_bAllowMultiLine)
  PROVE  ReadingNow'
<1>. DEFINE many == m_bAllowMultiKey
            multi == m_bAllowMultiLine
            ld == load'
            fc == m_pFileComment'
            data == m_data'
<1>1. /\ m_pFileComment = NULL /\ data = <<>> /\ many' = many /\ multi' = multi
      /\ file' = file /\ file \in Seq(Lines)
  BY DEF Reloads, LoadFile, options, IniInv, IniTypeOK
<1>2. PICK n : Taken(n)
  BY <1>1, FileCommentTaken
<1>15. PICK c \in Seq(Lines) : \E z : /\ \A i \in DOMAIN c : IsComment(c[i])
                                      /\ Path(Start(c), z, many, multi) /\ file = z.text
  BY DEF Written
<1>3. PICK z : /\ \A i \in DOMAIN c : IsComment(c[i])
               /\ Path(Start(c), z, many, multi) /\ file = z.text
  BY <1>15
<1>. DEFINE s == Start(c)
            name == ld.pSection.text
<1>. HIDE DEF many, multi, ld, fc, data
<1>4. PICK d \in Seq(Lines) : z.text = c \o d /\ CommentLines(z.text, FALSE) = Len(c)
  BY <1>3, FileStart
<1>5. n = Len(c) /\ n \in Nat
  BY <1>2, <1>3, <1>4 DEF Taken
<1>6. SubSeq(file, 1, n) = c /\ From(file, n + 1) = d
  BY <1>3, <1>4, <1>5, Behind
<1>7. /\ ld.data = d /\ ld.pComment = NULL /\ Unnamed(name) /\ SavedComment(fc) = c /\ ~ld.runsOn
      /\ fc = NULL <=> c = <<>>
  <2>1. /\ ld.data = From(file, n + 1) /\ ld.pComment = NULL /\ Unnamed(name) /\ ~ld.runsOn
        /\ SavedComment(fc) = SubSeq(file, 1, n) /\ (fc = NULL <=> n = 0)
    BY <1>2, Zenon DEF Taken, ld, fc
  <2>2. n = 0 <=> c = <<>>
    BY <1>5
  <2>. HIDE DEF name
  <2>. QED
    BY <1>6, <2>1, <2>2
<1>8. /\ s \in Positions /\ s.text = c /\ (s.behind <=> c # <<>>) /\ s.sections = {} /\ s.keys = {}
      /\ Unnamed(s.section)
  BY StartParts
<1>9. s.section = name
  BY <1>7, <1>8, Zenon DEF Unnamed
<1>10. DOMAIN data = {}
  BY <1>1
<1>11. TableText(fc, data, many, multi) = c
  <2>1. TableText(fc, data, many, multi) = SavedComment(fc) \o <<>>
    BY <1>1, NoTableText
  <2>. QED
    BY <1>7, <2>1, ConcatEmptySeq
<1>. HIDE DEF s, name
<1>12. Matches(s, fc, data, name, many, multi)
  BY <1>7, <1>8, <1>9, <1>10, <1>11 DEF Matches
<1>13. Reading(ld, fc, data, z.text, many, multi)
  <2>1. ld.pComment = NULL /\ ~ld.runsOn /\ ld.data \in Seq(Lines) /\ Path(s, z, many, multi)
        /\ z.text = s.text \o ld.data
    BY <1>3, <1>4, <1>7, <1>8 DEF s
  <2>2. Matches(s, fc, data, ld.pSection.text, many, multi)
    BY <1>12 DEF name
  <2>. QED
    BY <2>1, <2>2, Boundary
<1>14. z.text = file'
  BY <1>1, <1>3
<1>. QED
  BY <1>1, <1>13, <1>14 DEF ReadingNow, ld, fc, data, many, multi

\* reading keeps the comments as a file can hold them
LEMMA ReadComments ==
  ASSUME IniInv, CommentsOK, LoadData
  PROVE  CommentsOK'
<1>0. IniTypeOK
  BY DEF IniInv
<1>. DEFINE force == FALSE
            copy == Copying
<1>1. copy \in BOOLEAN /\ force \in BOOLEAN
  BY DEF Copying
<1>2. /\ FileCommentOK(m_pFileComment) /\ TableComments(m_data)
      /\ load # NULL => CommentOK(load.pComment)
  BY CommentsParts
<1>3. CommentOK(NULL)
  BY NoComment
<1>4. m_pFileComment' = m_pFileComment
  BY DEF LoadData, SkipLine, ReadComment, SkipHeader, ReadHeader, ReadKey, ReadMultiLine, AddKey, LoadEnd,
         ParseVars
<1>5. CASE LoadEnd
  <2>1. load' = NULL /\ m_data' = m_data
    BY <1>5 DEF LoadEnd
  <2>. QED
    BY <1>2, <1>4, <2>1, CommentsNext
<1>. SUFFICES ASSUME Parsing PROVE CommentsOK'
  BY <1>5 DEF LoadData, SkipLine, ReadComment, SkipHeader, ReadHeader, ReadKey, ReadMultiLine
<1>6. /\ load \in Loads /\ load # NULL /\ load.block \in Nat \ {0} /\ load.data \in Seq(Lines)
      /\ load.pSection \in SectionNames /\ load.pComment \in Comments /\ CommentOK(load.pComment)
      /\ Line \in Lines /\ Tail(load.data) \in Seq(Lines)
      /\ \A n \in Nat : AfterLines(n) = [load EXCEPT !.data = From(load.data, n + 1)]
  BY <1>0, <1>2, ParseTypes
<1>7. /\ \A w \in STRING : InBlock(w) \in Names /\ InBlock(Title(w)) \in SectionNames
      /\ \A t \in Seq(Lines) : t # <<>> => InBlock(t) \in Values
  BY <1>6, PtrTypes DEF InBlock
<1>8. \A n \in Nat : /\ DOMAIN AfterLines(n) = {"data", "pSection", "pComment", "block", "runsOn"}
                     /\ AfterLines(n).pComment = load.pComment
  BY <1>6 DEF Loads
<1>9. CASE SkipLine
  <2>1. load' = [AfterLines(1) EXCEPT !.pSection = RunsOn(<<Line>>)] /\ m_data' = m_data
    BY <1>9, Zenon DEF SkipLine, TableVars
  <2>2. load'.pComment = load.pComment
    BY <1>8, <2>1
  <2>. QED
    BY <1>2, <1>4, <1>6, <2>1, <2>2, CommentsNext
<1>10. CASE SkipHeader
  <2>. DEFINE p == InBlock(Title(Line.body.open))
  <2>1. load' = [AfterLines(1) EXCEPT !.pSection = p, !.runsOn = TRUE] /\ m_data' = m_data
    BY <1>10 DEF SkipHeader, TableVars
  <2>. HIDE DEF p
  <2>3. load'.pComment = load.pComment
    BY <1>8, <2>1
  <2>. QED
    BY <1>2, <1>4, <1>6, <2>1, <2>3, CommentsNext
<1>11. CASE ReadComment
  <2>. DEFINE blanks == TRUE
              n == CommentLines(load.data, blanks)
              c == SubSeq(load.data, 1, n)
              p == InBlock(c)
  <2>1. /\ load' = [AfterLines(n) EXCEPT !.pComment = p, !.pSection = RunsOn(c), !.runsOn = FALSE]
        /\ m_data' = m_data /\ IsComment(Line)
    BY <1>11 DEF ReadComment, TableVars
  <2>. HIDE DEF blanks
  <2>2. LinesTaken(load.data, blanks, n, c)
    BY <1>6, CommentTaken
  <2>. HIDE DEF n, c
  <2>3. /\ n \in Nat \ {0} /\ Len(c) = n /\ c \in Seq(Lines)
        /\ \A i \in 1..n : c[i] = load.data[i] /\ (IsComment(c[i]) \/ c[i] = Blank)
        /\ IsComment(c[n])
    <3>1. load.data # <<>> /\ IsComment(load.data[1])
      BY <2>1 DEF Parsing, Line
    <3>. QED
      BY <2>2, <3>1 DEF LinesTaken
  <2>4. IsComment(c[1])
    BY <2>1, <2>3 DEF Line
  <2>5. c # <<>> /\ Whole(c)
    BY <2>3, <2>4 DEF Whole
  <2>6. p.text = c
    BY DEF InBlock, Ptr
  <2>7. CommentOK(p)
    BY <2>5, <2>6 DEF CommentOK
  <2>. HIDE DEF p
  <2>9. load'.pComment = p
    BY <1>8, <2>1, <2>3
  <2>. QED
    BY <1>2, <1>4, <2>1, <2>7, <2>9, CommentsNext
<1>12. CASE ReadHeader
  <2>. DEFINE p == InBlock(Title(Line.body.header))
  <2>1. /\ AddSection(p, load.pComment, copy)
        /\ load' = [AfterLines(1) EXCEPT !.pSection = p, !.runsOn = FALSE, !.pComment = NULL]
    BY <1>12 DEF ReadHeader
  <2>2. p \in SectionNames
    BY <1>6, <1>7, <1>12, LineParts DEF ReadHeader
  <2>. HIDE DEF copy, p
  <2>3. TableComments(m_data')
    BY <1>1, <1>2, <1>6, <2>1, <2>2, AddSectionComments
  <2>4. load'.pComment = NULL
    BY <1>8, <2>1
  <2>. QED
    BY <1>2, <1>3, <1>4, <2>3, <2>4, CommentsNext
<1>13. CASE ReadKey \/ ReadMultiLine
  <2>. DEFINE p == SectionOfKey
              k == InBlock(KeyOf(Line))
  <2>1. PICK n \in Nat, value \in Seq(Lines) \ {<<>>} : AddKey(n, value)
    BY <1>0, <1>13, KeyAdded
  <2>. DEFINE v == InBlock(value)
  <2>2. p \in SectionNames /\ k \in Names /\ v \in Values
    BY <1>0, <1>7, <1>13, KeyAdded
  <2>3. /\ load' = [AfterLines(n) EXCEPT !.pSection = p, !.runsOn = FALSE, !.pComment = NULL]
        /\ AddEntry(p, k, v, load.pComment, force, copy)
    BY <2>1 DEF AddKey
  <2>. HIDE DEF p, k, v, force, copy
  <2>4. TableComments(m_data')
    BY <1>1, <1>2, <1>6, <2>2, <2>3, AddEntryComments
  <2>5. load'.pComment = NULL
    BY <1>8, <2>3
  <2>. QED
    BY <1>2, <1>3, <1>4, <2>4, <2>5, CommentsNext
<1>. QED
  BY <1>5, <1>9, <1>10, <1>11, <1>12, <1>13 DEF LoadData

\* a section that goes takes its comments along
LEMMA WithoutComments ==
  ASSUME TableComments(m_data), NEW s
  PROVE  TableComments(Without(s))
BY DEF TableComments, Without

\* so does every other call: a comment that is set is in full comment form
LEMMA CallComments ==
  ASSUME IniInv, CommentsOK, IniNext, ~LoadData
  PROVE  CommentsOK'
<1>0. IniTypeOK /\ TableOK(m_data, m_nOrder)
  BY TypeParts DEF IniInv
<1>. DEFINE copy == TRUE
<1>1. copy \in BOOLEAN
  OBVIOUS
<1>. HIDE DEF copy
<1>2. /\ FileCommentOK(m_pFileComment) /\ TableComments(m_data)
      /\ load # NULL => CommentOK(load.pComment)
  BY CommentsParts
<1>3. CommentOK(NULL) /\ FileCommentOK(NULL)
  BY NoComment
<1>4. ASSUME UNCHANGED <<m_pFileComment, load>>, TableComments(m_data') PROVE CommentsOK'
  BY <1>2, <1>4, CommentsNext
<1>5. ASSUME NEW c \in GivenComments PROVE CommentOK(c) /\ c \in Comments
  <2>1. PICK setting \in Settings : c = IF setting[2] = NULL THEN NULL ELSE Ptr(setting[2], 0)
    BY DEF GivenComments
  <2>2. CASE setting[2] # NULL
    <3>. DEFINE w == setting[2]
    <3>1. w \in Seq(Lines) /\ w # <<>> /\ \A i \in DOMAIN w : IsComment(w[i])
      BY <2>2, IniAssumption, CommentsAssumption
    <3>2. Ptr(w, 0).text = w
      BY DEF Ptr
    <3>. HIDE DEF w
    <3>3. Whole(w)
      BY <3>1 DEF Whole
    <3>4. CommentOK(Ptr(w, 0))
      BY <3>1, <3>2, <3>3 DEF CommentOK
    <3>. QED
      BY <1>0, <2>1, <2>2, <3>4, GivenTypes DEF w
  <2>. QED
    BY <1>0, <1>3, <2>1, <2>2, GivenTypes
<1>6. ASSUME NEW p \in GivenSections, NEW c \in GivenComments, SetSection(p, c)
      PROVE  CommentsOK'
  <2>1. AddSection(p, c, copy) /\ UNCHANGED <<m_pFileComment, load>>
    BY <1>6 DEF SetSection, CallVars, copy
  <2>2. p \in SectionNames /\ c \in Comments /\ CommentOK(c)
    BY <1>0, <1>5, GivenTypes
  <2>3. TableComments(m_data')
    BY <1>1, <1>2, <2>1, <2>2, AddSectionComments
  <2>. QED
    BY <1>4, <2>1, <2>3
<1>7. ASSUME NEW p \in GivenSections, NEW c \in GivenComments, NEW q \in GivenKeys,
             NEW v \in GivenValues, NEW force \in BOOLEAN, SetValue(p, q, v, c, force)
      PROVE  CommentsOK'
  <2>1. p \in SectionNames /\ q \in Names /\ v \in Values /\ c \in Comments /\ CommentOK(c)
    BY <1>0, <1>5, GivenTypes
  <2>2. AddEntry(p, q, v, c, force, copy) /\ UNCHANGED <<m_pFileComment, load>>
    BY <1>7 DEF SetValue, CallVars, copy
  <2>3. TableComments(m_data')
    BY <1>1, <1>2, <2>1, <2>2, AddEntryComments
  <2>. QED
    BY <1>4, <2>2, <2>3
<1>8. ASSUME NEW s, NEW k, NEW v, NEW removeEmpty, DeleteValue(s, k, v, removeEmpty)
      PROVE  CommentsOK'
  <2>. DEFINE gone == {e \in SameKey(s, k) : v = NULL \/ e.value.text = v}
              keys == m_data[s].keys \ gone
  <2>1. /\ gone # {} /\ UNCHANGED <<m_pFileComment, load>>
        /\ m_data' = Without(s) \/ m_data' = [m_data EXCEPT ![s].keys = keys]
    BY <1>8 DEF DeleteValue, CallVars
  <2>2. s \in DOMAIN m_data
    BY <1>0, <2>1, SameKeyFirst
  <2>. HIDE DEF gone
  <2>3. [m_data EXCEPT ![s].keys = keys] = WithSection(s, Left(s, keys))
    BY <1>0, <2>2, ExceptKeys DEF Left
  <2>4. keys \in SUBSET m_data[s].keys
    OBVIOUS
  <2>. HIDE DEF keys
  <2>5. Left(s, keys).pComment = m_data[s].pComment /\ Left(s, keys).keys = keys
    BY <1>0, <2>2, <2>4, LeftTable
  <2>6. SectionComments(Left(s, keys))
    BY <1>2, <2>2, <2>4, <2>5 DEF TableComments, SectionComments
  <2>7. TableComments(Without(s)) /\ TableComments(WithSection(s, Left(s, keys)))
    BY <1>2, <2>6, WithoutComments, WithSectionComments
  <2>8. TableComments(m_data')
    BY <2>1, <2>3, <2>7
  <2>. QED
    BY <1>4, <2>1, <2>8
<1>9. ASSUME NEW s, DeleteSection(s) PROVE CommentsOK'
  <2>1. m_data' = Without(s) /\ UNCHANGED <<m_pFileComment, load>>
    BY <1>9 DEF DeleteSection, CallVars
  <2>. QED
    BY <1>2, <1>4, <2>1, WithoutComments
<1>10. CASE Reset
  <2>1. m_data' = <<>> /\ m_pFileComment' = NULL /\ load' = NULL
    BY <1>10 DEF Reset, Idle
  <2>. DEFINE data == <<>>
  <2>2. DOMAIN data = {}
    OBVIOUS
  <2>. HIDE DEF data
  <2>3. TableComments(data)
    BY <2>2 DEF TableComments
  <2>. QED
    BY <1>3, <2>1, <2>3, CommentsNext DEF data
<1>11. ASSUME NEW b, SetMultiKey(b) PROVE CommentsOK'
  <2>1. UNCHANGED <<m_data, m_pFileComment, load>>
    BY <1>11 DEF SetMultiKey
  <2>. QED
    BY <1>2, <1>4, <2>1
<1>12. CASE SaveFile
  <2>1. UNCHANGED <<m_data, m_pFileComment, load>>
    BY <1>12 DEF SaveFile
  <2>. QED
    BY <1>2, <1>4, <2>1
<1>13. CASE LoadFile
  <2>1. m_data' = m_data
    BY <1>13 DEF LoadFile
  <2>2. load'.pComment = NULL
    BY <1>13 DEF LoadFile
  <2>3. CASE m_pFileComment = NULL
    <3>1. FileCommentOK(m_pFileComment')
      BY <1>13, <2>3, FileCommentTaken DEF Taken
    <3>. QED
      BY <1>2, <1>3, <2>1, <2>2, <3>1, CommentsNext
  <2>4. CASE m_pFileComment # NULL
    <3>1. m_pFileComment' = m_pFileComment
      BY <1>13, <2>4 DEF LoadFile
    <3>. QED
      BY <1>2, <1>3, <2>1, <2>2, <3>1, CommentsNext
  <2>. QED
    BY <2>3, <2>4
<1>. QED
  BY <1>6, <1>7, <1>8, <1>9, <1>10, <1>11, <1>12, <1>13 DEF IniNext, Call

-----------------------------------------------------------------------------
(* What is saved and loaded into an empty object is the same again         *)

\* While what was saved is in the file, it is a text that Save wrote; while it
\* is loaded, the table and its file comment are the lines that have been read;
\* and when it has been loaded, saving writes the same file.
RoundTripInv ==
  /\ CommentsOK
  /\ origin = "saved" => Written(file, m_bAllowMultiKey, m_bAllowMultiLine)
  /\ origin = "reloaded" => IF load = NULL THEN SavedText = file ELSE ReadingNow

SavesTable == SavedText = TableText(m_pFileComment, m_data, m_bAllowMultiKey, m_bAllowMultiLine)
\* Save writes the table after a step as well
LEMMA SavedTextNext == IniTypeOK' => SavesTable'
<1>1. IniTypeOK => SavesTable
  BY SavedTextIs DEF SavesTable
<1>. QED
  BY <1>1, PTL

\* a line that is read leaves a load that goes on
LEMMA LoadGoesOn ==
  ASSUME IniTypeOK, LoadData, ~LoadEnd
  PROVE  load' # NULL
<1>0. Parsing
  BY DEF LoadData, SkipLine, ReadComment, SkipHeader, ReadHeader, ReadKey, ReadMultiLine
<1>1. /\ load \in Loads /\ load.block \in Nat \ {0} /\ load.data \in Seq(Lines) /\ Line \in Lines
      /\ load.pSection \in SectionNames
      /\ \A n \in Nat : AfterLines(n) = [load EXCEPT !.data = From(load.data, n + 1)]
                        /\ From(load.data, n + 1) \in Seq(Lines)
  BY <1>0, ParseTypes
<1>2. \A n \in Nat : AfterLines(n) \in Loads
  BY <1>1 DEF Loads
<1>4. NULL \in Comments /\ NULL \notin Loads
  BY IniAssumption DEF Comments
<1>5. /\ \A w \in STRING : InBlock(Title(w)) \in SectionNames
      /\ \A text \in Seq(Lines) : InBlock(text) \in Comments
  BY <1>1, PtrTypes DEF InBlock
<1>. DEFINE yes == TRUE
            no == FALSE
<1>6. yes \in BOOLEAN /\ no \in BOOLEAN
  OBVIOUS
<1>. HIDE DEF yes, no
<1>7. CASE SkipLine
  <2>. DEFINE p == RunsOn(<<Line>>)
  <2>1. p \in SectionNames
    <3>1. <<Line>> \in Seq(Lines)
      BY <1>1
    <3>. QED
      BY <1>0, <3>1, RunsOnType
  <2>2. load' = [AfterLines(1) EXCEPT !.pSection = p]
    BY <1>7 DEF SkipLine
  <2>. HIDE DEF p
  <2>. DEFINE l == AfterLines(1)
  <2>7. l \in Loads
    BY <1>2
  <2>8. load' = [l EXCEPT !.pSection = p]
    BY <2>2
  <2>. HIDE DEF l
  <2>9. load' \in Loads
    BY <1>4, <1>6, <2>1, <2>2, <2>7, <2>8 DEF Loads
  <2>. QED
    BY <1>4, <2>9
<1>8. CASE SkipHeader
  <2>. DEFINE p == InBlock(Title(Line.body.open))
  <2>1. p \in SectionNames
    BY <1>1, <1>5, <1>8, LineParts DEF SkipHeader
  <2>2. load' = [AfterLines(1) EXCEPT !.pSection = p, !.runsOn = yes]
    BY <1>8 DEF SkipHeader, yes
  <2>. HIDE DEF p
  <2>. DEFINE l == AfterLines(1)
  <2>7. l \in Loads
    BY <1>2
  <2>8. load' = [l EXCEPT !.pSection = p, !.runsOn = yes]
    BY <2>2
  <2>. HIDE DEF l
  <2>9. load' \in Loads
    BY <1>4, <1>6, <2>1, <2>2, <2>7, <2>8 DEF Loads
  <2>. QED
    BY <1>4, <2>9
<1>9. CASE ReadComment
  <2>. DEFINE n == CommentLines(load.data, TRUE)
              text == SubSeq(load.data, 1, n)
  <2>1. n \in Nat /\ text \in Seq(Lines)
    <3>. DEFINE blanks == TRUE
    <3>1. n = CommentLines(load.data, blanks)
      OBVIOUS
    <3>. HIDE DEF blanks, n
    <3>2. n \in Nat /\ n <= Len(load.data)
      BY <1>1, <3>1, CommentLinesBound
    <3>. QED
      BY <1>1, <3>2, PartType
  <2>. DEFINE p == RunsOn(text)
              c == InBlock(text)
  <2>2. load' = [AfterLines(n) EXCEPT !.pComment = c, !.pSection = p, !.runsOn = no]
    BY <1>9 DEF ReadComment, no
  <2>. HIDE DEF n, text
  <2>3. p \in SectionNames /\ c \in Comments
    BY <1>0, <1>5, <2>1, RunsOnType
  <2>. HIDE DEF p, c
  <2>. DEFINE l == AfterLines(n)
  <2>7. l \in Loads
    BY <1>2, <2>1
  <2>8. load' = [l EXCEPT !.pComment = c, !.pSection = p, !.runsOn = no]
    BY <2>2
  <2>. HIDE DEF l
  <2>9. load' \in Loads
    BY <1>4, <1>6, <2>1, <2>2, <2>3, <2>7, <2>8 DEF Loads
  <2>. QED
    BY <1>4, <2>9
<1>10. CASE ReadHeader
  <2>. DEFINE p == InBlock(Title(Line.body.header))
  <2>1. p \in SectionNames
    BY <1>1, <1>5, <1>10, LineParts DEF ReadHeader
  <2>2. load' = [AfterLines(1) EXCEPT !.pSection = p, !.runsOn = no, !.pComment = NULL]
    BY <1>10 DEF ReadHeader, no
  <2>. HIDE DEF p
  <2>. DEFINE l == AfterLines(1)
  <2>7. l \in Loads
    BY <1>2
  <2>8. load' = [l EXCEPT !.pSection = p, !.runsOn = no, !.pComment = NULL]
    BY <2>2
  <2>. HIDE DEF l
  <2>9. load' \in Loads
    BY <1>4, <1>6, <2>1, <2>2, <2>7, <2>8 DEF Loads
  <2>. QED
    BY <1>4, <2>9
<1>11. CASE ReadKey \/ ReadMultiLine
  <2>. DEFINE p == SectionOfKey
  <2>1. PICK n \in Nat, value \in Seq(Lines) \ {<<>>} : AddKey(n, value)
    BY <1>0, <1>11, KeyAdded
  <2>2. p \in SectionNames
    BY <1>0, <1>11, KeyAdded
  <2>3. load' = [AfterLines(n) EXCEPT !.pSection = p, !.runsOn = no, !.pComment = NULL]
    BY <2>1 DEF AddKey, no
  <2>. HIDE DEF p
  <2>. DEFINE l == AfterLines(n)
  <2>7. l \in Loads
    BY <1>2, <2>1
  <2>8. load' = [l EXCEPT !.pSection = p, !.runsOn = no, !.pComment = NULL]
    BY <2>3
  <2>. HIDE DEF l
  <2>9. load' \in Loads
    BY <1>4, <1>6, <2>2, <2>3, <2>7, <2>8 DEF Loads
  <2>. QED
    BY <1>4, <2>9
<1>. QED
  BY <1>7, <1>8, <1>9, <1>10, <1>11 DEF LoadData

\* so every step keeps them
LEMMA CommentsKept ==
  ASSUME IniInv, CommentsOK, [IniNext]_iniVars
  PROVE  CommentsOK'
<1>1. CASE UNCHANGED iniVars
  BY <1>1 DEF iniVars, CommentsOK
<1>2. CASE LoadData
  BY <1>2, ReadComments
<1>3. CASE IniNext /\ ~LoadData
  BY <1>3, CallComments
<1>. QED
  BY <1>1, <1>2, <1>3

\* what Save wrote stays in the file until something else is written
LEMMA WrittenKept ==
  ASSUME IniInv, RoundTripInv, [IniNext]_iniVars, origin' = "saved"
  PROVE  Written(file', m_bAllowMultiKey', m_bAllowMultiLine')
<1>1. ASSUME UNCHANGED <<file, m_bAllowMultiKey, m_bAllowMultiLine>>, origin = "saved"
      PROVE  Written(file', m_bAllowMultiKey', m_bAllowMultiLine')
  <2>1. Written(file, m_bAllowMultiKey, m_bAllowMultiLine)
    BY <1>1 DEF RoundTripInv
  <2>. QED
    BY <1>1, <2>1
<1>2. CASE UNCHANGED iniVars
  BY <1>1, <1>2 DEF iniVars, options
<1>3. CASE LoadData
  <2>1. UNCHANGED <<file, m_bAllowMultiKey, m_bAllowMultiLine, origin>>
    BY <1>3 DEF LoadData, SkipLine, ReadComment, SkipHeader, ReadHeader, ReadKey, ReadMultiLine, AddKey, LoadEnd,
                ParseVars, options
  <2>. QED
    BY <1>1, <2>1
<1>4. CASE SaveFile
  <2>1. Saveable /\ file' = SavedText /\ UNCHANGED <<m_bAllowMultiKey, m_bAllowMultiLine>>
    BY <1>4 DEF SaveFile, options
  <2>2. Written(SavedText, m_bAllowMultiKey, m_bAllowMultiLine)
    BY <2>1, SavedWritten DEF IniInv, RoundTripInv
  <2>. QED
    BY <2>1, <2>2
<1>5. CASE LoadFile
  <2>1. origin' = IF Reloads THEN "reloaded" ELSE "other"
    BY <1>5 DEF LoadFile
  <2>. QED
    BY <2>1
<1>6. ASSUME NEW b, SetMultiKey(b) PROVE FALSE
  BY <1>6 DEF SetMultiKey
<1>7. CASE Reset
  <2>1. UNCHANGED <<file, m_bAllowMultiKey, m_bAllowMultiLine>> /\ Changed
    BY <1>7 DEF Reset, options
  <2>. QED
    BY <1>1, <2>1 DEF Changed
<1>8. ASSUME UNCHANGED CallVars, Changed
      PROVE  Written(file', m_bAllowMultiKey', m_bAllowMultiLine')
  <2>1. UNCHANGED <<file, m_bAllowMultiKey, m_bAllowMultiLine>> /\ origin = "saved"
    BY <1>8 DEF CallVars, options, Changed
  <2>. QED
    BY <1>1, <2>1
<1>9. ASSUME NEW s, NEW c, SetSection(s, c) PROVE UNCHANGED CallVars /\ Changed
  BY <1>9 DEF SetSection
<1>10. ASSUME NEW s, NEW k, NEW v, NEW c, NEW force, SetValue(s, k, v, c, force)
       PROVE  UNCHANGED CallVars /\ Changed
  BY <1>10 DEF SetValue
<1>11. ASSUME NEW s, NEW k, NEW v, NEW removeEmpty, DeleteValue(s, k, v, removeEmpty)
       PROVE  UNCHANGED CallVars /\ Changed
  BY <1>11 DEF DeleteValue, CallVars
<1>12. ASSUME NEW s, DeleteSection(s) PROVE UNCHANGED CallVars /\ Changed
  BY <1>12 DEF DeleteSection, CallVars
<1>. QED
  BY <1>2, <1>3, <1>4, <1>5, <1>6, <1>7, <1>8, <1>9, <1>10, <1>11, <1>12 DEF IniNext, Call

\* what is loaded is the text that was written, from its first line to its last
LEMMA ReadingKept ==
  ASSUME IniInv, IniTypeOK', RoundTripInv, [IniNext]_iniVars, origin' = "reloaded"
  PROVE  IF load' = NULL THEN SavedText' = file' ELSE ReadingNow'
<1>0. IniTypeOK /\ IniTypeOK'
  BY DEF IniInv
<1>1. /\ SavedText = TableText(m_pFileComment, m_data, m_bAllowMultiKey, m_bAllowMultiLine)
      /\ SavedText' = TableText(m_pFileComment', m_data', m_bAllowMultiKey', m_bAllowMultiLine')
  BY <1>0, SavedTextIs, SavedTextNext DEF SavesTable
<1>2. origin = "reloaded" => IF load = NULL THEN SavedText = file ELSE ReadingNow
  BY DEF RoundTripInv
<1>3. ASSUME UNCHANGED <<m_pFileComment, m_data, m_bAllowMultiKey, m_bAllowMultiLine>>
      PROVE  SavedText' = SavedText
  BY <1>1, <1>3
<1>4. CASE UNCHANGED iniVars
  <2>1. UNCHANGED <<file, m_pFileComment, m_data, m_bAllowMultiKey, m_bAllowMultiLine, load, origin>>
    BY <1>4 DEF iniVars, options
  <2>2. ReadingNow => ReadingNow'
    BY <2>1 DEF ReadingNow
  <2>. QED
    BY <1>2, <1>3, <2>1, <2>2
<1>5. CASE LoadData
  <2>1. /\ UNCHANGED <<file, m_pFileComment, m_bAllowMultiKey, m_bAllowMultiLine, origin>>
        /\ load # NULL
    BY <1>5 DEF LoadData, SkipLine, ReadComment, SkipHeader, ReadHeader, ReadKey, ReadMultiLine, AddKey, LoadEnd,
                Parsing, ParseVars, options
  <2>2. ReadingNow
    BY <1>2, <2>1
  <2>3. CASE LoadEnd
    <3>1. load.data = <<>> /\ load' = NULL /\ m_data' = m_data
      BY <2>3 DEF LoadEnd
    <3>2. SavedText = file
      BY <1>0, <2>1, <2>2, <3>1, ReadToEnd
    <3>. QED
      BY <1>3, <2>1, <3>1, <3>2
  <2>4. CASE ~LoadEnd
    <3>1. Parsing
      BY <1>5, <2>4 DEF LoadData, SkipLine, ReadComment, SkipHeader, ReadHeader, ReadKey, ReadMultiLine
    <3>2. ReadingNow'
      BY <1>0, <1>5, <2>2, <2>4, <3>1, ReadOn, HeaderRead, KeyRead, ValueRead DEF LoadData
    <3>3. load' # NULL
      BY <1>0, <1>5, <2>4, LoadGoesOn
    <3>. QED
      BY <3>2, <3>3
  <2>. QED
    BY <2>3, <2>4
<1>6. CASE LoadFile
  <2>1. Reloads /\ m_pFileComment = NULL
    BY <1>6 DEF LoadFile, Reloads
  <2>2. Written(file, m_bAllowMultiKey, m_bAllowMultiLine)
    BY <2>1 DEF RoundTripInv, Reloads
  <2>3. ReadingNow'
    BY <1>6, <2>1, <2>2, FileRead
  <2>4. load' # NULL
    BY <1>6, <2>1, FileCommentTaken DEF Taken
  <2>. QED
    BY <2>3, <2>4
<1>7. CASE SaveFile
  BY <1>7 DEF SaveFile
<1>8. ASSUME NEW b, SetMultiKey(b) PROVE FALSE
  BY <1>8 DEF SetMultiKey
<1>9. ASSUME Changed PROVE FALSE
  BY <1>9 DEF Changed
<1>10. CASE Reset
  BY <1>9, <1>10 DEF Reset
<1>11. ASSUME NEW s, NEW c, SetSection(s, c) PROVE FALSE
  BY <1>9, <1>11 DEF SetSection
<1>12. ASSUME NEW s, NEW k, NEW v, NEW c, NEW force, SetValue(s, k, v, c, force) PROVE FALSE
  BY <1>9, <1>12 DEF SetValue
<1>13. ASSUME NEW s, NEW k, NEW v, NEW removeEmpty, DeleteValue(s, k, v, removeEmpty) PROVE FALSE
  BY <1>9, <1>13 DEF DeleteValue
<1>14. ASSUME NEW s, DeleteSection(s) PROVE FALSE
  BY <1>9, <1>14 DEF DeleteSection
<1>. QED
  BY <1>4, <1>5, <1>6, <1>7, <1>8, <1>10, <1>11, <1>12, <1>13, <1>14 DEF IniNext, Call

\* What is saved and loaded into an empty object is the same again: saving it
\* writes the same file, for all names, values, comments and lines, whatever the
\* table was made by, if a file can hold it (Saveable).  This is what SaveFile and
\* LoadFile, and every step of FindEntry between them, promise each other.
THEOREM IniRoundTrip == IniSpec => []RoundTrip
<1>1. IniInit => RoundTripInv
  <2>. SUFFICES ASSUME IniInit PROVE RoundTripInv
    OBVIOUS
  <2>1. m_data = <<>> /\ m_pFileComment = NULL /\ load = NULL /\ origin = "other"
    BY DEF IniInit
  <2>. DEFINE data == <<>>
  <2>2. DOMAIN data = {}
    OBVIOUS
  <2>. HIDE DEF data
  <2>3. CommentsOK
    BY <2>1, <2>2 DEF CommentsOK, data
  <2>. QED
    BY <2>1, <2>3 DEF RoundTripInv
<1>2. IniInv /\ IniInv' /\ RoundTripInv /\ [IniNext]_iniVars => RoundTripInv'
  <2>. SUFFICES ASSUME IniInv, IniInv', RoundTripInv, [IniNext]_iniVars PROVE RoundTripInv'
    OBVIOUS
  <2>1. IniTypeOK' /\ CommentsOK
    BY DEF IniInv, RoundTripInv
  <2>2. CommentsOK'
    BY <2>1, CommentsKept
  <2>3. origin' = "saved" => Written(file', m_bAllowMultiKey', m_bAllowMultiLine')
    BY WrittenKept
  <2>4. origin' = "reloaded" => IF load' = NULL THEN SavedText' = file' ELSE ReadingNow'
    BY <2>1, ReadingKept
  <2>. QED
    BY <2>2, <2>3, <2>4 DEF RoundTripInv
<1>3. RoundTripInv => RoundTrip
  BY DEF RoundTripInv, RoundTrip, Idle
<1>. QED
  BY <1>1, <1>2, <1>3, IniInvariant, PTL DEF IniSpec
================================================================================
