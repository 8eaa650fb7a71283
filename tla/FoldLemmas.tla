----------------------------- MODULE FoldLemmas -----------------------------
(***************************************************************************)
(* Induction stated with sets, and what it shows about the recursive       *)
(* functions inside FoldLeft and FoldFunction of the community modules.    *)
(*                                                                         *)
(* The library's induction theorems take an operator as a parameter, which *)
(* the provers cannot instantiate.  A set of the numbers or sequences      *)
(* that have the property serves as well.                                  *)
(***************************************************************************)
EXTENDS Integers, Sequences, SequencesExt, FiniteSetTheorems, SequenceTheorems,
        WellFoundedInduction, TLAPS

(* A set of naturals has a least element. *)
LEMMA LeastElement ==
    ASSUME NEW I \in SUBSET Nat, I # {}
    PROVE  Min(I) \in I /\ \A i \in I : Min(I) <= i
<1>. DEFINE R == {ss \in Nat \X Nat : ss[1] < ss[2]}
<1>1. IsWellFoundedOn(R, Nat)
  BY NatLessThanWellFounded DEF OpToRel
<1>2. PICK m \in I : \A i \in I : <<i, m>> \notin R
  <2>. HIDE DEF R
  <2>. QED BY <1>1, WFMin
<1>3. \A i, j \in Nat : i < j => <<i, j>> \in R
  BY Zenon
<1>4. \A i \in I : ~(i < m)
  <2>. HIDE DEF R
  <2>. QED BY <1>2, <1>3, Zenon
<1>5. \A i \in I : m <= i
  BY <1>4
<1>. QED
  BY <1>5 DEF Min

(* Induction on numbers. *)
LEMMA NumberInduction ==
    ASSUME NEW P, 0 \in P, \A n \in Nat : n \in P => n + 1 \in P
    PROVE  Nat \subseteq P
<1>. DEFINE I == Nat \ P
<1>1. SUFFICES ASSUME I # {} PROVE FALSE
  OBVIOUS
<1>2. PICK m \in I : \A i \in I : m <= i
  BY <1>1, LeastElement
<1>3. m - 1 \in Nat /\ m - 1 \in P
  BY <1>2
<1>. QED
  BY <1>2, <1>3

(* Induction on the indices of a sequence. *)
LEMMA IndexInduction ==
    ASSUME NEW N \in Nat, NEW P, 0 \in P,
           \A k \in 1..N : k - 1 \in P => k \in P
    PROVE  0..N \subseteq P
<1>. DEFINE Q == {k \in Nat : k <= N => k \in P}
<1>1. 0 \in Q
  OBVIOUS
<1>2. \A k \in Nat : k \in Q => k + 1 \in Q
  OBVIOUS
<1>3. Nat \subseteq Q
  <2>. HIDE DEF Q
  <2>. QED BY <1>1, <1>2, NumberInduction
<1>. QED
  BY <1>3

(* The front and the last entry of a sequence. *)
LEMMA FrontAndLast ==
    ASSUME NEW S, NEW s \in Seq(S), s # <<>>
    PROVE  /\ Front(s) \in Seq(S) /\ Len(Front(s)) = Len(s) - 1
           /\ Last(s) \in S
           /\ s = Append(Front(s), Last(s))
<1>1. PICK n \in Nat : n = Len(s) /\ n > 0
  BY EmptySeq, LenProperties
<1>2. Front(s) \in Seq(S) /\ Len(Front(s)) = n - 1
      /\ \A i \in 1..n - 1 : Front(s)[i] = s[i]
  BY <1>1, SubSeqProperties DEF Front
<1>3. Last(s) \in S
  BY <1>1, ElementOfSeq DEF Last
<1>4. /\ Append(Front(s), Last(s)) \in Seq(S)
      /\ Len(Append(Front(s), Last(s))) = n
      /\ \A i \in 1..n - 1 : Append(Front(s), Last(s))[i] = s[i]
      /\ Append(Front(s), Last(s))[n] = s[n]
  BY <1>1, <1>2, <1>3, AppendProperties DEF Last
<1>5. \A i \in 1..n : Append(Front(s), Last(s))[i] = s[i]
  BY <1>4
<1>6. s = Append(Front(s), Last(s))
  BY <1>1, <1>4, <1>5, SeqEqual
<1>. QED
  BY <1>1, <1>2, <1>3, <1>6

(* Induction on sequences, one more entry at the end. *)
LEMMA SequenceInduction ==
    ASSUME NEW S, NEW P, <<>> \in P,
           \A s \in Seq(S), e \in S : s \in P => Append(s, e) \in P
    PROVE  Seq(S) \subseteq P
<1>. DEFINE Q == {n \in Nat : \A s \in Seq(S) : Len(s) = n => s \in P}
<1>1. 0 \in Q
  BY EmptySeq
<1>2. ASSUME NEW n \in Nat, n \in Q PROVE n + 1 \in Q
  <2>1. ASSUME NEW s \in Seq(S), Len(s) = n + 1 PROVE s \in P
    <3>1. s # <<>>
      BY <2>1, EmptySeq
    <3>2. Front(s) \in Seq(S) /\ Len(Front(s)) = n /\ Last(s) \in S
          /\ s = Append(Front(s), Last(s))
      BY <2>1, <3>1, FrontAndLast
    <3>. QED
      BY <1>2, <3>2
  <2>. QED
    BY <2>1
<1>3. Nat \subseteq Q
  <2>. HIDE DEF Q
  <2>. QED BY <1>1, <1>2, NumberInduction
<1>. QED
  BY <1>3, LenProperties

-----------------------------------------------------------------------------
(* Recursion over the subsets of a set of numbers, the largest first, as in  *)
(* FoldLeft: such a function exists.                                         *)

BySize(W, n, b, g) ==
    \A s \in SUBSET (1..n) :
        W[s] = IF s = {} THEN b ELSE g[Max(s)][W[s \ {Max(s)}]]

LEMMA LargestFirst ==
    ASSUME NEW n \in Nat, NEW s \in SUBSET (1..n + 1), n + 1 \in s
    PROVE  Max(s) = n + 1
<1>1. \A y \in s : n + 1 >= y
  OBVIOUS
<1>2. \A x \in s : (\A y \in s : x >= y) => x = n + 1
  OBVIOUS
<1>. QED
  BY <1>1, <1>2, Zenon DEF Max

LEMMA LargestBelow ==
    ASSUME NEW n \in Nat, NEW s \in SUBSET (1..n), s # {}
    PROVE  Max(s) \in s
<1>. DEFINE I == {n - i : i \in s}
<1>1. I \in SUBSET Nat /\ I # {}
  <2>1. \A i \in s : n - i \in Nat
    OBVIOUS
  <2>. QED
    BY <2>1
<1>2. PICK m \in I : \A i \in I : m <= i
  <2>. HIDE DEF I
  <2>. QED BY <1>1, LeastElement
<1>3. PICK x \in s : m = n - x
  BY <1>2
<1>4. ASSUME NEW y \in s PROVE x >= y
  <2>1. n - y \in I
    BY Zenon
  <2>2. m <= n - y
    BY <2>1, <1>2, Zenon
  <2>3. x \in Nat /\ y \in Nat
    <3>. HIDE DEF I
    <3>. QED OBVIOUS
  <2>. QED
    BY <2>2, <2>3, <1>3
<1>. QED
  BY <1>4, Zenon DEF Max

LEMMA RecursionBySize ==
    ASSUME NEW n \in Nat, NEW T, NEW b \in T, NEW g \in [1..n -> [T -> T]]
    PROVE  \E W \in [SUBSET (1..n) -> T] : BySize(W, n, b, g)
<1>. DEFINE Eq(W, m) ==
              \A s \in SUBSET (1..m) :
                  W[s] = IF s = {} THEN b ELSE g[Max(s)][W[s \ {Max(s)}]]
            Q == {m \in 0..n : \E W \in [SUBSET (1..m) -> T] : Eq(W, m)}
<1>1. 0 \in Q
  <2>. DEFINE W == [s \in SUBSET (1..0) |-> b]
  <2>1. W \in [SUBSET (1..0) -> T]
    OBVIOUS
  <2>2. Eq(W, 0)
    OBVIOUS
  <2>3. \E U \in [SUBSET (1..0) -> T] : Eq(U, 0)
    <3>. HIDE DEF W, Eq
    <3>. QED BY <2>1, <2>2, Zenon
  <2>4. 0 \in 0..n
    OBVIOUS
  <2>. QED
    <3>. HIDE DEF W, Eq
    <3>. QED BY <2>3, <2>4, Zenon
<1>2. ASSUME NEW k \in 1..n, k - 1 \in Q PROVE k \in Q
  <2>1. PICK m \in 0..n - 1 : m = k - 1
    OBVIOUS
  <2>2. PICK V \in [SUBSET (1..m) -> T] : Eq(V, m)
    BY <1>2, <2>1
  <2>. DEFINE W == [s \in SUBSET (1..m + 1) |->
                       IF m + 1 \in s THEN g[m + 1][V[s \ {m + 1}]] ELSE V[s]]
  <2>3. ASSUME NEW s \in SUBSET (1..m + 1)
        PROVE  /\ m + 1 \in s => s \ {m + 1} \in SUBSET (1..m)
               /\ m + 1 \notin s => s \in SUBSET (1..m)
    OBVIOUS
  <2>4. W \in [SUBSET (1..m + 1) -> T]
    <3>1. g[m + 1] \in [T -> T]
      OBVIOUS
    <3>2. ASSUME NEW s \in SUBSET (1..m + 1)
          PROVE  (IF m + 1 \in s THEN g[m + 1][V[s \ {m + 1}]] ELSE V[s]) \in T
      BY <2>3, <3>1
    <3>. QED
      BY <3>2
  <2>5. ASSUME NEW s \in SUBSET (1..m + 1)
        PROVE  W[s] = IF s = {} THEN b ELSE g[Max(s)][W[s \ {Max(s)}]]
    <3>1. CASE m + 1 \in s
      <4>1. Max(s) = m + 1
        BY <3>1, LargestFirst
      <4>2. W[s \ {m + 1}] = V[s \ {m + 1}]
        BY <2>3, <3>1
      <4>. QED
        BY <3>1, <4>1, <4>2
    <3>2. CASE m + 1 \notin s
      <4>1. s \in SUBSET (1..m) /\ W[s] = V[s]
        BY <3>2, <2>3
      <4>2. CASE s = {}
        BY <4>1, <4>2, <2>2
      <4>3. CASE s # {}
        <5>1. Max(s) \in s
          <6>1. m \in Nat
            OBVIOUS
          <6>. QED
            BY <6>1, <4>1, <4>3, LargestBelow, Zenon
        <5>2. s \ {Max(s)} \in SUBSET (1..m) /\ m + 1 \notin s \ {Max(s)}
          BY <4>1, <3>2
        <5>3. W[s \ {Max(s)}] = V[s \ {Max(s)}]
          BY <5>2
        <5>. QED
          BY <4>1, <4>3, <5>3, <2>2
      <4>. QED
        BY <4>2, <4>3
    <3>. QED
      BY <3>1, <3>2
  <2>6. Eq(W, m + 1)
    <3>. HIDE DEF W
    <3>. QED BY <2>5
  <2>7. m + 1 = k /\ k \in 0..n
    BY <2>1
  <2>. QED
    <3>. HIDE DEF W, Eq
    <3>. QED BY <2>4, <2>6, <2>7
<1>3. 0..n \subseteq Q
  <2>. HIDE DEF Q
  <2>. QED BY <1>1, <1>2, IndexInduction
<1>4. n \in Q
  <2>. HIDE DEF Q
  <2>. QED BY <1>3
<1>. QED
  BY <1>4 DEF BySize

(* The sets 1..m are the ones that the recursion visits. *)
LEMMA InitialSets ==
    ASSUME NEW n \in Nat, NEW m \in 1..n
    PROVE  /\ Max(1..m) = m /\ 1..m # {}
           /\ (1..m) \ {m} = 1..m - 1
           /\ 1..m \in SUBSET (1..n) /\ 1..m - 1 \in SUBSET (1..n)
<1>1. m - 1 \in Nat /\ 1..m \in SUBSET (1..(m - 1) + 1) /\ (m - 1) + 1 \in 1..m
  OBVIOUS
<1>2. Max(1..m) = (m - 1) + 1
  BY <1>1, LargestFirst, Zenon
<1>3. 1..m # {} /\ (1..m) \ {m} = 1..m - 1
  OBVIOUS
<1>4. 1..m \in SUBSET (1..n) /\ 1..m - 1 \in SUBSET (1..n)
  OBVIOUS
<1>5. (m - 1) + 1 = m
  OBVIOUS
<1>. QED
  BY <1>2, <1>3, <1>4, <1>5, Zenon

-----------------------------------------------------------------------------
(* A sequence taken from its front. *)

LEMMA FirstAndRest ==
    ASSUME NEW S, NEW s \in Seq(S), s # <<>>
    PROVE  /\ Head(s) \in S /\ Tail(s) \in Seq(S)
           /\ Len(Tail(s)) = Len(s) - 1
           /\ s = <<Head(s)>> \o Tail(s)
<1>1. PICK n \in Nat : n = Len(s) /\ n > 0
  BY EmptySeq, LenProperties
<1>2. /\ Head(s) \in S /\ Tail(s) \in Seq(S) /\ Len(Tail(s)) = n - 1
      /\ \A i \in 1..n - 1 : Tail(s)[i] = s[i + 1]
  BY <1>1, HeadTailProperties
<1>3. Head(s) = s[1]
  BY <1>1
<1>4. <<Head(s)>> \in Seq(S) /\ Len(<<Head(s)>>) = 1 /\ <<Head(s)>>[1] = s[1]
  BY <1>2, <1>3
<1>. DEFINE c == <<Head(s)>> \o Tail(s)
<1>5. /\ c \in Seq(S) /\ Len(c) = n
      /\ \A i \in 1..n : c[i] = IF i <= 1 THEN <<Head(s)>>[i] ELSE Tail(s)[i - 1]
  BY <1>1, <1>2, <1>4, ConcatProperties
<1>. HIDE DEF c
<1>6. \A i \in 1..n : c[i] = s[i]
  BY <1>2, <1>4, <1>5
<1>7. c = s
  BY <1>1, <1>5, <1>6, SeqEqual
<1>. QED
  BY <1>1, <1>2, <1>7 DEF c

LEMMA AppendThenRest ==
    ASSUME NEW S, NEW l \in Seq(S), NEW r \in S, NEW s \in Seq(S)
    PROVE  Append(l, r) \o s = l \o (<<r>> \o s) /\ Append(l, r) \in Seq(S)
<1>1. <<r>> \in Seq(S) /\ Append(l, r) \in Seq(S) /\ Append(l, r) = l \o <<r>>
  BY AppendIsConcat, AppendProperties
<1>. QED
  BY <1>1, ConcatAssociative

(* The receipts written so far and still to write, one further on. *)
LEMMA OneFurther ==
    ASSUME NEW S, NEW s \in Seq(S), s # <<>>, NEW n \in 0..Len(s) - 1
    PROVE  /\ SubSeq(s, 1, n + 1) = <<Head(s)>> \o SubSeq(Tail(s), 1, n)
           /\ SubSeq(s, n + 2, Len(s)) = SubSeq(Tail(s), n + 1, Len(s) - 1)
           /\ SubSeq(Tail(s), 1, n) \in Seq(S)
<1>1. PICK m \in Nat : m = Len(s) /\ m > 0
  BY EmptySeq, LenProperties
<1>2. /\ Head(s) \in S /\ Tail(s) \in Seq(S) /\ Len(Tail(s)) = m - 1
      /\ \A i \in 1..m - 1 : Tail(s)[i] = s[i + 1]
  BY <1>1, HeadTailProperties
<1>3. Head(s) = s[1] /\ <<Head(s)>> \in Seq(S) /\ Len(<<Head(s)>>) = 1 /\ <<Head(s)>>[1] = s[1]
  BY <1>1, <1>2
<1>4. n \in Nat /\ n <= m - 1
  BY <1>1
<1>. DEFINE a == SubSeq(s, 1, n + 1)
            b == SubSeq(Tail(s), 1, n)
            c == SubSeq(s, n + 2, m)
            d == SubSeq(Tail(s), n + 1, m - 1)
<1>5. a \in Seq(S) /\ Len(a) = n + 1 /\ \A i \in 1..n + 1 : a[i] = s[i]
  BY <1>1, <1>4, SubSeqProperties
<1>6. b \in Seq(S) /\ Len(b) = n /\ \A i \in 1..n : b[i] = s[i + 1]
  <2>1. b \in Seq(S) /\ Len(b) = n /\ \A i \in 1..n : b[i] = Tail(s)[i]
    BY <1>2, <1>4, SubSeqProperties
  <2>. QED
    BY <1>2, <1>4, <2>1
<1>7. c \in Seq(S) /\ Len(c) = m - n - 1 /\ \A i \in 1..m - n - 1 : c[i] = s[n + 1 + i]
  BY <1>1, <1>4, SubSeqProperties
<1>8. d \in Seq(S) /\ Len(d) = m - n - 1 /\ \A i \in 1..m - n - 1 : d[i] = s[n + 1 + i]
  <2>1. d \in Seq(S) /\ Len(d) = m - n - 1 /\ \A i \in 1..m - n - 1 : d[i] = Tail(s)[n + i]
    <3>. DEFINE t == Tail(s)
    <3>1. /\ t \in Seq(S) /\ n + 1 \in Nat \ {0} /\ m - 1 \in Nat /\ m - 1 <= Len(t)
          /\ \A i \in n + 1..m - 1 : t[i] \in S
      BY <1>2, <1>4, ElementOfSeq
    <3>. HIDE DEF t
    <3>2. /\ d \in Seq(S)
          /\ Len(d) = IF n + 1 <= m - 1 THEN (m - 1) - (n + 1) + 1 ELSE 0
          /\ \A i \in 1..(m - 1) - (n + 1) + 1 : d[i] = t[(n + 1) + i - 1]
      BY <3>1, SubSeqProperties DEF t
    <3>. HIDE DEF d
    <3>3. Len(d) = m - n - 1
      BY <1>4, <3>2
    <3>4. \A i \in 1..m - n - 1 : /\ i \in 1..(m - 1) - (n + 1) + 1
                                  /\ (n + 1) + i - 1 = n + i
      BY <1>4
    <3>. QED
      BY <3>2, <3>3, <3>4 DEF t
  <2>2. \A i \in 1..m - n - 1 : n + i \in 1..m - 1 /\ (n + i) + 1 = n + 1 + i
    BY <1>4
  <2>. QED
    BY <1>2, <2>1, <2>2
<1>. DEFINE e == <<Head(s)>> \o b
<1>9. /\ e \in Seq(S) /\ Len(e) = n + 1
      /\ \A i \in 1..n + 1 : e[i] = IF i <= 1 THEN <<Head(s)>>[i] ELSE b[i - 1]
  <2>. HIDE DEF b
  <2>1. Len(e) = 1 + Len(b) /\ 1 + Len(b) = n + 1
    BY <1>3, <1>4, <1>6, ConcatProperties
  <2>. QED
    BY <1>3, <1>4, <1>6, <2>1, ConcatProperties
<1>. HIDE DEF a, b, c, d, e
<1>10. ASSUME NEW i \in 1..n + 1 PROVE a[i] = e[i]
  <2>1. CASE i = 1
    BY <2>1, <1>3, <1>4, <1>5, <1>9
  <2>2. CASE i # 1
    <3>1. i - 1 \in 1..n /\ (i - 1) + 1 = i /\ ~(i <= 1)
      BY <2>2, <1>4
    <3>2. e[i] = b[i - 1] /\ b[i - 1] = s[i] /\ a[i] = s[i]
      BY <3>1, <1>5, <1>6, <1>9
    <3>. QED
      BY <3>2
  <2>. QED
    BY <2>1, <2>2
<1>11. a = e
  BY <1>5, <1>9, <1>10, SeqEqual
<1>12. c = d
  BY <1>7, <1>8, SeqEqual
<1>. QED
  BY <1>1, <1>6, <1>11, <1>12 DEF a, b, c, d, e

LEMMA OneEntry ==
    ASSUME NEW S, NEW a \in S
    PROVE  <<a>> \in Seq(S) /\ <<a>> # <<>> /\ Len(<<a>>) = 1 /\ <<a>>[1] = a
OBVIOUS

LEMMA TwoEntries ==
    ASSUME NEW S, NEW a \in S, NEW b \in S
    PROVE  /\ <<a, b>> \in Seq(S) /\ <<a, b>> # <<>> /\ Len(<<a, b>>) = 2
           /\ <<a, b>> = Append(<<a>>, b)
           /\ SubSeq(<<a, b>>, 1, 1) = <<a>> /\ SubSeq(<<a, b>>, 2, 2) = <<b>>
<1>1. <<a, b>> \in Seq(S)
  OBVIOUS
<1>2. Len(<<a, b>>) = 2 /\ <<a, b>>[1] = a /\ <<a, b>>[2] = b
  OBVIOUS
<1>3. <<a, b>> # <<>>
  BY <1>2, EmptySeq
<1>4. /\ Append(<<a>>, b) \in Seq(S) /\ Len(Append(<<a>>, b)) = 2
      /\ Append(<<a>>, b)[1] = a /\ Append(<<a>>, b)[2] = b
  <2>1. <<a>> \in Seq(S) /\ Len(<<a>>) = 1 /\ <<a>>[1] = a
    BY OneEntry
  <2>2. \A i \in 1..1 : Append(<<a>>, b)[i] = <<a>>[i]
    BY <2>1, AppendProperties
  <2>3. Append(<<a>>, b) \in Seq(S) /\ Len(Append(<<a>>, b)) = 1 + 1 /\ Append(<<a>>, b)[1 + 1] = b
    BY <2>1, AppendProperties
  <2>. QED
    BY <2>1, <2>2, <2>3
<1>5. <<a, b>> = Append(<<a>>, b)
  <2>1. \A i \in 1..2 : <<a, b>>[i] = Append(<<a>>, b)[i]
    <3>1. \A i \in 1..2 : i = 1 \/ i = 2
      OBVIOUS
    <3>. QED
      BY <3>1, <1>2, <1>4
  <2>. QED
    BY <1>1, <1>2, <1>4, <2>1, SeqEqual
<1>6. SubSeq(<<a, b>>, 1, 1) = <<a>>
  <2>. DEFINE s == SubSeq(<<a, b>>, 1, 1)
  <2>1. s \in Seq(S) /\ Len(s) = 1 /\ s[1] = a
    BY <1>1, <1>2, SubSeqProperties
  <2>. HIDE DEF s
  <2>2. \A i \in 1..1 : s[i] = <<a>>[i]
    BY <2>1
  <2>3. s = <<a>>
    BY <2>1, <2>2, OneEntry, SeqEqual
  <2>. QED
    BY <2>3 DEF s
<1>7. SubSeq(<<a, b>>, 2, 2) = <<b>>
  <2>. DEFINE s == SubSeq(<<a, b>>, 2, 2)
  <2>1. s \in Seq(S) /\ Len(s) = 1 /\ s[1] = b
    BY <1>1, <1>2, SubSeqProperties
  <2>. HIDE DEF s
  <2>2. \A i \in 1..1 : s[i] = <<b>>[i]
    BY <2>1
  <2>3. s = <<b>>
    BY <2>1, <2>2, OneEntry, SeqEqual
  <2>. QED
    BY <2>3 DEF s
<1>. QED
  BY <1>1, <1>2, <1>3, <1>5, <1>6, <1>7

LEMMA ThreeEntries ==
    ASSUME NEW S, NEW a \in S, NEW b \in S, NEW c \in S
    PROVE  /\ <<a, b, c>> \in Seq(S) /\ <<a, b, c>> # <<>> /\ Len(<<a, b, c>>) = 3
           /\ <<a, b, c>>[3] = c
           /\ <<a, b, c>> = Append(<<a, b>>, c)
           /\ SubSeq(<<a, b, c>>, 1, 1) = <<a>> /\ SubSeq(<<a, b, c>>, 1, 2) = <<a, b>>
           /\ SubSeq(<<a, b, c>>, 2, 3) = <<b, c>> /\ SubSeq(<<a, b, c>>, 3, 3) = <<c>>
<1>. DEFINE x == <<a, b, c>>
<1>1. x \in Seq(S) /\ Len(x) = 3 /\ x[1] = a /\ x[2] = b /\ x[3] = c
  OBVIOUS
<1>2. /\ <<a, b>> \in Seq(S) /\ Len(<<a, b>>) = 2 /\ <<a, b>>[1] = a /\ <<a, b>>[2] = b
      /\ <<b, c>> \in Seq(S) /\ Len(<<b, c>>) = 2 /\ <<b, c>>[1] = b /\ <<b, c>>[2] = c
  OBVIOUS
<1>3. /\ <<a>> \in Seq(S) /\ Len(<<a>>) = 1 /\ <<a>>[1] = a
      /\ <<c>> \in Seq(S) /\ Len(<<c>>) = 1 /\ <<c>>[1] = c
  BY OneEntry
<1>. DEFINE u == <<a, b>>
            v == <<b, c>>
            first == <<a>>
            last == <<c>>
<1>. HIDE DEF x, u, v, first, last
<1>4. x # <<>>
  BY <1>1, EmptySeq
<1>6. SubSeq(x, 1, 1) = first
  <2>. DEFINE s == SubSeq(x, 1, 1)
  <2>1. s \in Seq(S) /\ Len(s) = 1 /\ s[1] = a
    BY <1>1, SubSeqProperties
  <2>. HIDE DEF s
  <2>2. \A i \in 1..1 : s[i] = first[i]
    BY <1>3, <2>1 DEF first
  <2>3. s = first
    BY <1>3, <2>1, <2>2, SeqEqual DEF first
  <2>. QED
    BY <2>3 DEF s
<1>7. SubSeq(x, 3, 3) = last
  <2>. DEFINE s == SubSeq(x, 3, 3)
  <2>1. s \in Seq(S) /\ Len(s) = 1 /\ s[1] = c
    BY <1>1, SubSeqProperties
  <2>. HIDE DEF s
  <2>2. \A i \in 1..1 : s[i] = last[i]
    BY <1>3, <2>1 DEF last
  <2>3. s = last
    BY <1>3, <2>1, <2>2, SeqEqual DEF last
  <2>. QED
    BY <2>3 DEF s
<1>8. SubSeq(x, 1, 2) = u
  <2>. DEFINE s == SubSeq(x, 1, 2)
  <2>1. s \in Seq(S) /\ Len(s) = 2 /\ s[1] = a /\ s[2] = b
    BY <1>1, SubSeqProperties
  <2>. HIDE DEF s
  <2>2. \A i \in 1..2 : s[i] = u[i]
    <3>1. \A i \in 1..2 : i = 1 \/ i = 2
      OBVIOUS
    <3>. QED
      BY <1>2, <2>1, <3>1 DEF u
  <2>3. s = u
    BY <1>2, <2>1, <2>2, SeqEqual DEF u
  <2>. QED
    BY <2>3 DEF s
<1>10. x = Append(u, c)
  <2>1. Front(x) = u /\ Last(x) = c
    <3>1. Len(x) - 1 = 2 /\ Len(x) = 3
      BY <1>1
    <3>. QED
      BY <1>1, <1>8, <3>1 DEF Front, Last
  <2>2. x = Append(Front(x), Last(x))
    BY <1>1, <1>4, FrontAndLast
  <2>. QED
    BY <2>1, <2>2
<1>9. SubSeq(x, 2, 3) = v
  <2>. DEFINE s == SubSeq(x, 2, 3)
  <2>1. s \in Seq(S) /\ Len(s) = 2 /\ s[1] = b /\ s[2] = c
    BY <1>1, SubSeqProperties
  <2>. HIDE DEF s
  <2>2. \A i \in 1..2 : s[i] = v[i]
    <3>1. \A i \in 1..2 : i = 1 \/ i = 2
      OBVIOUS
    <3>. QED
      BY <1>2, <2>1, <3>1 DEF v
  <2>3. s = v
    BY <1>2, <2>1, <2>2, SeqEqual DEF v
  <2>. QED
    BY <2>3 DEF s
<1>. QED
  BY <1>1, <1>4, <1>6, <1>7, <1>8, <1>9, <1>10 DEF x, u, v, first, last

(* The recursive function inside FlattenSeq *)
Flattens(f, q, m) == \A i \in 1..m : f[i] = IF i = 1 THEN q[i] ELSE f[i - 1] \o q[i]

LEMMA FlattenRecursion ==
    ASSUME NEW S, NEW k \in Nat, NEW q \in [1..k -> Seq(S)]
    PROVE  \E f \in [1..k -> Seq(S)] : Flattens(f, q, k)
<1>. DEFINE Q == {m \in 0..k : \E f \in [1..m -> Seq(S)] : Flattens(f, q, m)}
<1>1. 0 \in Q
  <2>. DEFINE f == [i \in 1..0 |-> <<>>]
  <2>1. f \in [1..0 -> Seq(S)] /\ Flattens(f, q, 0)
    BY DEF Flattens
  <2>2. \E h \in [1..0 -> Seq(S)] : Flattens(h, q, 0)
    <3>. HIDE DEF f
    <3>. QED BY <2>1, Zenon
  <2>3. 0 \in 0..k
    OBVIOUS
  <2>. QED
    BY <2>2, <2>3, Zenon
<1>2. ASSUME NEW m \in 1..k, m - 1 \in Q PROVE m \in Q
  <2>1. PICK f \in [1..m - 1 -> Seq(S)] : Flattens(f, q, m - 1)
    BY <1>2
  <2>. DEFINE last == IF m = 1 THEN q[m] ELSE f[m - 1] \o q[m]
              g == [i \in 1..m |-> IF i = m THEN last ELSE f[i]]
  <2>2. last \in Seq(S)
    <3>1. CASE m = 1
      BY <3>1
    <3>2. CASE m # 1
      <4>1. f[m - 1] \in Seq(S) /\ q[m] \in Seq(S)
        BY <3>2
      <4>2. f[m - 1] \o q[m] \in Seq(S)
        BY <4>1, ConcatProperties
      <4>. QED
        BY <3>2, <4>2
    <3>. QED
      BY <3>1, <3>2
  <2>3. g \in [1..m -> Seq(S)]
    <3>. HIDE DEF last
    <3>. QED
      BY <2>2
  <2>4. ASSUME NEW i \in 1..m PROVE g[i] = IF i = 1 THEN q[i] ELSE g[i - 1] \o q[i]
    <3>1. i # 1 => g[i - 1] = f[i - 1]
      <4>. HIDE DEF last
      <4>. QED
        OBVIOUS
    <3>2. CASE i = m
      BY <3>1, <3>2
    <3>3. CASE i # m
      <4>1. g[i] = f[i] /\ i \in 1..m - 1
        BY <3>3
      <4>2. f[i] = IF i = 1 THEN q[i] ELSE f[i - 1] \o q[i]
        BY <2>1, <4>1 DEF Flattens
      <4>. HIDE DEF g
      <4>. QED
        BY <3>1, <4>1, <4>2
    <3>. QED
      BY <3>2, <3>3
  <2>5. Flattens(g, q, m)
    BY <2>4 DEF Flattens
  <2>6. \E h \in [1..m -> Seq(S)] : Flattens(h, q, m)
    <3>. HIDE DEF g
    <3>. QED BY <2>3, <2>5, Zenon
  <2>. QED
    BY <2>6
<1>3. 0..k \subseteq Q
  <2>. HIDE DEF Q
  <2>. QED BY <1>1, <1>2, IndexInduction
<1>4. k \in Q
  <2>. HIDE DEF Q
  <2>. QED BY <1>3
<1>. QED
  BY <1>4, Zenon

LEMMA Flattened ==
    ASSUME NEW S, NEW q \in Seq(Seq(S)), NEW k \in Nat, k = Len(q), k > 0
    PROVE  \E f : FlattenSeq(q) = f[k] /\ Flattens(f, q, k)
<1>. DEFINE Body(f) == [i \in 1..Len(q) |-> IF i = 1 THEN q[i] ELSE f[i - 1] \o q[i]]
            f == CHOOSE f : f = Body(f)
<1>1. q \in [1..k -> Seq(S)]
  BY SeqDef
<1>2. PICK g \in [1..k -> Seq(S)] : Flattens(g, q, k)
  BY <1>1, FlattenRecursion, Zenon
<1>3. g = Body(g)
  BY <1>2 DEF Flattens
<1>4. f = Body(f)
  <2>. HIDE DEF Body
  <2>. QED BY <1>3, Zenon
<1>5. FlattenSeq(q) = f[k]
  <2>1. ~(Len(q) = 0) /\ Len(q) = k
    OBVIOUS
  <2>2. FlattenSeq(q) = f[Len(q)]
    BY <2>1, Zenon DEF FlattenSeq
  <2>. QED
    BY <2>1, <2>2, Zenon
<1>. HIDE DEF f
<1>6. Flattens(f, q, k)
  BY <1>4 DEF Flattens
<1>. QED
  BY <1>5, <1>6, Zenon

-----------------------------------------------------------------------------
(* FoldLeft of an operator that is G on the states T and the entries R: what *)
(* the recursive function X inside it satisfies, and what follows from that. *)

FoldsBy(X, T, G, t, l) ==
    \A s \in SUBSET (DOMAIN l) :
        /\ s = {} => X[s] = t
        /\ s # {} /\ X[s \ {Max(s)}] \in T => X[s] = G[X[s \ {Max(s)}]][l[Max(s)]]

FoldsUpTo(X, T, G, t, l, n) ==
    /\ X[1..0] = t
    /\ \A m \in 1..n : X[1..m - 1] \in T => X[1..m] = G[X[1..m - 1]][l[m]]

LEMMA FoldExists ==
    ASSUME NEW T, NEW R, NEW G \in [T -> [R -> T]], NEW t \in T, NEW l \in Seq(R)
    PROVE  \E W \in [SUBSET (DOMAIN l) -> T] : FoldsBy(W, T, G, t, l)
<1>1. PICK n \in Nat : n = Len(l) /\ DOMAIN l = 1..n
  BY LenProperties
<1>2. \A k \in 1..n : l[k] \in R
  BY <1>1, ElementOfSeq
<1>. DEFINE g == [k \in 1..n |-> [u \in T |-> G[u][l[k]]]]
<1>3. g \in [1..n -> [T -> T]]
  BY <1>2
<1>4. PICK W \in [SUBSET (1..n) -> T] : BySize(W, n, t, g)
  <2>. HIDE DEF g
  <2>. QED BY <1>3, RecursionBySize, Zenon
<1>5. ASSUME NEW s \in SUBSET (1..n), s # {}
      PROVE  W[s] = G[W[s \ {Max(s)}]][l[Max(s)]]
  <2>1. Max(s) \in s
    BY <1>5, LargestBelow, Zenon
  <2>2. Max(s) \in 1..n /\ s \ {Max(s)} \in SUBSET (1..n)
    BY <2>1
  <2>3. g[Max(s)][W[s \ {Max(s)}]] = G[W[s \ {Max(s)}]][l[Max(s)]]
    BY <2>2
  <2>4. W[s] = g[Max(s)][W[s \ {Max(s)}]]
    <3>. HIDE DEF g
    <3>. QED BY <1>4, <1>5 DEF BySize
  <2>. QED
    <3>. HIDE DEF g
    <3>. QED BY <2>3, <2>4
<1>6. \A s \in SUBSET (1..n) : s = {} => W[s] = t
  <2>. HIDE DEF g
  <2>. QED BY <1>4 DEF BySize
<1>7. FoldsBy(W, T, G, t, l)
  BY <1>1, <1>5, <1>6, Zenon DEF FoldsBy
<1>. QED
  BY <1>1, <1>7, Zenon

LEMMA FoldPrefix ==
    ASSUME NEW T, NEW R, NEW G, NEW t, NEW l \in Seq(R), NEW X, FoldsBy(X, T, G, t, l)
    PROVE  FoldsUpTo(X, T, G, t, l, Len(l))
<1>1. PICK n \in Nat : n = Len(l) /\ DOMAIN l = 1..n
  BY LenProperties
<1>2. X[1..0] = t
  <2>1. 1..0 = {} /\ 1..0 \in SUBSET (1..n)
    OBVIOUS
  <2>. QED
    BY <1>1, <2>1, Zenon DEF FoldsBy
<1>3. ASSUME NEW m \in 1..n, X[1..m - 1] \in T PROVE X[1..m] = G[X[1..m - 1]][l[m]]
  <2>1. /\ Max(1..m) = m /\ 1..m # {} /\ (1..m) \ {m} = 1..m - 1
        /\ 1..m \in SUBSET (1..n)
    BY InitialSets, Zenon
  <2>2. X[(1..m) \ {Max(1..m)}] = X[1..m - 1]
    BY <2>1, Zenon
  <2>3. X[1..m] = G[X[(1..m) \ {Max(1..m)}]][l[Max(1..m)]]
    BY <1>1, <1>3, <2>1, <2>2, Zenon DEF FoldsBy
  <2>. QED
    BY <2>1, <2>2, <2>3, Zenon
<1>. QED
  BY <1>1, <1>2, <1>3 DEF FoldsUpTo

(* v is the value of the fold over l. *)
FoldsTo(v, T, G, t, l) == \E X : FoldsBy(X, T, G, t, l) /\ v = X[DOMAIN l]

StepsTo(w, G, v, r) == w = G[v][r]

LEMMA FoldEmpty ==
    ASSUME NEW T, NEW G, NEW t, NEW v, FoldsTo(v, T, G, t, <<>>)
    PROVE  v = t
<1>1. DOMAIN <<>> = {} /\ {} \in SUBSET (DOMAIN <<>>)
  OBVIOUS
<1>. QED
  BY <1>1, Zenon DEF FoldsTo, FoldsBy

LEMMA FoldType ==
    ASSUME NEW T, NEW R, NEW G \in [T -> [R -> T]], NEW t \in T,
           NEW l \in Seq(R), NEW v, FoldsTo(v, T, G, t, l)
    PROVE  v \in T
<1>0. PICK X : FoldsBy(X, T, G, t, l) /\ v = X[DOMAIN l]
  BY Zenon DEF FoldsTo
<1>1. PICK n \in Nat : n = Len(l) /\ DOMAIN l = 1..n
  BY LenProperties
<1>2. \A i \in 1..n : l[i] \in R
  BY <1>1, ElementOfSeq
<1>3. X[1..0] = t /\ \A m \in 1..n : X[1..m - 1] \in T => X[1..m] = G[X[1..m - 1]][l[m]]
  <2>1. FoldsUpTo(X, T, G, t, l, Len(l))
    BY <1>0, FoldPrefix, Zenon
  <2>. QED
    BY <1>1, <2>1 DEF FoldsUpTo
<1>. DEFINE Q == {m \in 0..n : X[1..m] \in T}
<1>5. 0 \in Q
  BY <1>3
<1>6. ASSUME NEW m \in 1..n, m - 1 \in Q PROVE m \in Q
  <2>1. G[X[1..m - 1]][l[m]] \in T
    BY <1>2, <1>6
  <2>. QED
    BY <1>3, <1>6, <2>1
<1>7. X[1..n] \in T
  <2>1. 0..n \subseteq Q
    <3>. HIDE DEF Q
    <3>. QED BY <1>5, <1>6, IndexInduction
  <2>. QED
    BY <2>1
<1>. QED
  BY <1>0, <1>1, <1>7

LEMMA FoldAppend ==
    ASSUME NEW T, NEW R, NEW G \in [T -> [R -> T]], NEW t \in T,
           NEW l \in Seq(R), NEW r \in R, NEW v, NEW w,
           FoldsTo(v, T, G, t, l), FoldsTo(w, T, G, t, Append(l, r))
    PROVE  v \in T /\ StepsTo(w, G, v, r)
<1>0. PICK X, Y : /\ FoldsBy(X, T, G, t, l) /\ v = X[DOMAIN l]
                  /\ FoldsBy(Y, T, G, t, Append(l, r)) /\ w = Y[DOMAIN Append(l, r)]
  BY Zenon DEF FoldsTo
<1>1. PICK n \in Nat : n = Len(l) /\ DOMAIN l = 1..n
  BY LenProperties
<1>. DEFINE k == Append(l, r)
<1>2. /\ k \in Seq(R) /\ Len(k) = n + 1 /\ DOMAIN k = 1..n + 1
      /\ k[n + 1] = r /\ \A i \in 1..n : k[i] = l[i] /\ l[i] \in R
  BY <1>1, AppendProperties, LenProperties, ElementOfSeq
<1>3. X[1..0] = t /\ \A m \in 1..n : X[1..m - 1] \in T => X[1..m] = G[X[1..m - 1]][l[m]]
  <2>1. FoldsUpTo(X, T, G, t, l, Len(l))
    BY <1>0, FoldPrefix, Zenon
  <2>. QED
    BY <1>1, <2>1 DEF FoldsUpTo
<1>4. Y[1..0] = t /\ \A m \in 1..n + 1 : Y[1..m - 1] \in T => Y[1..m] = G[Y[1..m - 1]][k[m]]
  <2>1. FoldsUpTo(Y, T, G, t, k, Len(k))
    <3>1. FoldsBy(Y, T, G, t, k)
      BY <1>0
    <3>. HIDE DEF k
    <3>. QED BY <3>1, <1>2, FoldPrefix, Zenon
  <2>. HIDE DEF k
  <2>. QED BY <1>2, <2>1 DEF FoldsUpTo
<1>. DEFINE Q == {m \in 0..n : X[1..m] \in T /\ X[1..m] = Y[1..m]}
<1>. HIDE DEF k
<1>5. 0 \in Q
  BY <1>3, <1>4
<1>6. ASSUME NEW m \in 1..n, m - 1 \in Q PROVE m \in Q
  <2>1. m \in 1..n + 1 /\ l[m] \in R /\ k[m] = l[m]
    BY <1>2
  <2>2. X[1..m] = G[X[1..m - 1]][l[m]] /\ Y[1..m] = G[X[1..m - 1]][l[m]]
    BY <1>6, <1>3, <1>4, <2>1
  <2>3. X[1..m - 1] \in T
    BY <1>6
  <2>4. G[X[1..m - 1]][l[m]] \in T
    BY <2>1, <2>3
  <2>5. m \in 0..n
    OBVIOUS
  <2>6. X[1..m] \in T /\ X[1..m] = Y[1..m]
    BY <2>2, <2>4, Zenon
  <2>. QED
    BY <2>5, <2>6, Zenon
<1>7. X[1..n] = Y[1..n] /\ X[1..n] \in T
  <2>1. 0..n \subseteq Q
    <3>. HIDE DEF Q
    <3>. QED BY <1>5, <1>6, IndexInduction
  <2>. QED
    BY <2>1
<1>8. Y[1..n + 1] = G[Y[1..n]][r]
  <2>1. n + 1 \in 1..n + 1 /\ (n + 1) - 1 = n
    OBVIOUS
  <2>. QED BY <1>2, <1>4, <1>7, <2>1
<1>. QED
  BY <1>0, <1>1, <1>2, <1>7, <1>8 DEF k, StepsTo

-----------------------------------------------------------------------------
(* Sums over finite sets: SumFunction and FoldFunction take the elements     *)
(* in the order of CHOOSE.                                                   *)

First(s) == CHOOSE x \in s : TRUE

SumsBy(W, f, S) ==
    \A s \in SUBSET S : W[s] = IF s = {} THEN 0 ELSE f[First(s)] + W[s \ {First(s)}]

Sums(f, S) ==
    CHOOSE iter : iter = [s \in SUBSET S |->
        IF s = {} THEN 0 ELSE f[First(s)] + iter[s \ {First(s)}]]

LEMMA SumOfNone == ASSUME NEW W, NEW f, NEW S, SumsBy(W, f, S) PROVE W[{}] = 0
<1>1. {} \in SUBSET S
  OBVIOUS
<1>2. \A s \in SUBSET S : s = {} => W[s] = 0
  BY DEF SumsBy
<1>. QED
  BY <1>1, <1>2, Zenon

LEMMA SumOfMore ==
    ASSUME NEW W, NEW f, NEW S, SumsBy(W, f, S)
    PROVE  \A s \in SUBSET S : s # {} => W[s] = f[First(s)] + W[s \ {First(s)}]
BY DEF SumsBy

LEMMA FirstIsOne == \A s : s # {} => First(s) \in s
BY DEF First

(* Induction on the subsets of a finite set, by what First leaves. *)
LEMMA SubsetInduction ==
    ASSUME NEW S, IsFiniteSet(S), NEW P, {} \in P,
           \A s \in SUBSET S : s # {} /\ s \ {First(s)} \in P => s \in P
    PROVE  SUBSET S \subseteq P
<1>. DEFINE Q == {n \in Nat : \A s \in SUBSET S : Cardinality(s) = n => s \in P}
<1>1. \A s \in SUBSET S : IsFiniteSet(s) /\ Cardinality(s) \in Nat
  BY FS_Subset, FS_CardinalityType
<1>2. 0 \in Q
  BY <1>1, FS_EmptySet
<1>3. ASSUME NEW n \in Nat, n \in Q PROVE n + 1 \in Q
  <2>1. ASSUME NEW s \in SUBSET S, Cardinality(s) = n + 1 PROVE s \in P
    <3>1. s # {}
      BY <2>1, FS_EmptySet
    <3>2. First(s) \in s
      BY <3>1, FirstIsOne
    <3>3. Cardinality(s \ {First(s)}) = n
      BY <1>1, <2>1, <3>2, FS_RemoveElement
    <3>4. s \ {First(s)} \in SUBSET S
      OBVIOUS
    <3>5. s \ {First(s)} \in P
      BY <1>3, <3>3, <3>4
    <3>. QED
      BY <3>1, <3>5
  <2>. QED
    BY <2>1
<1>4. Nat \subseteq Q
  <2>. HIDE DEF Q
  <2>. QED BY <1>2, <1>3, NumberInduction
<1>. QED
  BY <1>1, <1>4

LEMMA SumRecursion ==
    ASSUME NEW S, IsFiniteSet(S), NEW f \in [S -> Int]
    PROVE  \E W \in [SUBSET S -> Int] : SumsBy(W, f, S)
<1>. DEFINE Up(n) == {s \in SUBSET S : Cardinality(s) <= n}
            Eq(W, n) == \A s \in Up(n) :
                W[s] = IF s = {} THEN 0 ELSE f[First(s)] + W[s \ {First(s)}]
            Q == {n \in Nat : \E W \in [SUBSET S -> Int] : Eq(W, n)}
<1>1. \A s \in SUBSET S : IsFiniteSet(s) /\ Cardinality(s) \in Nat
  BY FS_Subset, FS_CardinalityType
<1>2. \A s \in SUBSET S : s # {} =>
        /\ First(s) \in S /\ s \ {First(s)} \in SUBSET S
        /\ Cardinality(s \ {First(s)}) = Cardinality(s) - 1
  <2>. TAKE s \in SUBSET S
  <2>. HAVE s # {}
  <2>1. First(s) \in s
    BY FirstIsOne
  <2>. QED
    BY <1>1, <2>1, FS_RemoveElement
<1>3. 0 \in Q
  <2>. DEFINE W == [s \in SUBSET S |-> 0]
  <2>1. W \in [SUBSET S -> Int]
    OBVIOUS
  <2>2. \A s \in Up(0) : s = {} /\ W[s] = 0
    <3>1. \A s \in SUBSET S : Cardinality(s) <= 0 => s = {}
      BY <1>1, FS_EmptySet
    <3>. QED
      BY <3>1
  <2>3. Eq(W, 0)
    <3>. HIDE DEF W, Up
    <3>. QED BY <2>2
  <2>4. \E U \in [SUBSET S -> Int] : Eq(U, 0)
    <3>. HIDE DEF W, Eq
    <3>. QED BY <2>1, <2>3, Zenon
  <2>. QED
    BY <2>4
<1>4. ASSUME NEW n \in Nat, n \in Q PROVE n + 1 \in Q
  <2>1. PICK V \in [SUBSET S -> Int] : Eq(V, n)
    BY <1>4
  <2>. DEFINE W == [s \in SUBSET S |->
                      IF s = {} THEN 0
                      ELSE IF Cardinality(s) <= n THEN V[s]
                      ELSE f[First(s)] + V[s \ {First(s)}]]
  <2>2. W \in [SUBSET S -> Int]
    BY <1>2
  <2>3. ASSUME NEW s \in SUBSET S, Cardinality(s) <= n
        PROVE  W[s] = V[s]
    <3>1. s = {} => V[s] = 0
      BY <2>1, <2>3
    <3>. QED
      BY <2>3, <3>1
  <2>4. ASSUME NEW s \in Up(n + 1)
        PROVE  W[s] = IF s = {} THEN 0 ELSE f[First(s)] + W[s \ {First(s)}]
    <3>1. CASE s = {}
      BY <3>1
    <3>2. CASE s # {} /\ Cardinality(s) <= n
      <4>1. /\ s \ {First(s)} \in SUBSET S
            /\ Cardinality(s \ {First(s)}) <= n
        BY <1>1, <1>2, <3>2
      <4>2. W[s \ {First(s)}] = V[s \ {First(s)}]
        <5>. HIDE DEF W
        <5>. QED BY <4>1, <2>3
      <4>3. W[s] = V[s]
        <5>. HIDE DEF W
        <5>. QED BY <3>2, <2>3
      <4>4. V[s] = f[First(s)] + V[s \ {First(s)}]
        BY <2>1, <3>2
      <4>. QED
        <5>. HIDE DEF W
        <5>. QED BY <3>2, <4>2, <4>3, <4>4
    <3>3. CASE s # {} /\ ~(Cardinality(s) <= n)
      <4>1. /\ s \ {First(s)} \in SUBSET S
            /\ Cardinality(s \ {First(s)}) <= n
        BY <1>1, <1>2, <3>3
      <4>2. W[s \ {First(s)}] = V[s \ {First(s)}]
        <5>. HIDE DEF W
        <5>. QED BY <4>1, <2>3
      <4>3. W[s] = f[First(s)] + V[s \ {First(s)}]
        BY <3>3
      <4>. QED
        <5>. HIDE DEF W
        <5>. QED BY <3>3, <4>2, <4>3
    <3>. QED
      BY <3>1, <3>2, <3>3
  <2>5. Eq(W, n + 1)
    <3>. HIDE DEF W, Up
    <3>. QED BY <2>4
  <2>6. \E U \in [SUBSET S -> Int] : Eq(U, n + 1)
    <3>. HIDE DEF W, Eq
    <3>. QED BY <2>2, <2>5, Zenon
  <2>. QED
    BY <2>6
<1>5. Nat \subseteq Q
  <2>. HIDE DEF Q
  <2>. QED BY <1>3, <1>4, NumberInduction
<1>6. PICK W \in [SUBSET S -> Int] : Eq(W, Cardinality(S))
  <2>1. Cardinality(S) \in Q
    <3>. HIDE DEF Q
    <3>. QED BY <1>1, <1>5
  <2>. QED
    BY <2>1
<1>7. \A s \in SUBSET S : s \in Up(Cardinality(S))
  BY FS_Subset
<1>8. SumsBy(W, f, S)
  <2>. HIDE DEF Up
  <2>. QED BY <1>6, <1>7 DEF SumsBy
<1>. QED
  BY <1>8

LEMMA SumsEquation ==
    ASSUME NEW S, IsFiniteSet(S), NEW f \in [S -> Int]
    PROVE  Sums(f, S) \in [SUBSET S -> Int] /\ SumsBy(Sums(f, S), f, S)
<1>. DEFINE Body(iter) == [s \in SUBSET S |->
               IF s = {} THEN 0 ELSE f[First(s)] + iter[s \ {First(s)}]]
            X == Sums(f, S)
<1>1. PICK W \in [SUBSET S -> Int] : SumsBy(W, f, S)
  BY SumRecursion
<1>2. W = Body(W)
  BY <1>1 DEF SumsBy
<1>3. X = Body(X)
  <2>1. X = CHOOSE iter : iter = Body(iter)
    BY DEF Sums
  <2>. HIDE DEF Body, X
  <2>. QED
    BY <1>2, <2>1, Zenon
<1>4. SumsBy(X, f, S)
  <2>. HIDE DEF X
  <2>. QED BY <1>3 DEF SumsBy
<1>. DEFINE P == {s \in SUBSET S : X[s] \in Int}
<1>5. {} \in P
  <2>. HIDE DEF X
  <2>. QED BY <1>4, SumOfNone
<1>6. ASSUME NEW s \in SUBSET S, s # {}, s \ {First(s)} \in P PROVE s \in P
  <2>1. First(s) \in S
    BY <1>6, FirstIsOne
  <2>2. f[First(s)] \in Int
    BY <2>1
  <2>3. X[s] = f[First(s)] + X[s \ {First(s)}]
    <3>. HIDE DEF X
    <3>. QED BY <1>4, <1>6, SumOfMore
  <2>4. X[s \ {First(s)}] \in Int
    BY <1>6
  <2>. HIDE DEF X
  <2>. QED BY <2>2, <2>3, <2>4
<1>7. SUBSET S \subseteq P
  <2>. HIDE DEF P, X
  <2>. QED BY <1>5, <1>6, SubsetInduction
<1>8. X \in [SUBSET S -> Int]
  <2>. HIDE DEF X
  <2>. QED BY <1>3, <1>7
<1>. QED
  BY <1>4, <1>8

LEMMA SumIsInteger ==
    ASSUME NEW S, IsFiniteSet(S), NEW f \in [S -> Int]
    PROVE  Sums(f, S)[S] \in Int
<1>1. S \in SUBSET S
  OBVIOUS
<1>2. Sums(f, S) \in [SUBSET S -> Int]
  BY SumsEquation
<1>. QED
  BY <1>1, <1>2

(* Changing one value changes the sum by as much. *)
LEMMA SumChanges ==
    ASSUME NEW S, IsFiniteSet(S), NEW f \in [S -> Int], NEW g \in [S -> Int],
           NEW x \in S, NEW n \in Int, g[x] = f[x] + n, \A y \in S \ {x} : g[y] = f[y]
    PROVE  Sums(g, S)[S] = Sums(f, S)[S] + n
<1>. DEFINE F == Sums(f, S)
            G == Sums(g, S)
<1>1. /\ F \in [SUBSET S -> Int] /\ SumsBy(F, f, S)
      /\ G \in [SUBSET S -> Int] /\ SumsBy(G, g, S)
  BY SumsEquation
<1>. DEFINE P == {s \in SUBSET S : G[s] = F[s] + (IF x \in s THEN n ELSE 0)}
<1>. HIDE DEF F, G
<1>2. {} \in P
  BY <1>1, SumOfNone
<1>3. ASSUME NEW s \in SUBSET S, s # {}, s \ {First(s)} \in P PROVE s \in P
  <2>1. First(s) \in s /\ First(s) \in S /\ s \ {First(s)} \in SUBSET S
    BY <1>3, FirstIsOne
  <2>2. /\ F[s] = f[First(s)] + F[s \ {First(s)}]
        /\ G[s] = g[First(s)] + G[s \ {First(s)}]
    BY <1>1, <1>3 DEF SumsBy
  <2>3. /\ F[s \ {First(s)}] \in Int /\ G[s \ {First(s)}] \in Int
        /\ f[First(s)] \in Int /\ g[First(s)] \in Int
    BY <1>1, <2>1
  <2>4. CASE First(s) = x
    BY <1>3, <2>1, <2>2, <2>3, <2>4
  <2>5. CASE First(s) # x
    BY <1>3, <2>1, <2>2, <2>3, <2>5
  <2>. QED
    BY <2>4, <2>5
<1>4. SUBSET S \subseteq P
  <2>. HIDE DEF P
  <2>. QED BY <1>2, <1>3, SubsetInduction
<1>. QED
  BY <1>4 DEF F, G

(* The sum of a constant *)
LEMMA SumOfConstant ==
    ASSUME NEW S, IsFiniteSet(S), NEW k \in Int
    PROVE  Sums([x \in S |-> k], S)[S] = k * Cardinality(S)
<1>. DEFINE f == [x \in S |-> k]
            F == Sums(f, S)
<1>1. f \in [S -> Int] /\ F \in [SUBSET S -> Int] /\ SumsBy(F, f, S)
  <2>1. f \in [S -> Int]
    OBVIOUS
  <2>. HIDE DEF f
  <2>. QED BY <2>1, SumsEquation
<1>. DEFINE P == {s \in SUBSET S : F[s] = k * Cardinality(s)}
<1>. HIDE DEF F
<1>2. {} \in P
  <2>1. F[{}] = 0 /\ Cardinality({}) = 0 /\ k * 0 = 0
    BY <1>1, SumOfNone, FS_EmptySet
  <2>. QED
    BY <2>1
<1>3. ASSUME NEW s \in SUBSET S, s # {}, s \ {First(s)} \in P PROVE s \in P
  <2>1. First(s) \in s /\ First(s) \in S /\ s \ {First(s)} \in SUBSET S
    BY <1>3, FirstIsOne
  <2>2. F[s] = k + F[s \ {First(s)}]
    <3>1. F[s] = f[First(s)] + F[s \ {First(s)}]
      <4>. HIDE DEF f
      <4>. QED BY <1>1, <1>3 DEF SumsBy
    <3>. QED
      BY <2>1, <3>1
  <2>3. PICK c \in Nat : c = Cardinality(s)
    BY FS_Subset, FS_CardinalityType
  <2>4. Cardinality(s \ {First(s)}) = c - 1
    BY <2>1, <2>3, FS_Subset, FS_RemoveElement
  <2>5. F[s] = k + k * (c - 1)
    BY <1>3, <2>2, <2>4
  <2>6. k + k * (c - 1) = k * c
    OBVIOUS
  <2>. QED
    BY <2>3, <2>5, <2>6
<1>4. SUBSET S \subseteq P
  <2>. HIDE DEF P
  <2>. QED BY <1>2, <1>3, SubsetInduction
<1>. QED
  BY <1>4 DEF F

(* The sums of the community modules are these. *)
LEMMA SumFunctionIsSum == ASSUME NEW f PROVE SumFunction(f) = Sums(f, DOMAIN f)[DOMAIN f]
BY DEF SumFunction, SumFunctionOnSet, FoldFunctionOnSet, MapThenFoldSet, Sums, First

LEMMA FoldedSum ==
    ASSUME NEW f
    PROVE  FoldFunction(LAMBDA n, sum : n + sum, 0, f) = Sums(f, DOMAIN f)[DOMAIN f]
BY DEF FoldFunction, FoldFunctionOnSet, MapThenFoldSet, Sums, First

=============================================================================
