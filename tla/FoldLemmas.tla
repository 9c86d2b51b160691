------------------------------ MODULE FoldLemmas ------------------------------
(***************************************************************************)
(* Lemmas about the folds and extrema that the models are built from:      *)
(* SumFunctionOnSet, FlattenSeq, Min and Max, and about parts of           *)
(* sequences.  Both folds are recursive functions, and nothing is known of *)
(* such a function before it is shown to exist.  The induction is on sets  *)
(* of numbers (NatSetInduction), from the well-foundedness of < on Nat.    *)
(***************************************************************************)
EXTENDS Integers, SequencesExt, FiniteSetTheorems, SequenceTheorems,
        WellFoundedInduction, TLAPS

\* A set with 0 and every successor of its numbers contains all of Nat.
LEMMA NatSetInduction ==
  ASSUME NEW S, 0 \in S, \A n \in Nat : n \in S => n + 1 \in S
  PROVE  Nat \subseteq S
  <1> DEFINE less == OpToRel(<, Nat)
             T == Nat \ S
  <1> SUFFICES ASSUME T # {} PROVE FALSE
    OBVIOUS
  <1>1. IsWellFoundedOn(less, Nat)
    BY NatLessThanWellFounded
  <1>2. T \subseteq Nat
    OBVIOUS
  <1> HIDE DEF less, T
  <1>3. PICK n \in T : \A m \in T : <<m, n>> \notin less
    BY <1>1, <1>2, WFMin
  <1>4. n \in Nat /\ n # 0 /\ n - 1 \in Nat
    BY <1>3 DEF T
  <1>5. <<n - 1, n>> \in less
    BY <1>4 DEF less, OpToRel
  <1>6. n - 1 \in S
    BY <1>3, <1>4, <1>5 DEF T
  <1>7. n \in S
    BY <1>4, <1>6
  <1> QED
    BY <1>3, <1>7 DEF T

\* A nonempty set of naturals has a least element, and Min returns it.
LEMMA MinOfNaturals ==
  ASSUME NEW S \in SUBSET Nat, S # {}
  PROVE  Min(S) \in S /\ \A y \in S : Min(S) <= y
  <1> DEFINE less == OpToRel(<, Nat)
  <1>1. IsWellFoundedOn(less, Nat)
    BY NatLessThanWellFounded
  <1> HIDE DEF less
  <1>2. PICK n \in S : \A m \in S : <<m, n>> \notin less
    BY <1>1, WFMin
  <1>3. \A m \in S : n <= m
    <2> TAKE m \in S
    <2>1. n \in Nat /\ m \in Nat /\ ~ (m < n)
      BY <1>2 DEF less, OpToRel
    <2> QED
      BY <2>1
  <1> QED
    BY <1>3 DEF Min

\* A nonempty set of naturals with a bound has a greatest element, and Max
\* returns it.
LEMMA MaxOfNaturals ==
  ASSUME NEW S \in SUBSET Nat, S # {}, NEW bound \in Nat, \A y \in S : y <= bound
  PROVE  Max(S) \in S /\ \A y \in S : Max(S) >= y
  <1> DEFINE T == {bound - y : y \in S}
  <1>1. T \in SUBSET Nat /\ T # {}
    <2>1. \A y \in S : bound - y \in Nat
      OBVIOUS
    <2> QED
      BY <2>1
  <1>2. Min(T) \in T /\ \A y \in T : Min(T) <= y
    BY <1>1, MinOfNaturals
  <1>3. PICK x \in S : Min(T) = bound - x
    BY <1>2
  <1>4. \A y \in S : x >= y
    <2> TAKE y \in S
    <2>1. bound - x <= bound - y
      BY <1>2, <1>3
    <2> QED
      BY <2>1
  <1> QED
    BY <1>4 DEF Max
------------------------------------------------------------------------------
(***************************************************************************)
(* Sequences, place by place                                               *)
(***************************************************************************)
\* s is a followed by b, place by place.
Joins(s, a, b) ==
    /\ Len(a) \in Nat /\ Len(b) \in Nat /\ Len(s) = Len(a) + Len(b)
    /\ \A i \in 1 .. Len(a) : s[i] = a[i]
    /\ \A i \in 1 .. Len(b) : s[Len(a) + i] = b[i]

\* That is what a concatenation is.
LEMMA ConcatPlaces ==
  ASSUME NEW U, NEW a \in Seq(U), NEW b \in Seq(U)
  PROVE  Joins(a \o b, a, b)
  BY DEF Joins

\* Equal concatenations with first parts of equal length have equal parts.
LEMMA EqualParts ==
  ASSUME NEW U, NEW a \in Seq(U), NEW b \in Seq(U), NEW c \in Seq(U), NEW d \in Seq(U),
         Len(a) = Len(c), a \o b = c \o d
  PROVE  a = c /\ b = d
  <1>1. Joins(a \o b, a, b)
    BY ConcatPlaces
  <1>2. Joins(a \o b, c, d)
    BY ConcatPlaces
  <1>3. Len(b) = Len(d)
    BY <1>1, <1>2 DEF Joins
  <1>4. \A i \in 1 .. Len(a) : a[i] = c[i]
    BY <1>1, <1>2 DEF Joins
  <1>5. \A i \in 1 .. Len(b) : b[i] = d[i]
    BY <1>1, <1>2, <1>3 DEF Joins
  <1> QED
    BY <1>3, <1>4, <1>5, SeqEqual

\* One token as a sequence.
LEMMA SingleToken ==
  ASSUME NEW U, NEW x \in U
  PROVE  <<x>> \in Seq(U) /\ Len(<<x>>) = 1 /\ <<x>>[1] = x
  OBVIOUS

\* What a part of a sequence is, place by place.
LEMMA PartPlaces ==
  ASSUME NEW U, NEW s \in Seq(U), NEW i \in Nat \ {0}, NEW j \in Nat, i <= j + 1, j <= Len(s)
  PROVE  /\ SubSeq(s, i, j) \in Seq(U)
         /\ Len(SubSeq(s, i, j)) = j - i + 1
         /\ \A k \in 1 .. j - i + 1 : SubSeq(s, i, j)[k] = s[i + k - 1]
  <1>1. Len(s) \in Nat /\ \A k \in 1 .. Len(s) : s[k] \in U
    BY LenProperties, ElementOfSeq
  <1>2. i \in Int /\ j \in Int /\ \A k \in i .. j : s[k] \in U
    BY <1>1
  <1>3. /\ SubSeq(s, i, j) \in Seq(U)
        /\ Len(SubSeq(s, i, j)) = IF i <= j THEN j - i + 1 ELSE 0
        /\ \A k \in 1 .. j - i + 1 : SubSeq(s, i, j)[k] = s[i + k - 1]
    BY <1>2, SubSeqProperties
  <1> QED
    BY <1>2, <1>3

\* One token of it.
LEMMA PartOfOne ==
  ASSUME NEW U, NEW s \in Seq(U), NEW i \in 1 .. Len(s)
  PROVE  SubSeq(s, i, i) = <<s[i]>>
  <1>1. Len(s) \in Nat /\ s[i] \in U
    BY LenProperties, ElementOfSeq
  <1>2. SubSeq(s, i, i) \in Seq(U) /\ Len(SubSeq(s, i, i)) = 1 /\ SubSeq(s, i, i)[1] = s[i]
    <2>1. i \in Nat \ {0} /\ i \in Nat /\ i <= i + 1 /\ i <= Len(s) /\ i - i + 1 = 1
          /\ 1 \in 1 .. i - i + 1 /\ i + 1 - 1 = i
      BY <1>1
    <2> QED
      BY <2>1, PartPlaces
  <1>3. <<s[i]>> \in Seq(U) /\ Len(<<s[i]>>) = 1 /\ <<s[i]>>[1] = s[i]
    BY <1>1, SingleToken
  <1>4. \A k \in 1 .. 1 : k = 1
    OBVIOUS
  <1> QED
    BY <1>2, <1>3, <1>4, SeqEqual

\* Equal windows of two sequences are equal parts.
LEMMA EqualWindows ==
  ASSUME NEW U, NEW s \in Seq(U), NEW t \in Seq(U),
         NEW i \in Nat \ {0}, NEW j \in Nat, i <= j + 1, j <= Len(s),
         NEW m \in Nat \ {0}, NEW n \in Nat, n - m = j - i, n <= Len(t),
         \A k \in i .. j : s[k] = t[k + (m - i)]
  PROVE  SubSeq(s, i, j) = SubSeq(t, m, n)
  <1>1. m <= n + 1 /\ n - m + 1 = j - i + 1
    OBVIOUS
  <1>2. /\ SubSeq(s, i, j) \in Seq(U)
        /\ Len(SubSeq(s, i, j)) = j - i + 1
        /\ \A k \in 1 .. j - i + 1 : SubSeq(s, i, j)[k] = s[i + k - 1]
    BY PartPlaces
  <1>3. /\ SubSeq(t, m, n) \in Seq(U)
        /\ Len(SubSeq(t, m, n)) = j - i + 1
        /\ \A k \in 1 .. j - i + 1 : SubSeq(t, m, n)[k] = t[m + k - 1]
    BY <1>1, PartPlaces
  <1>4. \A k \in 1 .. j - i + 1 : i + k - 1 \in i .. j /\ m + k - 1 = (i + k - 1) + (m - i)
    OBVIOUS
  <1>5. \A k \in 1 .. j - i + 1 : SubSeq(s, i, j)[k] = SubSeq(t, m, n)[k]
    BY <1>2, <1>3, <1>4
  <1> QED
    BY <1>2, <1>3, <1>5, SeqEqual
------------------------------------------------------------------------------
(***************************************************************************)
(* SumFunctionOnSet                                                        *)
(***************************************************************************)
Pick(S) == CHOOSE x \in S : TRUE

\* g is the table of the sums of f over the sets in SS.
SumTable(g, f, SS) ==
    g = [s \in SS |-> IF s = {} THEN 0 ELSE f[Pick(s)] + g[s \ {Pick(s)}]]

\* The sum over S is read from a table of all its subsets.
LEMMA SumFromTable ==
  ASSUME NEW f, NEW S
  PROVE  SumFunctionOnSet(f, S) = (CHOOSE g : SumTable(g, f, SUBSET S))[S]
  BY DEF SumFunctionOnSet, FoldFunctionOnSet, MapThenFoldSet, SumTable, Pick

\* There is such a table for every finite set: layer by layer, by the number of
\* elements of the subsets.
LEMMA SumTableExists ==
  ASSUME NEW f, NEW S, IsFiniteSet(S)
  PROVE  \E g : SumTable(g, f, SUBSET S)
  <1> DEFINE Layer(n) == {s \in SUBSET S : Cardinality(s) <= n}
             N == {n \in Nat : \E g : SumTable(g, f, Layer(n))}
  <1>0. \A s \in SUBSET S : IsFiniteSet(s) /\ Cardinality(s) \in Nat /\ Cardinality(s) <= Cardinality(S)
    BY FS_Subset, FS_CardinalityType
  <1>1. \A s \in SUBSET S : s # {} => /\ Pick(s) \in s
                                      /\ s \ {Pick(s)} \in SUBSET S
                                      /\ Cardinality(s \ {Pick(s)}) = Cardinality(s) - 1
    <2> SUFFICES ASSUME NEW s \in SUBSET S, s # {}
                 PROVE  Pick(s) \in s /\ Cardinality(s \ {Pick(s)}) = Cardinality(s) - 1
      OBVIOUS
    <2>1. Pick(s) \in s
      BY DEF Pick
    <2> QED
      BY <1>0, <2>1, FS_RemoveElement
  <1>2. 0 \in N
    <2>1. \A s \in Layer(0) : s = {}
      BY <1>0, FS_EmptySet
    <2> DEFINE g == [s \in Layer(0) |-> 0]
    <2>2. SumTable(g, f, Layer(0))
      BY <2>1 DEF SumTable
    <2> QED
      BY <2>2
  <1>3. ASSUME NEW n \in Nat, n \in N PROVE n + 1 \in N
    <2>1. PICK g : SumTable(g, f, Layer(n))
      BY <1>3
    <2> DEFINE h == [s \in Layer(n + 1) |->
                       IF s = {} THEN 0 ELSE f[Pick(s)] + g[s \ {Pick(s)}]]
    <2>2. ASSUME NEW s \in Layer(n) PROVE s \in Layer(n + 1) /\ h[s] = g[s]
      <3>1. s \in Layer(n + 1)
        BY <1>0
      <3>2. g[s] = IF s = {} THEN 0 ELSE f[Pick(s)] + g[s \ {Pick(s)}]
        BY <2>1 DEF SumTable
      <3> QED
        BY <3>1, <3>2
    <2>3. ASSUME NEW s \in Layer(n + 1), s # {} PROVE s \ {Pick(s)} \in Layer(n)
      BY <1>0, <1>1, <2>3
    <2> HIDE DEF Layer
    <2>4. h = [s \in Layer(n + 1) |-> IF s = {} THEN 0 ELSE f[Pick(s)] + h[s \ {Pick(s)}]]
      BY <2>2, <2>3
    <2>5. SumTable(h, f, Layer(n + 1))
      BY <2>4 DEF SumTable
    <2> QED
      BY <2>5
  <1>4. Cardinality(S) \in Nat /\ SUBSET S = Layer(Cardinality(S))
    BY <1>0, FS_CardinalityType
  <1> HIDE DEF N, Layer
  <1>5. Nat \subseteq N
    BY <1>2, <1>3, NatSetInduction
  <1>6. Cardinality(S) \in N
    BY <1>4, <1>5
  <1> QED
    BY <1>4, <1>6 DEF N

\* And only one.
LEMMA SumTableUnique ==
  ASSUME NEW f, NEW S, IsFiniteSet(S), NEW g, NEW h,
         SumTable(g, f, SUBSET S), SumTable(h, f, SUBSET S)
  PROVE  g = h
  <1> DEFINE N == {n \in Nat : \A s \in SUBSET S : Cardinality(s) = n => g[s] = h[s]}
  <1>0. \A s \in SUBSET S : IsFiniteSet(s) /\ Cardinality(s) \in Nat
    BY FS_Subset, FS_CardinalityType
  <1>1. \A s \in SUBSET S :
           /\ g[s] = IF s = {} THEN 0 ELSE f[Pick(s)] + g[s \ {Pick(s)}]
           /\ h[s] = IF s = {} THEN 0 ELSE f[Pick(s)] + h[s \ {Pick(s)}]
    BY DEF SumTable
  <1>2. 0 \in N
    BY <1>0, <1>1, FS_EmptySet
  <1>3. ASSUME NEW n \in Nat, n \in N PROVE n + 1 \in N
    <2> SUFFICES ASSUME NEW s \in SUBSET S, Cardinality(s) = n + 1 PROVE g[s] = h[s]
      OBVIOUS
    <2>1. s # {}
      BY FS_EmptySet
    <2>2. Pick(s) \in s
      BY <2>1 DEF Pick
    <2>3. Cardinality(s \ {Pick(s)}) = n
      BY <1>0, <2>2, FS_RemoveElement
    <2>4. g[s \ {Pick(s)}] = h[s \ {Pick(s)}]
      BY <1>3, <2>3
    <2> QED
      BY <1>1, <2>1, <2>4
  <1> HIDE DEF N
  <1>4. Nat \subseteq N
    BY <1>2, <1>3, NatSetInduction
  <1>5. \A s \in SUBSET S : g[s] = h[s]
    BY <1>0, <1>4 DEF N
  <1>6. g = [s \in SUBSET S |-> g[s]] /\ h = [s \in SUBSET S |-> h[s]]
    BY DEF SumTable
  <1> QED
    BY <1>5, <1>6

\* The sum over the empty set is 0; over another one it is the value at the
\* chosen element and the sum over the rest.
LEMMA SumUnfolds ==
  ASSUME NEW f, NEW S, IsFiniteSet(S)
  PROVE  /\ S = {} => SumFunctionOnSet(f, S) = 0
         /\ S # {} => /\ Pick(S) \in S
                      /\ SumFunctionOnSet(f, S) =
                            f[Pick(S)] + SumFunctionOnSet(f, S \ {Pick(S)})
  <1> DEFINE G == CHOOSE g : SumTable(g, f, SUBSET S)
             T == S \ {Pick(S)}
             H == CHOOSE g : SumTable(g, f, SUBSET T)
             R == [s \in SUBSET T |-> G[s]]
  <1>1. SumTable(G, f, SUBSET S)
    BY SumTableExists
  <1>2. SumTable(H, f, SUBSET T)
    BY SumTableExists, FS_Subset
  <1>3. SumFunctionOnSet(f, S) = G[S] /\ SumFunctionOnSet(f, T) = H[T]
    BY SumFromTable
  <1> HIDE DEF G, H
  <1>4. \A s \in SUBSET S : G[s] = IF s = {} THEN 0 ELSE f[Pick(s)] + G[s \ {Pick(s)}]
    BY <1>1 DEF SumTable
  <1>5. SumTable(R, f, SUBSET T)
    BY <1>4 DEF SumTable
  <1>6. R = H
    BY <1>2, <1>5, SumTableUnique, FS_Subset
  <1>7. G[T] = H[T]
    BY <1>6
  <1> QED
    BY <1>3, <1>4, <1>7 DEF Pick

\* Removing an element takes one off the cardinality.  (Finite sets only.)
LEMMA SizeWithout ==
  ASSUME NEW S, IsFiniteSet(S), NEW x \in S, NEW n \in Nat, Cardinality(S) = n + 1
  PROVE  IsFiniteSet(S \ {x}) /\ Cardinality(S \ {x}) = n
  BY FS_RemoveElement

\* A sum of naturals is a natural, a sum of integers an integer.
LEMMA SumType ==
  ASSUME NEW f, NEW S, IsFiniteSet(S), NEW Num \in {Nat, Int}, \A x \in S : f[x] \in Num
  PROVE  SumFunctionOnSet(f, S) \in Num
  <1> DEFINE N == {n \in Nat : \A s \in SUBSET S :
                     Cardinality(s) = n => SumFunctionOnSet(f, s) \in Num}
  <1>0. \A s \in SUBSET S : IsFiniteSet(s) /\ Cardinality(s) \in Nat
    BY FS_Subset, FS_CardinalityType
  <1>1. 0 \in N
    <2>1. SumFunctionOnSet(f, {}) = 0
      BY FS_EmptySet, SumUnfolds
    <2>2. 0 \in Num
      OBVIOUS
    <2>3. \A s \in SUBSET S : Cardinality(s) = 0 => s = {}
      BY <1>0, FS_EmptySet
    <2> QED
      BY <2>1, <2>2, <2>3
  <1>2. ASSUME NEW n \in Nat, n \in N PROVE n + 1 \in N
    <2> SUFFICES ASSUME NEW s \in SUBSET S, Cardinality(s) = n + 1
                 PROVE  SumFunctionOnSet(f, s) \in Num
      OBVIOUS
    <2>1. s # {}
      BY FS_EmptySet
    <2>2. /\ Pick(s) \in s
          /\ SumFunctionOnSet(f, s) = f[Pick(s)] + SumFunctionOnSet(f, s \ {Pick(s)})
      BY <1>0, <2>1, SumUnfolds
    <2>3. Cardinality(s \ {Pick(s)}) = n
      BY <1>0, <2>2, SizeWithout
    <2>4. SumFunctionOnSet(f, s \ {Pick(s)}) \in Num
      BY <1>2, <2>3
    <2> QED
      BY <2>2, <2>4
  <1> HIDE DEF N
  <1>3. Nat \subseteq N
    BY <1>1, <1>2, NatSetInduction
  <1> QED
    BY <1>0, <1>3 DEF N

\* Any element of the set may be taken out of the sum first.
LEMMA SumSplits ==
  ASSUME NEW f, NEW S, IsFiniteSet(S), \A x \in S : f[x] \in Int, NEW a \in S
  PROVE  SumFunctionOnSet(f, S) = f[a] + SumFunctionOnSet(f, S \ {a})
  <1> DEFINE N == {n \in Nat : \A s \in SUBSET S : Cardinality(s) = n =>
                     \A x \in s : SumFunctionOnSet(f, s) = f[x] + SumFunctionOnSet(f, s \ {x})}
  <1>0. \A s \in SUBSET S : /\ IsFiniteSet(s) /\ Cardinality(s) \in Nat
                           /\ SumFunctionOnSet(f, s) \in Int
    BY FS_Subset, FS_CardinalityType, SumType
  <1>1. 0 \in N
    BY <1>0, FS_EmptySet
  <1>2. ASSUME NEW n \in Nat, n \in N PROVE n + 1 \in N
    <2> SUFFICES ASSUME NEW s \in SUBSET S, Cardinality(s) = n + 1, NEW x \in s
                 PROVE  SumFunctionOnSet(f, s) = f[x] + SumFunctionOnSet(f, s \ {x})
      OBVIOUS
    <2> DEFINE y == Pick(s)
    <2>2. /\ y \in s
          /\ SumFunctionOnSet(f, s) = f[y] + SumFunctionOnSet(f, s \ {y})
      BY <1>0, SumUnfolds
    <2> HIDE DEF y
    <2>3. CASE x = y
      BY <2>2, <2>3
    <2>4. CASE x # y
      <3>1. Cardinality(s \ {x}) = n /\ Cardinality(s \ {y}) = n
        BY <1>0, <2>2, SizeWithout
      <3>2. SumFunctionOnSet(f, s \ {x}) = f[y] + SumFunctionOnSet(f, (s \ {x}) \ {y})
        BY <1>2, <2>2, <2>4, <3>1
      <3>3. SumFunctionOnSet(f, s \ {y}) = f[x] + SumFunctionOnSet(f, (s \ {y}) \ {x})
        BY <1>2, <2>2, <2>4, <3>1
      <3>4. (s \ {x}) \ {y} = (s \ {y}) \ {x}
        OBVIOUS
      <3>5. SumFunctionOnSet(f, (s \ {x}) \ {y}) \in Int /\ f[x] \in Int /\ f[y] \in Int
        BY <1>0, <2>2
      <3> DEFINE rest == SumFunctionOnSet(f, (s \ {x}) \ {y})
      <3>6. /\ SumFunctionOnSet(f, s \ {x}) = f[y] + rest
            /\ SumFunctionOnSet(f, s \ {y}) = f[x] + rest
        BY <3>2, <3>3, <3>4
      <3>7. rest \in Int
        BY <3>5
      <3> HIDE DEF rest
      <3> QED
        BY <2>2, <3>5, <3>6, <3>7
    <2> QED
      BY <2>3, <2>4
  <1> HIDE DEF N
  <1>3. Nat \subseteq N
    BY <1>1, <1>2, NatSetInduction
  <1> QED
    BY <1>0, <1>3 DEF N

\* The sum depends on the values at the elements of the set only.
LEMMA SumAgrees ==
  ASSUME NEW f, NEW g, NEW S, IsFiniteSet(S), \A x \in S : f[x] = g[x]
  PROVE  SumFunctionOnSet(f, S) = SumFunctionOnSet(g, S)
  <1> DEFINE N == {n \in Nat : \A s \in SUBSET S :
                     Cardinality(s) = n => SumFunctionOnSet(f, s) = SumFunctionOnSet(g, s)}
  <1>0. \A s \in SUBSET S : IsFiniteSet(s) /\ Cardinality(s) \in Nat
    BY FS_Subset, FS_CardinalityType
  <1>1. 0 \in N
    BY <1>0, FS_EmptySet, SumUnfolds
  <1>2. ASSUME NEW n \in Nat, n \in N PROVE n + 1 \in N
    <2> SUFFICES ASSUME NEW s \in SUBSET S, Cardinality(s) = n + 1
                 PROVE  SumFunctionOnSet(f, s) = SumFunctionOnSet(g, s)
      OBVIOUS
    <2>1. s # {}
      BY FS_EmptySet
    <2>2. /\ Pick(s) \in s
          /\ SumFunctionOnSet(f, s) = f[Pick(s)] + SumFunctionOnSet(f, s \ {Pick(s)})
          /\ SumFunctionOnSet(g, s) = g[Pick(s)] + SumFunctionOnSet(g, s \ {Pick(s)})
      BY <1>0, <2>1, SumUnfolds
    <2>3. Cardinality(s \ {Pick(s)}) = n
      BY <1>0, <2>2, SizeWithout
    <2>4. SumFunctionOnSet(f, s \ {Pick(s)}) = SumFunctionOnSet(g, s \ {Pick(s)})
      BY <1>2, <2>3
    <2> QED
      BY <2>2, <2>4
  <1> HIDE DEF N
  <1>3. Nat \subseteq N
    BY <1>1, <1>2, NatSetInduction
  <1> QED
    BY <1>0, <1>3 DEF N

\* A sum of naturals is at least each of them.
LEMMA SumCoversElement ==
  ASSUME NEW f, NEW S, IsFiniteSet(S), \A x \in S : f[x] \in Nat, NEW a \in S
  PROVE  f[a] <= SumFunctionOnSet(f, S)
  <1>1. SumFunctionOnSet(f, S) = f[a] + SumFunctionOnSet(f, S \ {a})
    BY SumSplits
  <1>2. SumFunctionOnSet(f, S \ {a}) \in Nat
    BY FS_RemoveElement, SumType
  <1> QED
    BY <1>1, <1>2

\* Two functions that differ at one element have sums that differ by as much.
LEMMA SumWithOneChange ==
  ASSUME NEW f, NEW g, NEW S, IsFiniteSet(S), NEW a \in S,
         \A x \in S : f[x] \in Int /\ g[x] \in Int,
         \A x \in S \ {a} : f[x] = g[x]
  PROVE  SumFunctionOnSet(g, S) - SumFunctionOnSet(f, S) = g[a] - f[a]
  <1>1. /\ SumFunctionOnSet(f, S) = f[a] + SumFunctionOnSet(f, S \ {a})
        /\ SumFunctionOnSet(g, S) = g[a] + SumFunctionOnSet(g, S \ {a})
    BY SumSplits
  <1>2. IsFiniteSet(S \ {a})
    BY FS_RemoveElement
  <1>3. SumFunctionOnSet(f, S \ {a}) = SumFunctionOnSet(g, S \ {a})
    BY <1>2, SumAgrees
  <1>4. SumFunctionOnSet(f, S \ {a}) \in Int
    BY <1>2, SumType
  <1> QED
    BY <1>1, <1>3, <1>4
------------------------------------------------------------------------------
(***************************************************************************)
(* FlattenSeq                                                              *)
(***************************************************************************)
\* A name for concatenation, so that the inductions do not look into it.
Joined(s, t) == s \o t

\* g is the table of the concatenations of the first 1, 2, ..., n of seqs.
FlatTable(g, seqs, n) ==
    g = [i \in 1 .. n |-> IF i = 1 THEN seqs[i] ELSE Joined(g[i - 1], seqs[i])]

\* What FlattenSeq reads from the table.
LEMMA FlattenFromTable ==
  ASSUME NEW seqs, Len(seqs) # 0
  PROVE  FlattenSeq(seqs) = (CHOOSE g : FlatTable(g, seqs, Len(seqs)))[Len(seqs)]
  BY DEF FlattenSeq, FlatTable, Joined

\* There is a table of every length.
LEMMA FlatTableExists ==
  ASSUME NEW seqs, NEW n \in Nat
  PROVE  \E g : FlatTable(g, seqs, n)
  <1> DEFINE N == {m \in Nat : \E g : FlatTable(g, seqs, m)}
  <1>1. 0 \in N
    <2> DEFINE g == [i \in 1 .. 0 |-> seqs]
    <2>1. FlatTable(g, seqs, 0)
      BY DEF FlatTable
    <2> QED
      BY <2>1
  <1>2. ASSUME NEW m \in Nat, m \in N PROVE m + 1 \in N
    <2>1. PICK g : FlatTable(g, seqs, m)
      BY <1>2
    <2> DEFINE h == [i \in 1 .. m + 1 |-> IF i = 1 THEN seqs[i] ELSE Joined(g[i - 1], seqs[i])]
    <2>2. \A i \in 1 .. m : h[i] = g[i]
      BY <2>1 DEF FlatTable
    <2>3. \A i \in 1 .. m + 1 : i # 1 => i - 1 \in 1 .. m
      OBVIOUS
    <2>4. h = [i \in 1 .. m + 1 |-> IF i = 1 THEN seqs[i] ELSE Joined(h[i - 1], seqs[i])]
      BY <2>2, <2>3
    <2>5. FlatTable(h, seqs, m + 1)
      BY <2>4 DEF FlatTable
    <2> QED
      BY <2>5
  <1> HIDE DEF N
  <1>3. Nat \subseteq N
    BY <1>1, <1>2, NatSetInduction
  <1> QED
    BY <1>3 DEF N

\* Tables of sequences that agree have the same entries.
LEMMA FlatTablesAgree ==
  ASSUME NEW seqs, NEW others, NEW n \in Nat, NEW m \in n .. n + 1,
         \A i \in 1 .. n : seqs[i] = others[i],
         NEW g, FlatTable(g, seqs, n), NEW h, FlatTable(h, others, m)
  PROVE  \A i \in 1 .. n : g[i] = h[i]
  <1> DEFINE N == {k \in Nat : k + 1 \in 1 .. n => g[k + 1] = h[k + 1]}
  <1>1. \A i \in 1 .. n : /\ g[i] = IF i = 1 THEN seqs[i] ELSE Joined(g[i - 1], seqs[i])
                         /\ h[i] = IF i = 1 THEN others[i] ELSE Joined(h[i - 1], others[i])
    BY DEF FlatTable
  <1>2. 0 \in N
    BY <1>1
  <1>3. ASSUME NEW k \in Nat, k \in N PROVE k + 1 \in N
    <2> SUFFICES ASSUME k + 2 \in 1 .. n PROVE g[k + 2] = h[k + 2]
      OBVIOUS
    <2>1. g[k + 1] = h[k + 1]
      BY <1>3
    <2>2. k + 2 # 1 /\ (k + 2) - 1 = k + 1
      OBVIOUS
    <2> QED
      BY <1>1, <2>1, <2>2
  <1> HIDE DEF N
  <1>4. Nat \subseteq N
    BY <1>2, <1>3, NatSetInduction
  <1> SUFFICES ASSUME NEW i \in 1 .. n PROVE g[i] = h[i]
    OBVIOUS
  <1>5. i - 1 \in N /\ (i - 1) + 1 = i
    BY <1>4
  <1> QED
    BY <1>5 DEF N

\* The front of a sequence has its elements but the last.
LEMMA FrontLast ==
  ASSUME NEW U, NEW s \in Seq(U), s # <<>>
  PROVE  /\ Len(s) \in Nat \ {0} /\ Last(s) = s[Len(s)] /\ Last(s) \in U
         /\ Front(s) \in Seq(U) /\ Len(Front(s)) = Len(s) - 1
         /\ \A i \in 1 .. Len(s) - 1 : Front(s)[i] = s[i]
  <1>1. Len(s) \in Nat \ {0}
    BY EmptySeq
  <1>2. s[Len(s)] \in U /\ \A i \in 1 .. Len(s) - 1 : s[i] \in U
    BY <1>1, ElementOfSeq
  <1>3. /\ SubSeq(s, 1, Len(s) - 1) \in Seq(U)
        /\ Len(SubSeq(s, 1, Len(s) - 1)) = Len(s) - 1
        /\ \A i \in 1 .. Len(s) - 1 : SubSeq(s, 1, Len(s) - 1)[i] = s[i]
    <2> DEFINE m == Len(s) - 1
    <2>1. 1 \in Int /\ m \in Int /\ m \in Nat /\ \A i \in 1 .. m : s[i] \in U
      BY <1>1, <1>2
    <2> HIDE DEF m
    <2>2. /\ SubSeq(s, 1, m) \in Seq(U)
          /\ Len(SubSeq(s, 1, m)) = IF 1 <= m THEN m - 1 + 1 ELSE 0
          /\ \A i \in 1 .. m - 1 + 1 : SubSeq(s, 1, m)[i] = s[1 + i - 1]
      BY <2>1, SubSeqProperties
    <2>3. Len(SubSeq(s, 1, m)) = m /\ \A i \in 1 .. m : SubSeq(s, 1, m)[i] = s[i]
      BY <2>1, <2>2
    <2> QED
      BY <2>2, <2>3 DEF m
  <1> QED
    BY <1>1, <1>2, <1>3 DEF Front, Last

\* What a longer table adds to a shorter one.
LEMMA FlatTableSteps ==
  ASSUME NEW seqs, NEW others, NEW k \in Nat \ {0}, \A i \in 1 .. k : others[i] = seqs[i],
         NEW G, FlatTable(G, seqs, k + 1), NEW H, FlatTable(H, others, k)
  PROVE  G[k + 1] = Joined(H[k], seqs[k + 1])
  <1>1. k + 1 \in k .. k + 1 /\ k \in 1 .. k /\ k + 1 \in 1 .. k + 1 /\ k + 1 # 1 /\ (k + 1) - 1 = k
    OBVIOUS
  <1>2. G[k + 1] = Joined(G[k], seqs[k + 1])
    BY <1>1 DEF FlatTable
  <1>3. \A i \in 1 .. k : H[i] = G[i]
    BY <1>1, FlatTablesAgree
  <1> QED
    BY <1>1, <1>2, <1>3

\* The last of two or more sequences comes last.
LEMMA FlattenSteps ==
  ASSUME NEW seqs, NEW others, NEW k \in Nat \ {0}, Len(others) = k, Len(seqs) = k + 1,
         \A i \in 1 .. k : others[i] = seqs[i]
  PROVE  FlattenSeq(seqs) = Joined(FlattenSeq(others), seqs[k + 1])
  <1> DEFINE G == CHOOSE g : FlatTable(g, seqs, k + 1)
             H == CHOOSE g : FlatTable(g, others, k)
  <1>1. FlattenSeq(seqs) = G[k + 1] /\ FlattenSeq(others) = H[k]
    BY FlattenFromTable
  <1>2. FlatTable(G, seqs, k + 1) /\ FlatTable(H, others, k)
    <2>1. k \in Nat /\ k + 1 \in Nat
      OBVIOUS
    <2>2. (\E g : FlatTable(g, seqs, k + 1)) /\ (\E g : FlatTable(g, others, k))
      BY <2>1, FlatTableExists, Zenon
    <2> QED
      BY <2>2
  <1> HIDE DEF G, H
  <1> QED
    BY <1>1, <1>2, FlatTableSteps

\* The last of the sequences comes last.
LEMMA FlattenUnfolds ==
  ASSUME NEW T, NEW seqs \in Seq(Seq(T)), seqs # <<>>
  PROVE  FlattenSeq(seqs) = FlattenSeq(Front(seqs)) \o Last(seqs)
  <1> DEFINE k == Len(seqs) - 1
  <1>1. /\ k \in Nat /\ Len(seqs) = k + 1 /\ Last(seqs) = seqs[k + 1]
        /\ Last(seqs) \in Seq(T) /\ Len(Front(seqs)) = k
        /\ Front(seqs) \in Seq(Seq(T))
        /\ \A i \in 1 .. k : Front(seqs)[i] = seqs[i]
    <2> DEFINE U == Seq(T)
    <2>1. seqs \in Seq(U)
      OBVIOUS
    <2> HIDE DEF U
    <2>2. /\ Len(seqs) \in Nat \ {0} /\ Last(seqs) = seqs[Len(seqs)] /\ Last(seqs) \in U
          /\ Front(seqs) \in Seq(U) /\ Len(Front(seqs)) = Len(seqs) - 1
          /\ \A i \in 1 .. Len(seqs) - 1 : Front(seqs)[i] = seqs[i]
      BY <2>1, FrontLast
    <2> QED
      BY <2>2 DEF U
  <1> HIDE DEF k
  <1>2. CASE k = 0
    <2>1. Front(seqs) = <<>>
      BY <1>1, <1>2, EmptySeq
    <2>2. FlattenSeq(Front(seqs)) = Front(seqs)
      BY <1>1, <1>2 DEF FlattenSeq
    <2>3. FlattenSeq(seqs) = Last(seqs)
      <3> DEFINE G == CHOOSE g : FlatTable(g, seqs, 1)
      <3>1. FlattenSeq(seqs) = G[1]
        BY <1>1, <1>2, FlattenFromTable
      <3>2. FlatTable(G, seqs, 1)
        BY FlatTableExists
      <3> HIDE DEF G
      <3>3. G[1] = seqs[1]
        BY <3>2 DEF FlatTable
      <3> QED
        BY <1>1, <1>2, <3>1, <3>3
    <2>4. <<>> \o Last(seqs) = Last(seqs)
      BY <1>1, ConcatEmptySeq
    <2> QED
      BY <2>1, <2>2, <2>3, <2>4
  <1>3. CASE k # 0
    <2>1. FlattenSeq(seqs) = Joined(FlattenSeq(Front(seqs)), seqs[k + 1])
      BY <1>1, <1>3, FlattenSteps
    <2> QED
      BY <1>1, <2>1 DEF Joined
  <1> QED
    BY <1>2, <1>3

\* Flattening sequences over T gives a sequence over T.
LEMMA FlattenType ==
  ASSUME NEW T, NEW seqs \in Seq(Seq(T))
  PROVE  FlattenSeq(seqs) \in Seq(T)
  <1> DEFINE U == Seq(T)
             N == {n \in Nat : \A s \in Seq(U) : Len(s) = n => FlattenSeq(s) \in U}
  <1>1. 0 \in N
    <2> SUFFICES ASSUME NEW s \in Seq(U), Len(s) = 0 PROVE FlattenSeq(s) \in U
      OBVIOUS
    <2>1. s = <<>> /\ <<>> \in U
      BY EmptySeq
    <2>2. FlattenSeq(s) = s
      BY DEF FlattenSeq
    <2> QED
      BY <2>1, <2>2
  <1>2. ASSUME NEW n \in Nat, n \in N PROVE n + 1 \in N
    <2> SUFFICES ASSUME NEW s \in Seq(U), Len(s) = n + 1 PROVE FlattenSeq(s) \in U
      OBVIOUS
    <2>1. s # <<>>
      BY EmptySeq
    <2> HIDE DEF U
    <2>2. Front(s) \in Seq(U) /\ Len(Front(s)) = Len(s) - 1 /\ Last(s) \in U
      BY <2>1, FrontLast
    <2>3. Len(Front(s)) = n
      BY <2>2
    <2>4. FlattenSeq(Front(s)) \in U
      BY <1>2, <2>2, <2>3
    <2> USE DEF U
    <2>5. FlattenSeq(Front(s)) \o Last(s) \in U
      BY <2>2, <2>4, ConcatProperties
    <2> QED
      BY <2>1, <2>5, FlattenUnfolds
  <1> HIDE DEF N
  <1>3. Nat \subseteq N
    BY <1>1, <1>2, NatSetInduction
  <1>4. Len(seqs) \in N
    BY <1>3, LenProperties
  <1> QED
    BY <1>4 DEF N

\* s has every element of every one of its sequences in the flattened one.
Covered(s) ==
    \A i \in 1 .. Len(s) : \A k \in 1 .. Len(s[i]) :
        \E c \in 1 .. Len(FlattenSeq(s)) : FlattenSeq(s)[c] = s[i][k]

\* One more sequence changes nothing about that.
LEMMA OneMoreCovered ==
  ASSUME NEW T, NEW s \in Seq(Seq(T)), s # <<>>, Covered(Front(s))
  PROVE  Covered(s)
  <1> DEFINE U == Seq(T)
             f == Front(s)
             l == Last(s)
             n == Len(s) - 1
             F == FlattenSeq(f)
  <1>1. F \in U
    <2>1. f \in Seq(U)
      <3>1. s \in Seq(U)
        OBVIOUS
      <3> HIDE DEF U
      <3> QED
        BY <3>1, FrontLast
    <2> QED
      BY <2>1, FlattenType
  <1>2. FlattenSeq(s) = F \o l
    BY FlattenUnfolds
  <1>3. /\ Len(s) \in Nat \ {0} /\ l = s[Len(s)] /\ l \in U
        /\ Len(f) = Len(s) - 1 /\ \A x \in 1 .. Len(s) - 1 : f[x] = s[x]
    <2>1. s \in Seq(U)
      OBVIOUS
    <2> HIDE DEF U
    <2> QED
      BY <2>1, FrontLast
  <1>4. n \in Nat /\ Len(s) = n + 1 /\ l = s[n + 1] /\ Len(f) = n /\ \A x \in 1 .. n : f[x] = s[x]
    BY <1>3
  <1> HIDE DEF F, l, n, f
  <1>5. Joins(FlattenSeq(s), F, l)
    BY <1>1, <1>2, <1>3, ConcatPlaces
  <1> SUFFICES ASSUME NEW i \in 1 .. Len(s), NEW k \in 1 .. Len(s[i])
               PROVE  \E c \in 1 .. Len(FlattenSeq(s)) : FlattenSeq(s)[c] = s[i][k]
    BY DEF Covered
  <1>6. CASE i = n + 1
    <2>1. k \in 1 .. Len(l) /\ s[i][k] = l[k]
      BY <1>4, <1>6
    <2>2. Len(F) + k \in 1 .. Len(FlattenSeq(s)) /\ FlattenSeq(s)[Len(F) + k] = l[k]
      BY <1>5, <2>1 DEF Joins
    <2> QED
      BY <2>1, <2>2
  <1>7. CASE i # n + 1
    <2>1. i \in 1 .. n
      BY <1>4, <1>7
    <2>2. i \in 1 .. Len(f) /\ f[i] = s[i]
      BY <1>4, <2>1
    <2>3. PICK c \in 1 .. Len(F) : F[c] = s[i][k]
      BY <2>2 DEF Covered, F, f
    <2>4. c \in 1 .. Len(FlattenSeq(s)) /\ FlattenSeq(s)[c] = F[c]
      BY <1>5 DEF Joins
    <2> QED
      BY <2>3, <2>4
  <1> QED
    BY <1>6, <1>7

\* Every element of every sequence is in the flattened one.
LEMMA FlattenCovers ==
  ASSUME NEW T, NEW seqs \in Seq(Seq(T)), NEW a \in 1 .. Len(seqs), NEW b \in 1 .. Len(seqs[a])
  PROVE  \E c \in 1 .. Len(FlattenSeq(seqs)) : FlattenSeq(seqs)[c] = seqs[a][b]
  <1> DEFINE U == Seq(T)
             N == {n \in Nat : \A s \in Seq(U) : Len(s) = n => Covered(s)}
  <1>1. 0 \in N
    BY DEF Covered
  <1>2. ASSUME NEW n \in Nat, n \in N PROVE n + 1 \in N
    <2> SUFFICES ASSUME NEW s \in Seq(U), Len(s) = n + 1 PROVE Covered(s)
      OBVIOUS
    <2>1. s # <<>>
      BY EmptySeq
    <2> HIDE DEF U
    <2>2. Front(s) \in Seq(U) /\ Len(Front(s)) = Len(s) - 1
      BY <2>1, FrontLast
    <2>3. Covered(Front(s))
      BY <1>2, <2>2
    <2> QED
      BY <2>1, <2>3, OneMoreCovered DEF U
  <1> HIDE DEF N
  <1>3. Nat \subseteq N
    BY <1>1, <1>2, NatSetInduction
  <1>4. Len(seqs) \in N
    BY <1>3, LenProperties
  <1>5. Covered(seqs)
    BY <1>4 DEF N
  <1> QED
    BY <1>5 DEF Covered
==============================================================================
