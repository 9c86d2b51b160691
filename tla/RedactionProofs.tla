--------------------------- MODULE RedactionProofs ---------------------------
(***************************************************************************)
(* What redact_pii does to every text: how a pass relates its result to    *)
(* the text before it, when two parts of a text are redacted independently *)
(* of each other, and what remains after the last pass.                    *)
(***************************************************************************)
EXTENDS Redaction, FoldLemmas

Kinds == ToSet(Passes)
WordLike == Runs \cup Words \cup Domains

\* The five placeholders, none of them a run, a word or a domain.
LEMMA KindsAre ==
  /\ Kinds = {"[EMAIL]", "[SSN]", "[CREDIT_CARD]", "[PHONE]", "[IP_ADDRESS]"}
  /\ Kinds \cap WordLike = {}
  <1>1. Kinds = {"[EMAIL]", "[SSN]", "[CREDIT_CARD]", "[PHONE]", "[IP_ADDRESS]"}
    <2>1. DOMAIN Passes = 1 .. 5
      BY DEF Passes
    <2>2. /\ Passes[1] = "[EMAIL]" /\ Passes[2] = "[SSN]" /\ Passes[3] = "[CREDIT_CARD]"
          /\ Passes[4] = "[PHONE]" /\ Passes[5] = "[IP_ADDRESS]"
      BY DEF Passes
    <2>3. 1 .. 5 = {1, 2, 3, 4, 5}
      OBVIOUS
    <2> QED
      BY <2>1, <2>2, <2>3 DEF Kinds, ToSet
  <1>2. Kinds \cap WordLike = {}
    BY PlaceholderAssumption DEF PlaceholderAssumption, Kinds, WordLike
  <1> QED
    BY <1>1, <1>2

(***************************************************************************)
(* The scan                                                                *)
(***************************************************************************)
\* From n + 1 down to 1.
LEMMA DownwardInduction ==
  ASSUME NEW n \in Nat, NEW S, n + 1 \in S,
         \A i \in 1 .. n : (\A k \in i + 1 .. n + 1 : k \in S) => i \in S
  PROVE  1 .. n + 1 \subseteq S
  <1> DEFINE N == {m \in Nat : \A k \in 1 .. n + 1 : n + 1 - k <= m => k \in S}
  <1>1. 0 \in N
    BY SMT
  <1>2. ASSUME NEW m \in Nat, m \in N PROVE m + 1 \in N
    <2> SUFFICES ASSUME NEW k \in 1 .. n + 1, n + 1 - k <= m + 1 PROVE k \in S
      OBVIOUS
    <2>1. CASE k = n + 1
      BY <2>1
    <2>2. CASE k # n + 1
      <3>1. k \in 1 .. n
        BY <2>2
      <3>2. \A l \in k + 1 .. n + 1 : l \in 1 .. n + 1 /\ n + 1 - l <= m
        OBVIOUS
      <3>3. \A l \in k + 1 .. n + 1 : l \in S
        BY <1>2, <3>2
      <3> QED
        BY <3>1, <3>3
    <2> QED
      BY <2>1, <2>2
  <1> HIDE DEF N
  <1>3. Nat \subseteq N
    BY <1>1, <1>2, NatSetInduction
  <1>4. n \in N
    BY <1>3
  <1> QED
    BY <1>4 DEF N

\* The last token that the scan takes at token i, and what it puts out for it.
Taken(kind, text, i) ==
    IF Ends(kind, text, i) = {} THEN i ELSE Max(Ends(kind, text, i))
Emits(kind, text, i) ==
    IF Ends(kind, text, i) = {} THEN <<text[i]>>
    ELSE IF Redacts(kind, SubSeq(text, i, Max(Ends(kind, text, i)))) THEN <<kind>>
    ELSE SubSeq(text, i, Max(Ends(kind, text, i)))

\* g is what becomes of the text from each token on, from token m to the end.
PartTable(g, kind, text, m) ==
    g = [i \in m .. Len(text) + 1 |->
            IF i > Len(text) THEN <<>>
            ELSE Joined(Emits(kind, text, i), g[Taken(kind, text, i) + 1])]

\* As Sub defines it.
Table(g, kind, text) ==
    g = [i \in 1 .. Len(text) + 1 |->
            IF i > Len(text) THEN <<>>
            ELSE IF Ends(kind, text, i) = {} THEN <<text[i]>> \o g[i + 1]
            ELSE (IF Redacts(kind, SubSeq(text, i, Max(Ends(kind, text, i))))
                  THEN <<kind>> ELSE SubSeq(text, i, Max(Ends(kind, text, i))))
                 \o g[Max(Ends(kind, text, i)) + 1]]

Scan(kind, text) == CHOOSE g : Table(g, kind, text)

\* Sub is what becomes of the text from its first token on.
LEMMA SubIsScan ==
  ASSUME NEW kind, NEW text
  PROVE  Sub(kind, text) = Scan(kind, text)[1]
  BY DEF Sub, Scan, Table

\* The two forms of the table are the same.
LEMMA TableForms ==
  ASSUME NEW g, NEW kind, NEW text
  PROVE  Table(g, kind, text) <=> PartTable(g, kind, text, 1)
  <1> DEFINE t == [i \in 1 .. Len(text) + 1 |->
            IF i > Len(text) THEN <<>>
            ELSE IF Ends(kind, text, i) = {} THEN <<text[i]>> \o g[i + 1]
            ELSE (IF Redacts(kind, SubSeq(text, i, Max(Ends(kind, text, i))))
                  THEN <<kind>> ELSE SubSeq(text, i, Max(Ends(kind, text, i))))
                 \o g[Max(Ends(kind, text, i)) + 1]]
             p == [i \in 1 .. Len(text) + 1 |->
            IF i > Len(text) THEN <<>>
            ELSE Joined(Emits(kind, text, i), g[Taken(kind, text, i) + 1])]
  <1>1. ASSUME NEW i \in 1 .. Len(text) + 1 PROVE t[i] = p[i]
    BY DEF Joined, Emits, Taken
  <1>2. t = p
    BY <1>1
  <1> QED
    BY <1>2 DEF Table, PartTable

\* A match lies within the text, so that the longest one can be taken.
LEMMA EndsWithin ==
  ASSUME NEW T, NEW text \in Seq(T), NEW kind \in Kinds, NEW i \in 1 .. Len(text)
  PROVE  Ends(kind, text, i) \in SUBSET (i .. Len(text))
  <1>1. Len(text) \in Nat /\ DOMAIN text = 1 .. Len(text)
    BY LenProperties
  <1>2. EmailEnds(text, i) \in SUBSET (i .. Len(text))
    BY <1>1 DEF EmailEnds
  <1>3. SsnEnds(text, i) \in SUBSET (i .. Len(text))
    BY <1>1 DEF SsnEnds
  <1>4. CardEnds(text, i) \in SUBSET (i .. Len(text))
    BY <1>1 DEF CardEnds
  <1>5. PhoneEnds(text, i) \in SUBSET (i .. Len(text))
    BY <1>1 DEF PhoneEnds
  <1>6. Ipv4Ends(text, i) \in SUBSET (i .. Len(text))
    BY <1>1 DEF Ipv4Ends
  <1> QED
    BY <1>2, <1>3, <1>4, <1>5, <1>6, KindsAre DEF Ends

\* The scan takes the token it is at, or the longest match there.
LEMMA TakenWithin ==
  ASSUME NEW T, NEW text \in Seq(T), NEW kind \in Kinds, NEW i \in 1 .. Len(text)
  PROVE  /\ Taken(kind, text, i) \in i .. Len(text)
         /\ Ends(kind, text, i) # {} =>
              /\ Max(Ends(kind, text, i)) = Taken(kind, text, i)
              /\ Taken(kind, text, i) \in Ends(kind, text, i)
              /\ \A e \in Ends(kind, text, i) : e <= Taken(kind, text, i)
  <1> DEFINE S == Ends(kind, text, i)
  <1>1. Len(text) \in Nat
    BY LenProperties
  <1>2. S \in SUBSET (i .. Len(text))
    BY EndsWithin
  <1> HIDE DEF S
  <1>3. S # {} => Max(S) \in S /\ \A y \in S : Max(S) >= y
    <2>1. S \in SUBSET Nat /\ \A y \in S : y <= Len(text)
      BY <1>1, <1>2
    <2> QED
      BY <1>1, <2>1, MaxOfNaturals
  <1>4. Taken(kind, text, i) = IF S = {} THEN i ELSE Max(S)
    BY DEF S, Taken
  <1> QED
    BY <1>1, <1>2, <1>3, <1>4 DEF S

\* There is a table from every token on.
LEMMA PartTableExists ==
  ASSUME NEW T, NEW text \in Seq(T), NEW kind \in Kinds
  PROVE  \E g : PartTable(g, kind, text, 1)
  <1> DEFINE n == Len(text)
             S == {m \in 1 .. n + 1 : \E g : PartTable(g, kind, text, m)}
  <1>1. n \in Nat
    BY LenProperties
  <1>2. n + 1 \in S
    <2> DEFINE g == [i \in n + 1 .. n + 1 |-> <<>>]
    <2>1. \A i \in n + 1 .. n + 1 : i > n
      BY <1>1
    <2>2. PartTable(g, kind, text, n + 1)
      BY <2>1 DEF PartTable
    <2> QED
      BY <1>1, <2>2
  <1>3. ASSUME NEW m \in 1 .. n, \A k \in m + 1 .. n + 1 : k \in S PROVE m \in S
    <2>1. m + 1 \in m + 1 .. n + 1
      BY <1>1
    <2>2. PICK g : PartTable(g, kind, text, m + 1)
      BY <1>3, <2>1
    <2> DEFINE step(f, i) == IF i > Len(text) THEN <<>>
                             ELSE Joined(Emits(kind, text, i), f[Taken(kind, text, i) + 1])
               h == [i \in m .. Len(text) + 1 |-> IF i = m THEN step(g, i) ELSE g[i]]
    <2>3. \A i \in m + 1 .. Len(text) + 1 : g[i] = step(g, i)
      BY <2>2 DEF PartTable
    <2>4. ASSUME NEW i \in m .. Len(text) PROVE Taken(kind, text, i) + 1 \in m + 1 .. Len(text) + 1
      <3>1. i \in 1 .. Len(text)
        BY <1>1
      <3>2. Taken(kind, text, i) \in i .. Len(text)
        BY <3>1, TakenWithin
      <3> QED
        BY <1>1, <3>2
    <2>5. \A k \in m + 1 .. Len(text) + 1 : h[k] = g[k]
      BY <1>1
    <2>6. ASSUME NEW i \in m .. Len(text) + 1 PROVE step(h, i) = step(g, i)
      <3>1. CASE i > Len(text)
        BY <3>1
      <3>2. CASE i \in m .. Len(text)
        BY <2>4, <2>5, <3>2
      <3> QED
        BY <1>1, <3>1, <3>2
    <2>7. \A i \in m .. Len(text) + 1 : i # m => i \in m + 1 .. Len(text) + 1
      BY <1>1
    <2> HIDE DEF step
    <2>8. h = [i \in m .. Len(text) + 1 |-> step(h, i)]
      <3>1. \A i \in m .. Len(text) + 1 : h[i] = step(h, i)
        BY <2>3, <2>6, <2>7
      <3> QED
        BY <3>1
    <2>9. PartTable(h, kind, text, m)
      BY <2>8 DEF PartTable, step
    <2> QED
      BY <1>1, <2>9
  <1> HIDE DEF S
  <1>4. 1 .. n + 1 \subseteq S
    BY <1>1, <1>2, <1>3, DownwardInduction
  <1>5. 1 \in S
    BY <1>1, <1>4
  <1> QED
    BY <1>5 DEF S

\* What the scan puts out is a text, and not empty.
LEMMA EmitsText ==
  ASSUME NEW T, NEW text \in Seq(T), NEW kind \in Kinds, kind \in T, NEW i \in 1 .. Len(text)
  PROVE  /\ Emits(kind, text, i) \in Seq(T)
         /\ Emits(kind, text, i) = <<kind>>
            \/ /\ Emits(kind, text, i) = SubSeq(text, i, Taken(kind, text, i))
               /\ \/ Taken(kind, text, i) = i /\ Ends(kind, text, i) = {}
                  \/ kind = "[CREDIT_CARD]"
  <1> DEFINE j == Taken(kind, text, i)
  <1>1. Len(text) \in Nat /\ j \in i .. Len(text) /\ (Ends(kind, text, i) # {} => Max(Ends(kind, text, i)) = j)
    BY TakenWithin, LenProperties
  <1>2. \A k \in 1 .. Len(text) : text[k] \in T
    BY ElementOfSeq
  <1>3. Ends(kind, text, i) = {} => j = i
    BY DEF Taken
  <1> HIDE DEF j
  <1>4. SubSeq(text, i, j) \in Seq(T)
    <2>1. i \in Int /\ j \in Int /\ \A k \in i .. j : text[k] \in T
      BY <1>1, <1>2
    <2> QED
      BY <2>1, SubSeqProperties
  <1>5. <<kind>> \in Seq(T)
    OBVIOUS
  <1>6. CASE Ends(kind, text, i) = {}
    <2>1. SubSeq(text, i, i) = <<text[i]>>
      BY PartOfOne
    <2>2. Emits(kind, text, i) = <<text[i]>>
      BY <1>6 DEF Emits
    <2> QED
      BY <1>3, <1>4, <1>6, <2>1, <2>2 DEF j
  <1>7. CASE Ends(kind, text, i) # {} /\ Redacts(kind, SubSeq(text, i, j))
    <2>1. Emits(kind, text, i) = <<kind>>
      BY <1>1, <1>7 DEF Emits
    <2> QED
      BY <1>5, <2>1
  <1>8. CASE Ends(kind, text, i) # {} /\ ~Redacts(kind, SubSeq(text, i, j))
    <2>1. Emits(kind, text, i) = SubSeq(text, i, j)
      BY <1>1, <1>8 DEF Emits
    <2>2. kind = "[CREDIT_CARD]"
      BY <1>8 DEF Redacts
    <2> QED
      BY <1>4, <2>1, <2>2 DEF j
  <1> QED
    BY <1>6, <1>7, <1>8

\* The scan puts out something for the token it is at, and goes on behind what it
\* took.
LEMMA ScanUnfolds ==
  ASSUME NEW T, NEW text \in Seq(T), NEW kind \in Kinds, kind \in T
  PROVE  /\ Scan(kind, text)[Len(text) + 1] = <<>>
         /\ \A i \in 1 .. Len(text) + 1 : Scan(kind, text)[i] \in Seq(T)
         /\ \A i \in 1 .. Len(text) :
              Scan(kind, text)[i] =
                Joined(Emits(kind, text, i), Scan(kind, text)[Taken(kind, text, i) + 1])
  <1> DEFINE n == Len(text)
             G == Scan(kind, text)
             S == {i \in 1 .. n + 1 : G[i] \in Seq(T)}
  <1>1. n \in Nat
    BY LenProperties
  <1>2. PartTable(G, kind, text, 1)
    <2>1. \E g : Table(g, kind, text)
      BY PartTableExists, TableForms
    <2>2. Table(G, kind, text)
      BY <2>1 DEF Scan
    <2> QED
      BY <2>2, TableForms
  <1> HIDE DEF G
  <1>3. G[n + 1] = <<>>
    BY <1>1, <1>2 DEF PartTable
  <1>4. \A i \in 1 .. n : G[i] = Joined(Emits(kind, text, i), G[Taken(kind, text, i) + 1])
    BY <1>1, <1>2 DEF PartTable
  <1>5. n + 1 \in S
    <2>1. G[n + 1] \in Seq(T)
      BY <1>3, EmptySeq
    <2>2. n + 1 \in 1 .. n + 1
      BY <1>1
    <2> HIDE DEF n
    <2> QED
      BY <2>1, <2>2
  <1>6. ASSUME NEW i \in 1 .. n, \A k \in i + 1 .. n + 1 : k \in S PROVE i \in S
    <2>1. Emits(kind, text, i) \in Seq(T)
      BY EmitsText
    <2>2. Taken(kind, text, i) \in i .. n
      BY TakenWithin
    <2>3. G[Taken(kind, text, i) + 1] \in Seq(T)
      BY <1>1, <1>6, <2>2
    <2>4. \A a, b \in Seq(T) : Joined(a, b) \in Seq(T)
      BY ConcatProperties DEF Joined
    <2> QED
      BY <1>1, <1>4, <2>1, <2>3, <2>4
  <1> HIDE DEF S
  <1>7. 1 .. n + 1 \subseteq S
    BY <1>1, <1>5, <1>6, DownwardInduction
  <1> QED
    BY <1>3, <1>4, <1>7 DEF S, G

\* Concatenation, under the name that the scans know it by.
LEMMA JoinedText ==
  ASSUME NEW T, NEW a \in Seq(T), NEW b \in Seq(T)
  PROVE  Joined(a, b) \in Seq(T) /\ Joined(a, b) = a \o b
  BY ConcatProperties DEF Joined

LEMMA JoinedAssociative ==
  ASSUME NEW T, NEW a \in Seq(T), NEW b \in Seq(T), NEW c \in Seq(T)
  PROVE  Joined(a, Joined(b, c)) = Joined(Joined(a, b), c)
  BY ConcatAssociative DEF Joined

LEMMA JoinedEmpty ==
  ASSUME NEW T, NEW a \in Seq(T)
  PROVE  Joined(a, <<>>) = a /\ Joined(<<>>, a) = a
  BY ConcatEmptySeq DEF Joined

\* u stands in t behind d tokens, and the matches at token k of u are those of t.
Within(u, t, d) ==
    /\ d \in Nat /\ Len(u) + d <= Len(t)
    /\ \A i \in 1 .. Len(u) : t[i + d] = u[i]
SameEnds(kind, u, k, t, d) ==
    /\ \A e \in Ends(kind, u, k) : e + d \in Ends(kind, t, k + d)
    /\ \A e \in Ends(kind, t, k + d) : e - d \in Ends(kind, u, k)

\* Then the scan does the same at k in both.
LEMMA SameScanStep ==
  ASSUME NEW T, NEW t \in Seq(T), NEW u \in Seq(T), NEW kind \in Kinds, kind \in T,
         NEW d, Within(u, t, d), NEW k \in 1 .. Len(u), SameEnds(kind, u, k, t, d)
  PROVE  /\ Taken(kind, t, k + d) = Taken(kind, u, k) + d
         /\ Emits(kind, t, k + d) = Emits(kind, u, k)
  <1> DEFINE D == Ends(kind, t, k + d)
             E == Ends(kind, u, k)
             i == Taken(kind, t, k + d)
             j == Taken(kind, u, k)
  <1>1. /\ Len(t) \in Nat /\ Len(u) \in Nat /\ d \in Nat /\ k \in Nat \ {0}
        /\ k + d \in 1 .. Len(t) /\ Len(u) + d <= Len(t)
    BY LenProperties DEF Within
  <1>2. /\ j \in k .. Len(u)
        /\ E # {} => Max(E) = j /\ j \in E /\ \A e \in E : e <= j
    BY TakenWithin
  <1>3. /\ i \in k + d .. Len(t)
        /\ D # {} => Max(D) = i /\ i \in D /\ \A e \in D : e <= i
    BY <1>1, TakenWithin
  <1>4. /\ \A e \in E : e + d \in D
        /\ \A e \in D : e - d \in E
    BY DEF SameEnds
  <1>5. /\ E = {} => j = k
        /\ D = {} => i = k + d
    BY DEF Taken
  <1>6. /\ Emits(kind, u, k) = IF E = {} THEN <<u[k]>>
                               ELSE IF Redacts(kind, SubSeq(u, k, Max(E))) THEN <<kind>>
                               ELSE SubSeq(u, k, Max(E))
        /\ Emits(kind, t, k + d) = IF D = {} THEN <<t[k + d]>>
                               ELSE IF Redacts(kind, SubSeq(t, k + d, Max(D))) THEN <<kind>>
                               ELSE SubSeq(t, k + d, Max(D))
    BY DEF Emits
  <1>7. t[k + d] = u[k]
    BY DEF Within
  <1> HIDE DEF D, E, i, j
  <1>8. CASE E = {}
    <2>1. D = {}
      BY <1>4, <1>8
    <2> QED
      BY <1>5, <1>6, <1>7, <1>8, <2>1 DEF i, j
  <1>9. CASE E # {}
    <2>1. D # {}
      BY <1>4, <1>9
    <2>2. j + d \in D /\ i - d \in E
      BY <1>2, <1>3, <1>4, <1>9, <2>1
    <2>3. j + d <= i /\ i - d <= j
      BY <1>2, <1>3, <1>9, <2>1, <2>2
    <2>4. i = j + d
      BY <1>1, <1>2, <1>3, <2>3
    <2>5. SubSeq(u, k, j) = SubSeq(t, k + d, j + d)
      <3> DEFINE m == k + d
                 l == j + d
      <3>1. /\ k \in Nat \ {0} /\ j \in Nat /\ k <= j + 1 /\ j <= Len(u)
            /\ m \in Nat \ {0} /\ l \in Nat /\ l - m = j - k /\ l <= Len(t)
        BY <1>1, <1>2
      <3>2. \A x \in k .. j : x + (m - k) = x + d /\ u[x] = t[x + d]
        BY <1>1, <1>2 DEF Within
      <3> HIDE DEF m, l
      <3>3. \A x \in k .. j : u[x] = t[x + (m - k)]
        BY <3>2
      <3>4. SubSeq(u, k, j) = SubSeq(t, m, l)
        BY <3>1, <3>3, EqualWindows
      <3> QED
        BY <3>4 DEF m, l
    <2>6. Max(E) = j /\ Max(D) = j + d
      BY <1>2, <1>3, <1>9, <2>1, <2>4
    <2>7. Emits(kind, t, k + d) = Emits(kind, u, k)
      BY <1>6, <1>9, <2>1, <2>5, <2>6
    <2> QED
      BY <2>4, <2>7 DEF i, j
  <1> QED
    BY <1>8, <1>9

\* A text whose matches stand at the end of another one is scanned as there.
LEMMA ScanOfEnd ==
  ASSUME NEW T, NEW t \in Seq(T), NEW u \in Seq(T), NEW kind \in Kinds, kind \in T,
         NEW d, Within(u, t, d), Len(t) = Len(u) + d,
         \A k \in 1 .. Len(u) : SameEnds(kind, u, k, t, d)
  PROVE  Scan(kind, t)[d + 1] = Sub(kind, u)
  <1> DEFINE G == Scan(kind, t)
             H == Scan(kind, u)
             S == {k \in 1 .. Len(u) + 1 : G[k + d] = H[k]}
  <1>1. Len(t) \in Nat /\ Len(u) \in Nat /\ d \in Nat
    BY LenProperties DEF Within
  <1>2. /\ G[Len(t) + 1] = <<>>
        /\ \A i \in 1 .. Len(t) : G[i] = Joined(Emits(kind, t, i), G[Taken(kind, t, i) + 1])
    BY ScanUnfolds
  <1>3. /\ H[Len(u) + 1] = <<>>
        /\ \A i \in 1 .. Len(u) : H[i] = Joined(Emits(kind, u, i), H[Taken(kind, u, i) + 1])
    BY ScanUnfolds
  <1> HIDE DEF G, H
  <1>4. Len(u) + 1 \in S
    <2>1. (Len(u) + 1) + d = Len(t) + 1
      BY <1>1
    <2> QED
      BY <1>1, <1>2, <1>3, <2>1
  <1>5. ASSUME NEW k \in 1 .. Len(u), \A l \in k + 1 .. Len(u) + 1 : l \in S
        PROVE  k \in S
    <2>1. /\ Taken(kind, t, k + d) = Taken(kind, u, k) + d
          /\ Emits(kind, t, k + d) = Emits(kind, u, k)
      BY SameScanStep
    <2>2. Taken(kind, u, k) \in k .. Len(u)
      BY TakenWithin
    <2> DEFINE j == Taken(kind, u, k)
    <2>3. j + 1 \in k + 1 .. Len(u) + 1 /\ (j + d) + 1 = (j + 1) + d
      BY <1>1, <2>2
    <2> HIDE DEF j
    <2>4. G[(j + d) + 1] = H[j + 1]
      BY <1>5, <2>3
    <2>5. k + d \in 1 .. Len(t)
      BY <1>1
    <2>6. G[k + d] = Joined(Emits(kind, t, k + d), G[(j + d) + 1])
      BY <1>2, <2>1, <2>5 DEF j
    <2>7. H[k] = Joined(Emits(kind, u, k), H[j + 1])
      BY <1>3 DEF j
    <2>8. G[k + d] = H[k]
      BY <2>1, <2>4, <2>6, <2>7
    <2> QED
      BY <1>1, <2>8
  <1> HIDE DEF S
  <1>6. 1 .. Len(u) + 1 \subseteq S
    BY <1>1, <1>4, <1>5, DownwardInduction
  <1>7. 1 \in S
    BY <1>1, <1>6
  <1>8. G[1 + d] = H[1] /\ 1 + d = d + 1
    BY <1>1, <1>7 DEF S
  <1> QED
    BY <1>8, SubIsScan DEF G, H

\* A text whose matches stand at the beginning of another one is scanned first.
LEMMA ScanOfStart ==
  ASSUME NEW T, NEW t \in Seq(T), NEW u \in Seq(T), NEW kind \in Kinds, kind \in T,
         Within(u, t, 0), \A k \in 1 .. Len(u) : SameEnds(kind, u, k, t, 0)
  PROVE  Sub(kind, t) = Joined(Sub(kind, u), Scan(kind, t)[Len(u) + 1])
  <1> DEFINE G == Scan(kind, t)
             H == Scan(kind, u)
             Z == G[Len(u) + 1]
             S == {k \in 1 .. Len(u) + 1 : G[k] = Joined(H[k], Z)}
  <1>1. Len(t) \in Nat /\ Len(u) \in Nat /\ Len(u) + 0 <= Len(t)
    BY LenProperties DEF Within
  <1>2. /\ \A i \in 1 .. Len(t) + 1 : G[i] \in Seq(T)
        /\ \A i \in 1 .. Len(t) : G[i] = Joined(Emits(kind, t, i), G[Taken(kind, t, i) + 1])
    BY ScanUnfolds
  <1>3. /\ H[Len(u) + 1] = <<>>
        /\ \A i \in 1 .. Len(u) + 1 : H[i] \in Seq(T)
        /\ \A i \in 1 .. Len(u) : H[i] = Joined(Emits(kind, u, i), H[Taken(kind, u, i) + 1])
    BY ScanUnfolds
  <1> HIDE DEF G, H
  <1>4. Z \in Seq(T)
    BY <1>1, <1>2
  <1> HIDE DEF Z
  <1>5. Len(u) + 1 \in S
    <2>1. G[Len(u) + 1] = Joined(H[Len(u) + 1], Z)
      <3>1. Joined(<<>>, Z) = Z
        BY <1>4, JoinedEmpty
      <3> QED
        BY <1>3, <3>1 DEF Z
    <2> QED
      BY <1>1, <2>1
  <1>6. ASSUME NEW k \in 1 .. Len(u), \A l \in k + 1 .. Len(u) + 1 : l \in S
        PROVE  k \in S
    <2> DEFINE j == Taken(kind, u, k)
               E == Emits(kind, u, k)
    <2>1. j \in k .. Len(u)
      BY TakenWithin
    <2>2. Taken(kind, t, k + 0) = j + 0 /\ Emits(kind, t, k + 0) = E
      BY SameScanStep
    <2>3. k + 0 = k /\ j + 0 = j
      BY <1>1, <2>1
    <2>4. E \in Seq(T)
      BY EmitsText
    <2> HIDE DEF j, E
    <2>5. k \in 1 .. Len(t) /\ j + 1 \in k + 1 .. Len(u) + 1 /\ j + 1 \in 1 .. Len(u) + 1
      BY <1>1, <2>1
    <2>6. G[j + 1] = Joined(H[j + 1], Z) /\ H[j + 1] \in Seq(T)
      BY <1>3, <1>6, <2>5
    <2>7. G[k] = Joined(E, G[j + 1])
      BY <1>2, <2>2, <2>3, <2>5
    <2>8. H[k] = Joined(E, H[j + 1])
      BY <1>3 DEF j, E
    <2>9. G[k] = Joined(H[k], Z)
      <3>1. Joined(E, Joined(H[j + 1], Z)) = Joined(Joined(E, H[j + 1]), Z)
        BY <1>4, <2>4, <2>6, JoinedAssociative
      <3> QED
        BY <2>6, <2>7, <2>8, <3>1
    <2> QED
      BY <1>1, <2>9
  <1> HIDE DEF S
  <1>7. 1 .. Len(u) + 1 \subseteq S
    BY <1>1, <1>5, <1>6, DownwardInduction
  <1>8. 1 \in S
    BY <1>1, <1>7
  <1> QED
    BY <1>8, SubIsScan DEF S, Z, G, H

\* Tokens at which nothing begins are put out as they are.
LEMMA ScanPasses ==
  ASSUME NEW T, NEW t \in Seq(T), NEW kind \in Kinds, kind \in T,
         NEW p \in 1 .. Len(t) + 1, NEW q \in p - 1 .. Len(t),
         \A k \in p .. q : Ends(kind, t, k) = {}
  PROVE  Scan(kind, t)[p] = Joined(SubSeq(t, p, q), Scan(kind, t)[q + 1])
  <1> DEFINE G == Scan(kind, t)
             Z == G[q + 1]
             S == {k \in 1 .. q + 1 : p <= k => G[k] = Joined(SubSeq(t, k, q), Z)}
  <1>1. Len(t) \in Nat /\ q \in Nat /\ p \in Nat \ {0} /\ p <= q + 1 /\ q <= Len(t)
    BY LenProperties
  <1>2. /\ \A i \in 1 .. Len(t) + 1 : G[i] \in Seq(T)
        /\ \A i \in 1 .. Len(t) : G[i] = Joined(Emits(kind, t, i), G[Taken(kind, t, i) + 1])
    BY ScanUnfolds
  <1>3. \A k \in 1 .. Len(t) : t[k] \in T
    BY ElementOfSeq
  <1> HIDE DEF G
  <1>4. Z \in Seq(T)
    BY <1>1, <1>2
  <1> HIDE DEF Z
  <1>5. q + 1 \in S
    <2>1. SubSeq(t, q + 1, q) = <<>>
      BY <1>1, SubSeqEmpty
    <2>2. G[q + 1] = Joined(SubSeq(t, q + 1, q), Z)
      <3>1. Joined(<<>>, Z) = Z
        BY <1>4, JoinedEmpty
      <3> QED
        BY <2>1, <3>1 DEF Z
    <2> QED
      BY <1>1, <2>2
  <1>6. ASSUME NEW k \in 1 .. q, \A l \in k + 1 .. q + 1 : l \in S
        PROVE  k \in S
    <2> SUFFICES ASSUME p <= k PROVE G[k] = Joined(SubSeq(t, k, q), Z)
      BY <1>1
    <2>1. k \in 1 .. Len(t) /\ k \in p .. q /\ k + 1 \in k + 1 .. q + 1 /\ p <= k + 1 /\ q \in k .. Len(t)
      BY <1>1
    <2>2. Ends(kind, t, k) = {}
      BY <2>1
    <2>3. Taken(kind, t, k) = k /\ Emits(kind, t, k) = <<t[k]>>
      BY <2>2 DEF Taken, Emits
    <2>4. G[k] = Joined(<<t[k]>>, G[k + 1])
      BY <1>2, <2>1, <2>3
    <2>5. G[k + 1] = Joined(SubSeq(t, k + 1, q), Z)
      BY <1>6, <2>1
    <2>6. SubSeq(t, k, q) = <<t[k]>> \o SubSeq(t, k + 1, q)
      BY <2>1, SubSeqRecursiveFirst
    <2>7. <<t[k]>> \in Seq(T)
      BY <1>3, <2>1, SingleToken
    <2>8. SubSeq(t, k + 1, q) \in Seq(T)
      <3>1. k + 1 \in Nat \ {0} /\ k + 1 <= q + 1
        BY <1>1
      <3> QED
        BY <1>1, <3>1, PartPlaces
    <2>9. SubSeq(t, k, q) = Joined(<<t[k]>>, SubSeq(t, k + 1, q))
      BY <2>6, <2>7, <2>8, JoinedText
    <2> QED
      <3> DEFINE x == <<t[k]>>
                 y == SubSeq(t, k + 1, q)
      <3>1. x \in Seq(T) /\ y \in Seq(T)
        BY <2>7, <2>8
      <3>2. G[k] = Joined(x, Joined(y, Z)) /\ SubSeq(t, k, q) = Joined(x, y)
        BY <2>4, <2>5, <2>9
      <3> HIDE DEF x, y
      <3>3. Joined(x, Joined(y, Z)) = Joined(Joined(x, y), Z)
        BY <1>4, <3>1, JoinedAssociative
      <3> QED
        BY <3>2, <3>3
  <1> HIDE DEF S
  <1>7. 1 .. q + 1 \subseteq S
    BY <1>1, <1>5, <1>6, DownwardInduction
  <1>8. p \in S
    BY <1>1, <1>7
  <1> QED
    BY <1>1, <1>8 DEF S, Z, G
------------------------------------------------------------------------------
(***************************************************************************)
(* Matches                                                                 *)
(***************************************************************************)
\* A token of a word in front of token p, which the patterns for e-mail addresses
\* and phone numbers look at.
Behind(text, p) == p > 1 /\ text[p - 1] \in WordLike

\* The tokens p .. e of u stand in t, moved by d.
Moved(u, p, e, t, d) ==
    /\ d \in Int /\ p + d >= 1 /\ e + d <= Len(t)
    /\ \A k \in p .. e : t[k + d] = u[k]

LEMMA EmailMoves ==
  ASSUME NEW T, NEW u \in Seq(T), NEW t \in Seq(T), NEW p \in 1 .. Len(u),
         NEW e \in EmailEnds(u, p), NEW d, Moved(u, p, e, t, d),
         u[p] \in Runs \cup Words \/ (Behind(u, p) => Behind(t, p + d))
  PROVE  e + d \in EmailEnds(t, p + d)
  <1> DEFINE local == Runs \cup Words \cup {".", "-", "+"}
             domain == Runs \cup Words \cup {".", "-"}
  <1>1. Len(u) \in Nat /\ Len(t) \in Nat
    BY LenProperties
  <1>2. /\ e \in p + 1 .. Len(u)
        /\ \/ u[p] \in Runs \cup Words
           \/ u[p] \in local /\ p > 1 /\ u[p - 1] \in WordLike
    BY DEF EmailEnds, WordLike
  <1>3. PICK k \in p + 1 .. e :
          /\ u[k] \in Domains
          /\ \A l \in p .. k - 1 : u[l] \in local
          /\ \A l \in k + 1 .. e : u[l] \in domain
          /\ e = k \/ (u[e] \in Words /\ u[e - 1] = ".")
    BY DEF EmailEnds, AllIn
  <1>4. /\ d \in Int /\ p + d >= 1 /\ e + d <= Len(t)
        /\ \A l \in p .. e : t[l + d] = u[l]
    BY DEF Moved
  <1> HIDE DEF local, domain
  <1>5. /\ k + d \in (p + d) + 1 .. e + d /\ e + d \in (p + d) + 1 .. Len(t)
        /\ p \in p .. e /\ k \in p .. e /\ e \in p .. e /\ e - 1 \in p .. e
        /\ (e + d) - 1 = (e - 1) + d
    BY <1>1, <1>2, <1>3, <1>4
  <1>6. \A l \in p + d .. (k + d) - 1 : t[l] \in local
    <2> TAKE l \in p + d .. (k + d) - 1
    <2>1. l - d \in p .. k - 1 /\ l - d \in p .. e /\ (l - d) + d = l
      BY <1>1, <1>2, <1>3, <1>4
    <2> QED
      BY <1>3, <1>4, <2>1
  <1>7. \A l \in (k + d) + 1 .. e + d : t[l] \in domain
    <2> TAKE l \in (k + d) + 1 .. e + d
    <2>1. l - d \in k + 1 .. e /\ l - d \in p .. e /\ (l - d) + d = l
      BY <1>1, <1>2, <1>3, <1>4
    <2> QED
      BY <1>3, <1>4, <2>1
  <1>8. /\ t[k + d] \in Domains
        /\ e + d = k + d \/ (t[e + d] \in Words /\ t[(e + d) - 1] = ".")
    BY <1>3, <1>4, <1>5
  <1>9. \/ t[p + d] \in Runs \cup Words
        \/ t[p + d] \in local /\ p + d > 1 /\ t[(p + d) - 1] \in WordLike
    <2>1. t[p + d] = u[p]
      BY <1>4, <1>5
    <2> QED
      BY <1>2, <2>1 DEF Behind
  <1> QED
    BY <1>5, <1>6, <1>7, <1>8, <1>9 DEF EmailEnds, AllIn, WordLike, local, domain

LEMMA SsnMoves ==
  ASSUME NEW T, NEW u \in Seq(T), NEW t \in Seq(T), NEW p \in 1 .. Len(u),
         NEW e \in SsnEnds(u, p), NEW d, Moved(u, p, e, t, d)
  PROVE  e + d \in SsnEnds(t, p + d)
  <1>1. Len(t) \in Nat /\ DOMAIN t = 1 .. Len(t)
    BY LenProperties
  <1>2. /\ e = p + 4
        /\ IsRun(u[p], 3) /\ IsRun(u[p + 2], 2) /\ IsRun(u[e], 4)
        /\ u[p + 1] = "-" /\ u[p + 3] = "-"
    BY DEF SsnEnds
  <1>3. /\ d \in Int /\ p + d >= 1 /\ e + d <= Len(t)
        /\ \A k \in p .. e : t[k + d] = u[k]
    BY DEF Moved
  <1>4. /\ t[p + d] = u[p] /\ t[(p + 1) + d] = u[p + 1] /\ t[(p + 2) + d] = u[p + 2]
        /\ t[(p + 3) + d] = u[p + 3] /\ t[e + d] = u[e]
    <2>1. {p, p + 1, p + 2, p + 3, e} \subseteq p .. e
      BY <1>2
    <2> QED
      BY <1>3, <2>1
  <1>5. /\ (p + 1) + d = (p + d) + 1 /\ (p + 2) + d = (p + d) + 2 /\ (p + 3) + d = (p + d) + 3
        /\ e + d = (p + d) + 4 /\ e + d \in 1 .. Len(t)
    BY <1>1, <1>2, <1>3
  <1> QED
    BY <1>1, <1>2, <1>4, <1>5 DEF SsnEnds

LEMMA Ipv4Moves ==
  ASSUME NEW T, NEW u \in Seq(T), NEW t \in Seq(T), NEW p \in 1 .. Len(u),
         NEW e \in Ipv4Ends(u, p), NEW d, Moved(u, p, e, t, d)
  PROVE  e + d \in Ipv4Ends(t, p + d)
  <1>1. Len(t) \in Nat /\ DOMAIN t = 1 .. Len(t)
    BY LenProperties
  <1>2. /\ e = p + 6
        /\ \A k \in {p, p + 2, p + 4, p + 6} : IsOctet(u[k])
        /\ \A k \in {p + 1, p + 3, p + 5} : u[k] = "."
    BY DEF Ipv4Ends
  <1>3. /\ d \in Int /\ p + d >= 1 /\ e + d <= Len(t)
        /\ \A k \in p .. e : t[k + d] = u[k]
    BY DEF Moved
  <1>4. e + d = (p + d) + 6 /\ e + d \in 1 .. Len(t)
    BY <1>1, <1>2, <1>3
  <1>5. \A k \in {p + d, (p + d) + 2, (p + d) + 4, (p + d) + 6} :
          k - d \in {p, p + 2, p + 4, p + 6} /\ k - d \in p .. e /\ (k - d) + d = k
    BY <1>2, <1>3
  <1>6. \A k \in {(p + d) + 1, (p + d) + 3, (p + d) + 5} :
          k - d \in {p + 1, p + 3, p + 5} /\ k - d \in p .. e /\ (k - d) + d = k
    BY <1>2, <1>3
  <1>7. \A k \in {p + d, (p + d) + 2, (p + d) + 4, (p + d) + 6} : IsOctet(t[k])
    <2> TAKE k \in {p + d, (p + d) + 2, (p + d) + 4, (p + d) + 6}
    <2>1. t[(k - d) + d] = u[k - d] /\ (k - d) + d = k /\ IsOctet(u[k - d])
      BY <1>2, <1>3, <1>5
    <2> QED
      BY <2>1
  <1>8. \A k \in {(p + d) + 1, (p + d) + 3, (p + d) + 5} : t[k] = "."
    <2> TAKE k \in {(p + d) + 1, (p + d) + 3, (p + d) + 5}
    <2>1. t[(k - d) + d] = u[k - d] /\ (k - d) + d = k /\ u[k - d] = "."
      BY <1>2, <1>3, <1>6
    <2> QED
      BY <2>1
  <1> QED
    BY <1>1, <1>4, <1>7, <1>8 DEF Ipv4Ends

\* The tokens of a match are the same part of both texts.
LEMMA MovedPart ==
  ASSUME NEW T, NEW u \in Seq(T), NEW t \in Seq(T), NEW p \in 1 .. Len(u),
         NEW e \in p .. Len(u), NEW d, Moved(u, p, e, t, d), NEW m, m = p + d, NEW n, n = e + d
  PROVE  SubSeq(u, p, e) = SubSeq(t, m, n)
  <1>1. Len(u) \in Nat /\ Len(t) \in Nat
    BY LenProperties
  <1>2. /\ d \in Int /\ p + d >= 1 /\ e + d <= Len(t)
        /\ \A k \in p .. e : u[k] = t[k + d]
    BY DEF Moved
  <1> DEFINE a == p + d
             b == e + d
  <1>3. /\ p \in Nat \ {0} /\ e \in Nat /\ p <= e + 1 /\ e <= Len(u)
        /\ a \in Nat \ {0} /\ b \in Nat /\ b - a = e - p /\ b <= Len(t)
    BY <1>1, <1>2
  <1>4. \A k \in p .. e : k + (a - p) = k + d /\ u[k] = t[k + d]
    BY <1>1, <1>2
  <1> HIDE DEF a, b
  <1>5. \A k \in p .. e : u[k] = t[k + (a - p)]
    BY <1>4
  <1>6. SubSeq(u, p, e) = SubSeq(t, a, b)
    BY <1>3, <1>5, EqualWindows
  <1> QED
    BY <1>6 DEF a, b

LEMMA CardMoves ==
  ASSUME NEW T, NEW u \in Seq(T), NEW t \in Seq(T), NEW p \in 1 .. Len(u),
         NEW e \in CardEnds(u, p), NEW d, Moved(u, p, e, t, d)
  PROVE  e + d \in CardEnds(t, p + d)
  <1> DEFINE joiners == Runs \cup {" ", "-"}
  <1>1. Len(u) \in Nat /\ Len(t) \in Nat
    BY LenProperties
  <1>2. /\ e \in p .. Len(u) /\ u[p] \in Runs /\ u[e] \in Runs
        /\ \A k \in p .. e : u[k] \in joiners
        /\ Len(DigitsOf(SubSeq(u, p, e))) \in 13 .. 16
    BY DEF CardEnds, AllIn
  <1>3. /\ d \in Int /\ p + d >= 1 /\ e + d <= Len(t)
        /\ \A k \in p .. e : t[k + d] = u[k]
    BY DEF Moved
  <1> HIDE DEF joiners
  <1>4. SubSeq(u, p, e) = SubSeq(t, p + d, e + d)
    <2> DEFINE m == p + d
               n == e + d
    <2>1. e \in p .. Len(u) /\ m = p + d /\ n = e + d
      BY <1>2
    <2> HIDE DEF m, n
    <2>2. SubSeq(u, p, e) = SubSeq(t, m, n)
      BY <2>1, MovedPart
    <2> QED
      BY <2>2 DEF m, n
  <1>5. /\ e + d \in p + d .. Len(t) /\ t[p + d] \in Runs /\ t[e + d] \in Runs
    BY <1>1, <1>2, <1>3
  <1>6. \A k \in p + d .. e + d : t[k] \in joiners
    <2> TAKE k \in p + d .. e + d
    <2>1. k - d \in p .. e /\ (k - d) + d = k
      BY <1>1, <1>2, <1>3
    <2> QED
      BY <1>2, <1>3, <2>1
  <1>7. Len(DigitsOf(SubSeq(t, p + d, e + d))) \in 13 .. 16
    BY <1>2, <1>4
  <1> QED
    BY <1>5, <1>6, <1>7 DEF CardEnds, AllIn, joiners

LEMMA PhoneMoves ==
  ASSUME NEW T, NEW u \in Seq(T), NEW t \in Seq(T), NEW p \in 1 .. Len(u),
         NEW e \in PhoneEnds(u, p), NEW d, Moved(u, p, e, t, d),
         Behind(t, p + d) => Behind(u, p)
  PROVE  e + d \in PhoneEnds(t, p + d)
  <1>1. Len(u) \in Nat /\ Len(t) \in Nat /\ DOMAIN u = 1 .. Len(u) /\ DOMAIN t = 1 .. Len(t)
    BY LenProperties
  <1>2. /\ e \in p .. p + 9 /\ e \in 1 .. Len(u)
        /\ u[p] \in Runs \cup {"+", "("}
        /\ p = 1 \/ u[p - 1] \notin WordLike
        /\ u[e] \in Runs
        /\ Spelled(SubSeq(u, p, e)) \in PhoneForms
    BY <1>1 DEF PhoneEnds, WordLike
  <1>3. /\ d \in Int /\ p + d >= 1 /\ e + d <= Len(t)
        /\ \A k \in p .. e : t[k + d] = u[k]
    BY DEF Moved
  <1>4. SubSeq(u, p, e) = SubSeq(t, p + d, e + d)
    <2> DEFINE m == p + d
               n == e + d
    <2>1. e \in p .. Len(u) /\ m = p + d /\ n = e + d
      BY <1>1, <1>2
    <2> HIDE DEF m, n
    <2>2. SubSeq(u, p, e) = SubSeq(t, m, n)
      BY <2>1, MovedPart
    <2> QED
      BY <2>2 DEF m, n
  <1>5. /\ e + d \in p + d .. (p + d) + 9 /\ e + d \in 1 .. Len(t)
        /\ t[p + d] = u[p] /\ t[e + d] = u[e]
    BY <1>1, <1>2, <1>3
  <1>6. p + d = 1 \/ t[(p + d) - 1] \notin WordLike
    BY <1>1, <1>2, <1>3 DEF Behind
  <1>7. Spelled(SubSeq(t, p + d, e + d)) \in PhoneForms
    BY <1>2, <1>4
  <1> QED
    BY <1>1, <1>2, <1>5, <1>6, <1>7 DEF PhoneEnds, WordLike

\* A match is a match wherever its tokens stand, if what is in front of it does not
\* tell the patterns otherwise.
LEMMA MatchMoves ==
  ASSUME NEW T, NEW u \in Seq(T), NEW t \in Seq(T), NEW kind \in Kinds,
         NEW p \in 1 .. Len(u), NEW e \in Ends(kind, u, p), NEW d, Moved(u, p, e, t, d),
         kind = "[EMAIL]" => u[p] \in Runs \cup Words \/ (Behind(u, p) => Behind(t, p + d)),
         kind = "[PHONE]" => (Behind(t, p + d) => Behind(u, p))
  PROVE  e + d \in Ends(kind, t, p + d)
  <1>1. CASE kind = "[EMAIL]"
    <2>1. \A s, i : Ends(kind, s, i) = EmailEnds(s, i)
      BY <1>1 DEF Ends
    <2> QED
      BY <1>1, <2>1, EmailMoves
  <1>2. CASE kind = "[SSN]"
    <2>1. \A s, i : Ends(kind, s, i) = SsnEnds(s, i)
      BY <1>2 DEF Ends
    <2> QED
      BY <2>1, SsnMoves
  <1>3. CASE kind = "[CREDIT_CARD]"
    <2>1. \A s, i : Ends(kind, s, i) = CardEnds(s, i)
      BY <1>3 DEF Ends
    <2> QED
      BY <2>1, CardMoves
  <1>4. CASE kind = "[PHONE]"
    <2>1. \A s, i : Ends(kind, s, i) = PhoneEnds(s, i)
      BY <1>4 DEF Ends
    <2> QED
      BY <1>4, <2>1, PhoneMoves
  <1>5. CASE kind = "[IP_ADDRESS]"
    <2>1. \A s, i : Ends(kind, s, i) = Ipv4Ends(s, i)
      BY <1>5 DEF Ends
    <2> QED
      BY <2>1, Ipv4Moves
  <1> QED
    BY <1>1, <1>2, <1>3, <1>4, <1>5, KindsAre

\* What the phone pattern can match holds digits and a few characters, so a text in
\* which it finds one of its forms holds runs and those characters only.
PhoneSymbols == {"d", "+", "-", ".", " ", "(", ")"}

LEMMA PhoneFormsHold ==
  PhoneForms \subseteq Seq(PhoneSymbols)
  <1> DEFINE S == Seq(PhoneSymbols)
             sep == {<<>>, <<"-">>, <<".">>, <<" ">>}
  <1>1. \A x \in PhoneSymbols : <<x>> \in S
    BY SingleToken
  <1>2. /\ <<"+">> \in S /\ <<"-">> \in S /\ <<".">> \in S /\ <<" ">> \in S
        /\ <<"(">> \in S /\ <<")">> \in S
    BY <1>1 DEF PhoneSymbols
  <1>3. <<>> \in S
    BY EmptySeq
  <1>4. \A n \in 1 .. 4 : [i \in 1 .. n |-> "d"] \in S
    <2> SUFFICES ASSUME NEW n \in 1 .. 4 PROVE [i \in 1 .. n |-> "d"] \in S
      OBVIOUS
    <2>1. n \in Nat /\ "d" \in PhoneSymbols
      BY DEF PhoneSymbols
    <2> QED
      BY <2>1
  <1>5. ASSUME NEW x \in S, NEW y \in S PROVE x \o y \in S
    BY ConcatProperties
  <1>6. ASSUME NEW A \in SUBSET S, NEW B \in SUBSET S PROVE A \odot B \in SUBSET S
    BY <1>5 DEF \odot
  <1> HIDE DEF S
  <1>7. sep \in SUBSET S
    BY <1>2, <1>3
  <1> HIDE DEF sep
  <1>8. /\ [i \in 1 .. 3 |-> "d"] \in S /\ [i \in 1 .. 4 |-> "d"] \in S
        /\ {[i \in 1 .. n |-> "d"] : n \in 1 .. 3} \in SUBSET S
        /\ {<<"+">>} \in SUBSET S
    <2>1. 3 \in 1 .. 4 /\ 4 \in 1 .. 4 /\ \A n \in 1 .. 3 : n \in 1 .. 4
      OBVIOUS
    <2>2. [i \in 1 .. 3 |-> "d"] \in S /\ [i \in 1 .. 4 |-> "d"] \in S
      BY <1>4, <2>1, Zenon
    <2>3. {[i \in 1 .. n |-> "d"] : n \in 1 .. 3} \in SUBSET S
      BY <1>4, <2>1, Zenon
    <2> QED
      BY <1>2, <2>2, <2>3
  <1> DEFINE ds == {[i \in 1 .. n |-> "d"] : n \in 1 .. 3}
             d3 == [i \in 1 .. 3 |-> "d"]
             d4 == [i \in 1 .. 4 |-> "d"]
             prefix == {<<>>} \cup ({<<"+">>} \odot ds \odot sep)
             area == {d3, <<"(">> \o d3 \o <<")">>}
  <1>9. PhoneForms = prefix \odot area \odot sep \odot {d3} \odot sep \odot {d4}
    BY DEF PhoneForms, sep
  <1>10. ds \in SUBSET S /\ d3 \in S /\ d4 \in S
    BY <1>8
  <1> HIDE DEF ds, d3, d4
  <1>11. prefix \in SUBSET S
    <2>1. ({<<"+">>} \odot ds) \in SUBSET S
      BY <1>6, <1>8, <1>10
    <2>2. ({<<"+">>} \odot ds \odot sep) \in SUBSET S
      BY <1>6, <1>7, <2>1
    <2> QED
      BY <1>3, <2>2
  <1>12. area \in SUBSET S
    <2>1. <<"(">> \o d3 \in S
      BY <1>2, <1>5, <1>10
    <2>2. <<"(">> \o d3 \o <<")">> \in S
      BY <1>2, <1>5, <2>1
    <2> QED
      BY <1>10, <2>2
  <1> HIDE DEF prefix, area
  <1>13. {d3} \in SUBSET S /\ {d4} \in SUBSET S
    BY <1>10
  <1>14. prefix \odot area \in SUBSET S
    BY <1>6, <1>11, <1>12
  <1>15. prefix \odot area \odot sep \in SUBSET S
    BY <1>6, <1>7, <1>14
  <1>16. prefix \odot area \odot sep \odot {d3} \in SUBSET S
    BY <1>6, <1>13, <1>15
  <1>17. prefix \odot area \odot sep \odot {d3} \odot sep \in SUBSET S
    BY <1>6, <1>7, <1>16
  <1>18. prefix \odot area \odot sep \odot {d3} \odot sep \odot {d4} \in SUBSET S
    BY <1>6, <1>13, <1>17
  <1> QED
    BY <1>9, <1>18 DEF S

\* A token that is no run is spelled as it is.
LEMMA SpelledHolds ==
  ASSUME NEW T, NEW text \in Seq(T), NEW i \in 1 .. Len(text), text[i] \notin Runs
  PROVE  \E c \in 1 .. Len(Spelled(text)) : Spelled(text)[c] = text[i]
  <1> DEFINE U == T \cup {"d"}
             V == Seq(U)
             s == [x \in DOMAIN text |-> IF text[x] \notin Runs THEN <<text[x]>>
                                        ELSE [k \in DOMAIN Digits[text[x]] |-> "d"]]
  <1>1. Len(text) \in Nat /\ DOMAIN text = 1 .. Len(text) /\ \A x \in 1 .. Len(text) : text[x] \in T
    BY LenProperties, ElementOfSeq
  <1>2. ASSUME NEW x \in 1 .. Len(text) PROVE s[x] \in V
    <2>1. CASE text[x] \notin Runs
      <3>1. s[x] = <<text[x]>> /\ text[x] \in U
        BY <1>1, <2>1
      <3> QED
        BY <3>1, SingleToken
    <2>2. CASE text[x] \in Runs
      <3> DEFINE n == Len(Digits[text[x]])
      <3>1. Digits[text[x]] \in Seq(0 .. 9)
        BY <2>2, RedactionAssumption DEF RedactionAssumption
      <3>2. n \in Nat /\ DOMAIN Digits[text[x]] = 1 .. n
        BY <3>1, LenProperties
      <3>3. s[x] = [k \in 1 .. n |-> "d"]
        BY <1>1, <2>2, <3>2
      <3> HIDE DEF n, s
      <3>4. [k \in 1 .. n |-> "d"] \in Seq(U)
        BY <3>2
      <3> QED
        BY <3>3, <3>4
    <2> QED
      BY <2>1, <2>2
  <1>3. s[i] = <<text[i]>> /\ Len(s[i]) = 1 /\ s[i][1] = text[i]
    BY <1>1
  <1>4. Spelled(text) = FlattenSeq(s)
    BY DEF Spelled
  <1>5. s = [x \in 1 .. Len(text) |-> s[x]]
    BY <1>1
  <1> HIDE DEF V, s
  <1>6. s \in [1 .. Len(text) -> V]
    BY <1>2, <1>5
  <1>7. s \in Seq(V)
    BY <1>1, <1>6
  <1>8. Len(s) = Len(text)
    BY <1>1, <1>6
  <1>9. s \in Seq(Seq(U))
    BY <1>7 DEF V
  <1>10. 1 \in 1 .. Len(s[i]) /\ i \in 1 .. Len(s)
    BY <1>3, <1>8
  <1> HIDE DEF U
  <1>11. \E c \in 1 .. Len(FlattenSeq(s)) : FlattenSeq(s)[c] = s[i][1]
    BY <1>9, <1>10, FlattenCovers
  <1> QED
    BY <1>3, <1>4, <1>11

\* No match has a placeholder in it.
LEMMA MatchIsPlain ==
  ASSUME NEW T, NEW text \in Seq(T), NEW kind \in Kinds, NEW i \in 1 .. Len(text),
         NEW e \in Ends(kind, text, i), NEW k \in i .. e
  PROVE  text[k] \notin Kinds
  <1>1. Len(text) \in Nat /\ DOMAIN text = 1 .. Len(text) /\ e \in i .. Len(text)
    BY LenProperties, EndsWithin
  <1>2. /\ Kinds \cap {".", "-", "+", " "} = {} /\ Kinds \cap PhoneSymbols = {}
        /\ Kinds \cap (Runs \cup Words \cup Domains) = {}
    BY KindsAre DEF PhoneSymbols, WordLike
  <1>3. CASE kind = "[EMAIL]"
    <2>1. e \in EmailEnds(text, i)
      BY <1>3 DEF Ends
    <2>2. PICK l \in i + 1 .. e :
            /\ text[l] \in Domains
            /\ \A x \in i .. l - 1 : text[x] \in Runs \cup Words \cup {".", "-", "+"}
            /\ \A x \in l + 1 .. e : text[x] \in Runs \cup Words \cup {".", "-"}
      BY <2>1 DEF EmailEnds, AllIn
    <2>3. k = l \/ k \in i .. l - 1 \/ k \in l + 1 .. e
      BY <1>1
    <2> QED
      BY <1>2, <2>2, <2>3
  <1>4. CASE kind = "[SSN]"
    <2>1. e \in SsnEnds(text, i)
      BY <1>4 DEF Ends
    <2>2. /\ e = i + 4
          /\ text[i] \in Runs /\ text[i + 2] \in Runs /\ text[i + 4] \in Runs
          /\ text[i + 1] = "-" /\ text[i + 3] = "-"
      BY <2>1 DEF SsnEnds, IsRun
    <2>3. k \in {i, i + 1, i + 2, i + 3, i + 4}
      BY <1>1, <2>2
    <2> QED
      BY <1>2, <2>2, <2>3
  <1>5. CASE kind = "[CREDIT_CARD]"
    <2>1. text[k] \in Runs \cup {" ", "-"}
      BY <1>5 DEF Ends, CardEnds, AllIn
    <2> QED
      BY <1>2, <2>1
  <1>6. CASE kind = "[PHONE]"
    <2> DEFINE part == SubSeq(text, i, e)
    <2>1. Spelled(part) \in PhoneForms
      BY <1>6 DEF Ends, PhoneEnds
    <2>2. /\ part \in Seq(T) /\ Len(part) = e - i + 1
          /\ \A x \in 1 .. e - i + 1 : part[x] = text[i + x - 1]
      <3>1. i \in Nat \ {0} /\ e \in Nat /\ i <= e + 1 /\ e <= Len(text)
        BY <1>1
      <3> QED
        BY <3>1, PartPlaces
    <2> HIDE DEF part
    <2> DEFINE x == k - i + 1
    <2>3. x \in 1 .. Len(part) /\ part[x] = text[k]
      BY <1>1, <2>2
    <2> HIDE DEF x
    <2>4. CASE text[k] \in Runs
      BY <1>2, <2>4
    <2>5. CASE text[k] \notin Runs
      <3>1. PICK c \in 1 .. Len(Spelled(part)) : Spelled(part)[c] = text[k]
        BY <2>2, <2>3, <2>5, SpelledHolds
      <3>2. Spelled(part)[c] \in PhoneSymbols
        BY <2>1, PhoneFormsHold, ElementOfSeq
      <3> QED
        BY <1>2, <3>1, <3>2
    <2> QED
      BY <2>4, <2>5
  <1>7. CASE kind = "[IP_ADDRESS]"
    <2>1. e \in Ipv4Ends(text, i)
      BY <1>7 DEF Ends
    <2>2. /\ e = i + 6
          /\ \A x \in {i, i + 2, i + 4, i + 6} : text[x] \in Runs
          /\ \A x \in {i + 1, i + 3, i + 5} : text[x] = "."
      BY <2>1 DEF Ipv4Ends, IsOctet
    <2>3. k \in {i, i + 2, i + 4, i + 6} \/ k \in {i + 1, i + 3, i + 5}
      BY <1>1, <2>2
    <2> QED
      BY <1>2, <2>2, <2>3
  <1> QED
    BY <1>3, <1>4, <1>5, <1>6, <1>7, KindsAre
------------------------------------------------------------------------------
(***************************************************************************)
(* Where what a pass puts out comes from                                   *)
(***************************************************************************)
\* The tokens a .. b of the output o stem from the text, moved by d: they were
\* scanned at token i or behind it, in one piece, and what is in front of them and
\* behind them is what was there or the placeholder.  Nothing begins where they
\* began, but for a card number that is left as it is.
Stems(o, a, b, kind, text, i, d) ==
    /\ Moved(o, a, b, text, d)
    /\ a = 1 => a + d = i
    /\ a > 1 => a + d > i /\ o[a - 1] \in {kind, text[(a + d) - 1]}
    /\ b = Len(o) => b + d = Len(text)
    /\ Ends(kind, text, a + d) = {} \/ kind = "[CREDIT_CARD]"

\* What the scan puts out at one token, place by place.
LEMMA EmitsPlaces ==
  ASSUME NEW T, NEW text \in Seq(T), NEW kind \in Kinds, kind \in T,
         NEW i \in 1 .. Len(text), NEW y, y = Emits(kind, text, i), NEW j, j = Taken(kind, text, i)
  PROVE  /\ y \in Seq(T) /\ Len(y) \in Nat \ {0}
         /\ j \in i .. Len(text)
         /\ \/ Len(y) = 1 /\ y[1] = kind
            \/ /\ Len(y) = j - i + 1 /\ \A k \in 1 .. Len(y) : y[k] = text[k + (i - 1)]
               /\ (j = i /\ Ends(kind, text, i) = {}) \/ kind = "[CREDIT_CARD]"
  <1>1. Len(text) \in Nat /\ j \in i .. Len(text)
    BY TakenWithin, LenProperties
  <1>2. /\ y \in Seq(T)
        /\ \/ y = <<kind>>
           \/ /\ y = SubSeq(text, i, j)
              /\ (j = i /\ Ends(kind, text, i) = {}) \/ kind = "[CREDIT_CARD]"
    BY EmitsText
  <1>3. CASE y = <<kind>>
    BY <1>1, <1>2, <1>3
  <1>4. CASE y = SubSeq(text, i, j) /\ y # <<kind>>
    <2>1. i \in Nat \ {0} /\ j \in Nat /\ i <= j + 1 /\ j <= Len(text)
      BY <1>1
    <2>2. Len(y) = j - i + 1 /\ \A k \in 1 .. j - i + 1 : y[k] = text[i + k - 1]
      BY <1>4, <2>1, PartPlaces
    <2>3. \A k \in 1 .. j - i + 1 : i + k - 1 = k + (i - 1)
      BY <2>1
    <2>4. \A k \in 1 .. Len(y) : y[k] = text[k + (i - 1)]
      BY <2>2, <2>3
    <2> QED
      BY <1>1, <1>2, <1>4, <2>1, <2>2, <2>4
  <1> QED
    BY <1>2, <1>3, <1>4

\* What the scan puts out before the end of the text is not empty.
LEMMA ScanPutsOut ==
  ASSUME NEW T, NEW text \in Seq(T), NEW kind \in Kinds, kind \in T, NEW i \in 1 .. Len(text)
  PROVE  Scan(kind, text)[i] # <<>>
  <1> DEFINE y == Emits(kind, text, i)
             j == Taken(kind, text, i)
             r == Scan(kind, text)[j + 1]
  <1>1. y \in Seq(T) /\ Len(y) \in Nat \ {0} /\ j \in i .. Len(text)
    BY EmitsPlaces
  <1>2. Len(text) \in Nat
    BY LenProperties
  <1>3. r \in Seq(T)
    BY <1>1, <1>2, ScanUnfolds
  <1>4. Scan(kind, text)[i] = Joined(y, r)
    BY ScanUnfolds
  <1> HIDE DEF y, r
  <1>5. Joins(Joined(y, r), y, r)
    BY <1>1, <1>3, JoinedText, ConcatPlaces
  <1>6. Len(Joined(y, r)) # 0
    BY <1>1, <1>5 DEF Joins
  <1> QED
    BY <1>4, <1>6, EmptySeq

\* Tokens behind what is put out first stem from where the rest stems from.
LEMMA StemsBehind ==
  ASSUME NEW o, NEW y, NEW r, Joins(o, y, r), NEW kind, NEW text,
         NEW i \in Nat, NEW j \in Nat, i <= j, Len(y) > 0,
         \/ Len(y) = 1 /\ y[1] = kind
         \/ Len(y) = j - i + 1 /\ \A k \in 1 .. Len(y) : y[k] = text[k + (i - 1)],
         NEW a \in Nat, NEW b \in Nat, a > Len(y), a <= b, b <= Len(o),
         NEW d \in Int, Stems(r, a - Len(y), b - Len(y), kind, text, j + 1, d)
  PROVE  Stems(o, a, b, kind, text, i, d - Len(y))
  <1> DEFINE n == Len(y)
             m == Len(r)
  <1>1. /\ n \in Nat \ {0} /\ m \in Nat /\ Len(o) = n + m
        /\ \A k \in 1 .. n : o[k] = y[k]
        /\ \A k \in 1 .. m : o[n + k] = r[k]
    BY DEF Joins
  <1>2. /\ a - n >= 1 /\ b - n <= m /\ a - n <= b - n
    BY <1>1
  <1>3. /\ (a - n) + d >= 1 /\ (b - n) + d <= Len(text)
        /\ \A k \in a - n .. b - n : text[k + d] = r[k]
    BY DEF Stems, Moved
  <1>4. /\ a - n = 1 => (a - n) + d = j + 1
        /\ a - n > 1 => (a - n) + d > j + 1 /\ r[(a - n) - 1] \in {kind, text[((a - n) + d) - 1]}
        /\ b - n = m => (b - n) + d = Len(text)
        /\ Ends(kind, text, (a - n) + d) = {} \/ kind = "[CREDIT_CARD]"
    BY DEF Stems
  <1> DEFINE c == d - n
  <1>5. c \in Int /\ (a - n) + d = a + c /\ (b - n) + d = b + c
    BY <1>1
  <1>6. Moved(o, a, b, text, c)
    <2>1. a + c >= 1 /\ b + c <= Len(text)
      BY <1>3, <1>5
    <2>2. ASSUME NEW k \in a .. b PROVE text[k + c] = o[k]
      <3>1. /\ k - n \in a - n .. b - n /\ k - n \in 1 .. m /\ n + (k - n) = k
            /\ (k - n) + d = k + c
        BY <1>1, <1>2
      <3>2. o[n + (k - n)] = r[k - n] /\ text[(k - n) + d] = r[k - n]
        BY <1>1, <1>3, <3>1
      <3> QED
        BY <3>1, <3>2
    <2> HIDE DEF c
    <2> QED
      BY <1>5, <2>1, <2>2 DEF Moved
  <1>7. a > 1 /\ a + c > i
    BY <1>1, <1>2, <1>4, <1>5
  <1>8. o[a - 1] \in {kind, text[(a + c) - 1]}
    <2>1. CASE a - n > 1
      <3>1. r[(a - n) - 1] \in {kind, text[(a + c) - 1]}
        BY <1>4, <1>5, <2>1
      <3>2. (a - n) - 1 \in 1 .. m /\ n + ((a - n) - 1) = a - 1
        <4>1. n \in Nat /\ m \in Nat
          BY <1>1
        <4> HIDE DEF n, m
        <4> QED
          BY <1>2, <2>1, <4>1
      <3>3. o[a - 1] = r[(a - n) - 1]
        BY <1>1, <3>2
      <3> QED
        BY <3>1, <3>3
    <2>2. CASE a - n = 1
      <3>1. (a + c) - 1 = j /\ a - 1 = n
        BY <1>1, <1>4, <1>5, <2>2
      <3>2. o[n] = y[n]
        BY <1>1
      <3>3. CASE n = 1 /\ y[1] = kind
        BY <3>1, <3>2, <3>3
      <3>4. CASE n = j - i + 1 /\ \A k \in 1 .. n : y[k] = text[k + (i - 1)]
        <4>1. n \in 1 .. n /\ n + (i - 1) = j
          BY <1>1, <3>4
        <4>2. y[n] = text[j]
          BY <3>4, <4>1
        <4> QED
          BY <3>1, <3>2, <4>2
      <3> QED
        BY <3>3, <3>4
    <2> QED
      BY <1>2, <2>1, <2>2
  <1>9. /\ b = Len(o) => b + c = Len(text)
        /\ Ends(kind, text, a + c) = {} \/ kind = "[CREDIT_CARD]"
    <2>1. b = Len(o) => b - n = m
      BY <1>1
    <2> QED
      BY <1>4, <1>5, <2>1
  <1> HIDE DEF c
  <1>10. Stems(o, a, b, kind, text, i, c)
    BY <1>6, <1>7, <1>8, <1>9 DEF Stems
  <1> QED
    BY <1>10 DEF c

\* Tokens that begin in what is put out first begin where that was scanned.
LEMMA StemsHere ==
  ASSUME NEW o, NEW y, NEW r, Joins(o, y, r), NEW kind, NEW text,
         NEW i \in Nat \ {0}, NEW j \in Nat, i <= j, j <= Len(text), Len(text) \in Nat,
         Len(y) = j - i + 1, \A k \in 1 .. Len(y) : y[k] = text[k + (i - 1)],
         (j = i /\ Ends(kind, text, i) = {}) \/ kind = "[CREDIT_CARD]",
         NEW a \in Nat \ {0}, NEW b \in Nat, a <= Len(y), a <= b, b <= Len(o),
         Len(r) = 0 => j = Len(text),
         b > Len(y) => \E d \in Int : Stems(r, 1, b - Len(y), kind, text, j + 1, d)
  PROVE  Stems(o, a, b, kind, text, i, i - 1)
  <1> DEFINE n == Len(y)
             m == Len(r)
             c == i - 1
  <1>1. /\ n \in Nat \ {0} /\ m \in Nat /\ Len(o) = n + m
        /\ \A k \in 1 .. n : o[k] = text[k + c]
        /\ \A k \in 1 .. m : o[n + k] = r[k]
    BY DEF Joins
  <1>2. c \in Nat /\ n + c = j /\ i = c + 1
    OBVIOUS
  <1>3. b > n => /\ (b - n) + j <= Len(text)
                 /\ \A k \in 1 .. b - n : text[k + j] = r[k]
                 /\ b - n = m => (b - n) + j = Len(text)
    <2> SUFFICES ASSUME b > n
                 PROVE  /\ (b - n) + j <= Len(text)
                        /\ \A k \in 1 .. b - n : text[k + j] = r[k]
                        /\ b - n = m => (b - n) + j = Len(text)
      OBVIOUS
    <2>1. PICK d \in Int : Stems(r, 1, b - n, kind, text, j + 1, d)
      OBVIOUS
    <2>2. 1 + d = j + 1
      BY <2>1 DEF Stems
    <2>3. d = j
      BY <2>2
    <2> QED
      BY <2>1, <2>3 DEF Stems, Moved
  <1> HIDE DEF c, n, m
  <1>4. \A k \in a .. b : text[k + c] = o[k]
    <2> TAKE k \in a .. b
    <2>1. CASE k <= n
      <3>1. k \in 1 .. n
        BY <1>1, <2>1
      <3> QED
        BY <1>1, <3>1
    <2>2. CASE k > n
      <3>1. b > n /\ k - n \in 1 .. b - n /\ k - n \in 1 .. m /\ n + (k - n) = k /\ (k - n) + j = k + c
        BY <1>1, <1>2, <2>2 DEF n
      <3>2. o[n + (k - n)] = r[k - n] /\ text[(k - n) + j] = r[k - n]
        BY <1>1, <1>3, <3>1
      <3> QED
        BY <3>1, <3>2
    <2> QED
      BY <1>1, <2>1, <2>2
  <1>5. b + c <= Len(text)
    <2>1. b <= n => b + c <= j
      BY <1>1, <1>2
    <2>2. b > n => (b - n) + j = b + c
      BY <1>1, <1>2
    <2>3. b > n => b + c <= Len(text)
      BY <1>3, <2>2
    <2>4. b <= n => b + c <= Len(text)
      BY <1>2, <2>1
    <2>5. b <= n \/ b > n
      BY <1>1
    <2> QED
      BY <2>3, <2>4, <2>5
  <1>6. Moved(o, a, b, text, c)
    <2>1. c \in Int /\ a + c >= 1
      BY <1>2
    <2> QED
      BY <1>4, <1>5, <2>1 DEF Moved
  <1>7. a > 1 => a + c > i /\ o[a - 1] = text[(a + c) - 1]
    <2> SUFFICES ASSUME a > 1 PROVE a + c > i /\ o[a - 1] = text[(a + c) - 1]
      OBVIOUS
    <2>1. a - 1 \in 1 .. n /\ (a - 1) + c = (a + c) - 1 /\ a + c > i
      BY <1>1, <1>2 DEF n
    <2> QED
      BY <1>1, <2>1
  <1>8. b = Len(o) => b + c = Len(text)
    <2> SUFFICES ASSUME b = Len(o) PROVE b + c = Len(text)
      OBVIOUS
    <2>1. CASE b > n
      <3>1. b - n = m /\ (b - n) + j = b + c
        BY <1>1, <1>2, <2>1
      <3> QED
        BY <1>3, <2>1, <3>1
    <2>2. CASE b <= n
      <3>1. m = 0 /\ b = n
        BY <1>1, <2>2
      <3> QED
        BY <1>2, <3>1 DEF m
    <2> QED
      BY <1>1, <2>1, <2>2
  <1>9. Ends(kind, text, a + c) = {} \/ kind = "[CREDIT_CARD]"
    <2> SUFFICES ASSUME kind # "[CREDIT_CARD]" PROVE Ends(kind, text, a + c) = {}
      OBVIOUS
    <2>1. a = 1 /\ a + c = i
      BY <1>2 DEF n
    <2> QED
      BY <2>1
  <1>10. a = 1 => a + c = i
    BY <1>2
  <1>11. Stems(o, a, b, kind, text, i, c)
    BY <1>6, <1>7, <1>8, <1>9, <1>10 DEF Stems
  <1> QED
    BY <1>11 DEF c

\* The second part of a sequence, place by place.
LEMMA SecondPart ==
  ASSUME NEW o, NEW y, NEW r, Joins(o, y, r), NEW k \in 1 .. Len(r)
  PROVE  o[Len(y) + k] = r[k]
  BY DEF Joins

\* Every piece of the output that has no placeholder of the pass stems from the text.
AllStem(o, kind, text, i) ==
    \A a, b \in 1 .. Len(o) :
        a <= b /\ (\A k \in a .. b : o[k] # kind) =>
            \E d \in Int : Stems(o, a, b, kind, text, i, d)

LEMMA ScanStems ==
  ASSUME NEW T, NEW text \in Seq(T), NEW kind \in Kinds, kind \in T
  PROVE  \A i \in 1 .. Len(text) + 1 : AllStem(Scan(kind, text)[i], kind, text, i)
  <1> DEFINE n == Len(text)
             G == Scan(kind, text)
             S == {i \in 1 .. n + 1 : AllStem(G[i], kind, text, i)}
  <1>1. n \in Nat
    BY LenProperties
  <1>2. /\ G[n + 1] = <<>>
        /\ \A i \in 1 .. n + 1 : G[i] \in Seq(T)
        /\ \A i \in 1 .. n : G[i] = Joined(Emits(kind, text, i), G[Taken(kind, text, i) + 1])
        /\ \A i \in 1 .. n : G[i] # <<>>
    BY ScanUnfolds, ScanPutsOut
  <1> HIDE DEF G
  <1>3. n + 1 \in S
    <2>1. AllStem(G[n + 1], kind, text, n + 1)
      BY <1>2 DEF AllStem
    <2> QED
      BY <1>1, <2>1
  <1>4. ASSUME NEW i \in 1 .. n, \A k \in i + 1 .. n + 1 : k \in S PROVE i \in S
    <2> DEFINE y == Emits(kind, text, i)
               j == Taken(kind, text, i)
               o == G[i]
               r == G[j + 1]
    <2>1. /\ y \in Seq(T) /\ Len(y) \in Nat \ {0}
          /\ j \in i .. n
          /\ \/ Len(y) = 1 /\ y[1] = kind
             \/ /\ Len(y) = j - i + 1 /\ \A k \in 1 .. Len(y) : y[k] = text[k + (i - 1)]
                /\ (j = i /\ Ends(kind, text, i) = {}) \/ kind = "[CREDIT_CARD]"
      BY EmitsPlaces
    <2>2. o = Joined(y, r)
      BY <1>2
    <2> HIDE DEF y, j
    <2>3. i \in Nat \ {0} /\ j \in Nat /\ i <= j /\ j <= n /\ j + 1 \in i + 1 .. n + 1
          /\ j + 1 \in 1 .. n + 1
      BY <1>1, <2>1
    <2>4. r \in Seq(T) /\ AllStem(r, kind, text, j + 1)
      BY <1>2, <1>4, <2>3
    <2>5. Len(r) \in Nat /\ (Len(r) = 0 => j = n)
      <3>1. Len(r) = 0 => r = <<>>
        BY <2>4, EmptySeq
      <3>2. j # n => j + 1 \in 1 .. n
        BY <1>1, <2>3
      <3> QED
        BY <1>2, <2>4, <3>1, <3>2, LenProperties
    <2> HIDE DEF o, r
    <2>6. Joins(o, y, r)
      BY <2>1, <2>2, <2>4, JoinedText, ConcatPlaces
    <2>7. ASSUME NEW a \in 1 .. Len(o), NEW b \in 1 .. Len(o), a <= b, \A k \in a .. b : o[k] # kind
          PROVE  \E d \in Int : Stems(o, a, b, kind, text, i, d)
      <3>1. /\ a \in Nat \ {0} /\ b \in Nat /\ b <= Len(o) /\ Len(o) = Len(y) + Len(r)
            /\ \A k \in 1 .. Len(y) : o[k] = y[k]
            /\ \A k \in 1 .. Len(r) : o[Len(y) + k] = r[k]
        BY <2>6 DEF Joins
      <3> DEFINE l == Len(y)
      <3>2. ASSUME b > l, NEW c \in 1 .. b - l, l + c >= a
            PROVE  \E d \in Int : Stems(r, c, b - l, kind, text, j + 1, d)
        <4>1. c \in 1 .. Len(r) /\ b - l \in 1 .. Len(r) /\ c <= b - l
          BY <2>1, <2>5, <3>1, <3>2
        <4>2. \A k \in c .. b - l : l + k \in a .. b /\ k \in 1 .. Len(r)
          BY <2>1, <2>5, <3>1, <3>2, <4>1
        <4>3. ASSUME NEW k \in c .. b - l PROVE r[k] # kind
          <5>1. o[l + k] # kind
            BY <2>7, <4>2
          <5>2. o[Len(y) + k] = r[k]
            <6>1. k \in 1 .. Len(r)
              BY <4>2
            <6> HIDE DEF l
            <6> QED
              BY <2>6, <6>1, SecondPart
          <5> QED
            BY <5>1, <5>2
        <4> HIDE DEF l
        <4> QED
          BY <2>4, <4>1, <4>3 DEF AllStem
      <3>3. CASE a > l
        <4>1. b > l /\ a - l \in 1 .. b - l /\ l + (a - l) >= a
          BY <2>1, <2>7, <3>1, <3>3
        <4>2. PICK d \in Int : Stems(r, a - l, b - l, kind, text, j + 1, d)
          BY <3>2, <4>1
        <4>3. /\ i \in Nat /\ Len(y) > 0
              /\ \/ Len(y) = 1 /\ y[1] = kind
                 \/ Len(y) = j - i + 1 /\ \A k \in 1 .. Len(y) : y[k] = text[k + (i - 1)]
          BY <2>1, <2>3
        <4>4. Stems(o, a, b, kind, text, i, d - Len(y))
          BY <2>3, <2>6, <2>7, <3>1, <3>3, <4>2, <4>3, StemsBehind
        <4>5. d - Len(y) \in Int
          BY <2>1
        <4> QED
          BY <4>4, <4>5
      <3>4. CASE a <= l
        <4>1. a \in a .. b /\ a \in 1 .. l /\ o[a] = y[a] /\ o[a] # kind
          BY <2>1, <2>7, <3>1, <3>4
        <4>2. /\ Len(y) = j - i + 1 /\ \A k \in 1 .. Len(y) : y[k] = text[k + (i - 1)]
              /\ (j = i /\ Ends(kind, text, i) = {}) \/ kind = "[CREDIT_CARD]"
          <5>1. Len(y) = 1 => a = 1
            BY <4>1
          <5> QED
            BY <2>1, <4>1, <5>1
        <4>3. b > l => \E d \in Int : Stems(r, 1, b - l, kind, text, j + 1, d)
          <5>1. b > l => 1 \in 1 .. b - l /\ l + 1 >= a
            BY <2>1, <3>1, <3>4
          <5> QED
            BY <3>2, <5>1
        <4>4. Stems(o, a, b, kind, text, i, i - 1)
          BY <1>1, <2>3, <2>5, <2>6, <2>7, <3>1, <3>4, <4>2, <4>3, StemsHere
        <4>5. i - 1 \in Int
          BY <2>3
        <4> QED
          BY <4>4, <4>5
      <3> QED
        BY <2>1, <3>1, <3>3, <3>4
    <2>8. AllStem(o, kind, text, i)
      BY <2>7 DEF AllStem
    <2> QED
      BY <2>8 DEF o
  <1> HIDE DEF S
  <1>5. 1 .. n + 1 \subseteq S
    BY <1>1, <1>3, <1>4, DownwardInduction
  <1> QED
    BY <1>5 DEF S, G

\* What a pass makes of a text is a text, whose pieces stem from it.
LEMMA SubStems ==
  ASSUME NEW T, NEW text \in Seq(T), NEW kind \in Kinds, kind \in T
  PROVE  /\ Sub(kind, text) \in Seq(T)
         /\ AllStem(Sub(kind, text), kind, text, 1)
  <1>1. 1 \in 1 .. Len(text) + 1
    BY LenProperties
  <1> QED
    BY <1>1, ScanUnfolds, ScanStems, SubIsScan
------------------------------------------------------------------------------
(***************************************************************************)
(* What remains                                                            *)
(***************************************************************************)
\* Only a phone number can still be found, right behind a placeholder.
Clean(kind, text) ==
    \A i \in 1 .. Len(text) :
        Ends(kind, text, i) # {} =>
            /\ kind = "[PHONE]" /\ i > 1
            /\ text[i - 1] \in {"[PHONE]", "[IP_ADDRESS]"}

\* A match that is left after a pass was one before, unless it is a phone number behind
\* a placeholder.
LEMMA LeftoverWasMatch ==
  ASSUME NEW T, NEW text \in Seq(T), NEW kind \in Kinds, kind \in T,
         NEW left \in Kinds, NEW a \in 1 .. Len(Sub(kind, text)), NEW b \in Ends(left, Sub(kind, text), a)
  PROVE  \E d \in Int :
            /\ Stems(Sub(kind, text), a, b, kind, text, 1, d)
            /\ a + d \in 1 .. Len(text)
            /\ Ends(left, text, a + d) # {} \/ (left = "[PHONE]" /\ a > 1 /\ Sub(kind, text)[a - 1] = kind)
  <1> DEFINE o == Sub(kind, text)
  <1>1. o \in Seq(T) /\ AllStem(o, kind, text, 1)
    BY SubStems
  <1>2. Len(o) \in Nat /\ Len(text) \in Nat
    BY <1>1, LenProperties
  <1> HIDE DEF o
  <1>3. a \in 1 .. Len(o) /\ b \in Ends(left, o, a)
    BY DEF o
  <1>4. b \in a .. Len(o)
    BY <1>1, <1>3, EndsWithin
  <1>5. \A k \in a .. b : o[k] # kind
    BY <1>1, <1>3, MatchIsPlain
  <1>6. PICK d \in Int : Stems(o, a, b, kind, text, 1, d)
    <2>1. b \in 1 .. Len(o) /\ a <= b
      BY <1>2, <1>3, <1>4
    <2> QED
      BY <1>1, <1>3, <1>5, <2>1 DEF AllStem
  <1>7. /\ Moved(o, a, b, text, d)
        /\ a = 1 => a + d = 1
        /\ a > 1 => a + d > 1 /\ o[a - 1] \in {kind, text[(a + d) - 1]}
    BY <1>6 DEF Stems
  <1>8. a + d \in 1 .. Len(text)
    BY <1>2, <1>3, <1>4, <1>7 DEF Moved
  <1>9. a = 1 \/ a > 1
    BY <1>2, <1>3
  <1>10. kind \notin WordLike
    BY KindsAre
  <1>11. Behind(o, a) => Behind(text, a + d)
    BY <1>7, <1>10 DEF Behind
  <1>12. CASE left = "[PHONE]" /\ a > 1 /\ o[a - 1] = kind
    BY <1>6, <1>8, <1>12 DEF o
  <1>13. CASE ~(left = "[PHONE]" /\ a > 1 /\ o[a - 1] = kind)
    <2>1. left = "[PHONE]" => (Behind(text, a + d) => Behind(o, a))
      BY <1>7, <1>9, <1>13 DEF Behind
    <2>2. b + d \in Ends(left, text, a + d)
      BY <1>1, <1>3, <1>7, <1>11, <2>1, MatchMoves
    <2> QED
      BY <1>6, <1>8, <2>2 DEF o
  <1> QED
    BY <1>12, <1>13

\* A pass leaves nothing of its kind, cards with a wrong check digit aside.
LEMMA SubCleans ==
  ASSUME NEW T, NEW text \in Seq(T), NEW kind \in Kinds, kind \in T, kind # "[CREDIT_CARD]"
  PROVE  Clean(kind, Sub(kind, text))
  <1> DEFINE o == Sub(kind, text)
  <1> SUFFICES ASSUME NEW a \in 1 .. Len(o), Ends(kind, o, a) # {}
               PROVE  kind = "[PHONE]" /\ a > 1 /\ o[a - 1] \in {"[PHONE]", "[IP_ADDRESS]"}
    BY DEF Clean
  <1>1. PICK b : b \in Ends(kind, o, a)
    OBVIOUS
  <1>2. PICK d \in Int :
           /\ Stems(o, a, b, kind, text, 1, d)
           /\ Ends(kind, text, a + d) # {} \/ (kind = "[PHONE]" /\ a > 1 /\ o[a - 1] = kind)
    BY <1>1, LeftoverWasMatch
  <1>3. Ends(kind, text, a + d) = {}
    BY <1>2 DEF Stems
  <1> QED
    BY <1>2, <1>3

\* And nothing of an earlier kind comes up again.
LEMMA SubKeepsClean ==
  ASSUME NEW T, NEW text \in Seq(T), NEW kind \in Kinds, kind \in T, NEW left \in Kinds,
         Clean(left, text), left = "[PHONE]" => kind = "[IP_ADDRESS]"
  PROVE  Clean(left, Sub(kind, text))
  <1> DEFINE o == Sub(kind, text)
  <1> SUFFICES ASSUME NEW a \in 1 .. Len(o), Ends(left, o, a) # {}
               PROVE  left = "[PHONE]" /\ a > 1 /\ o[a - 1] \in {"[PHONE]", "[IP_ADDRESS]"}
    BY DEF Clean
  <1>1. PICK b : b \in Ends(left, o, a)
    OBVIOUS
  <1>2. PICK d \in Int :
           /\ Stems(o, a, b, kind, text, 1, d)
           /\ a + d \in 1 .. Len(text)
           /\ Ends(left, text, a + d) # {} \/ (left = "[PHONE]" /\ a > 1 /\ o[a - 1] = kind)
    BY <1>1, LeftoverWasMatch
  <1>3. CASE left = "[PHONE]" /\ a > 1 /\ o[a - 1] = kind
    BY <1>3
  <1>4. CASE Ends(left, text, a + d) # {}
    <2>1. left = "[PHONE]" /\ a + d > 1 /\ text[(a + d) - 1] \in {"[PHONE]", "[IP_ADDRESS]"}
      BY <1>2, <1>4 DEF Clean
    <2>2. /\ a = 1 => a + d = 1
          /\ a > 1 => o[a - 1] \in {kind, text[(a + d) - 1]}
      BY <1>2 DEF Stems
    <2>3. a > 1
      <3>1. a = 1 \/ a > 1
        OBVIOUS
      <3> QED
        BY <2>1, <2>2, <3>1
    <2> QED
      BY <2>1, <2>2, <2>3
  <1> QED
    BY <1>2, <1>3, <1>4
------------------------------------------------------------------------------
(***************************************************************************)
(* The five passes                                                         *)
(***************************************************************************)
\* g is the table of what the passes of each set make of the text.
PassTable(g, text) ==
    g = [s \in SUBSET DOMAIN Passes |->
            IF s = {} THEN text ELSE Sub(Passes[Max(s)], g[s \ {Max(s)}])]

\* What the n-th pass makes of t, if it is one of s.
AfterPass(n, s, t) == IF n \in s THEN Sub(Passes[n], t) ELSE t

\* Such a table can be written down, for there are five passes.
LEMMA PassTableExists ==
  ASSUME NEW text
  PROVE  \E g : PassTable(g, text)
  <1> DEFINE P == SUBSET DOMAIN Passes
             V(s) == AfterPass(5, s, AfterPass(4, s, AfterPass(3, s,
                        AfterPass(2, s, AfterPass(1, s, text)))))
             g == [s \in P |-> V(s)]
  <1>1. DOMAIN Passes = {1, 2, 3, 4, 5}
    BY DEF Passes
  <1>2. ASSUME NEW s \in P, s = {} PROVE V(s) = text
    BY <1>2 DEF AfterPass
  <1>3. ASSUME NEW s \in P, s # {}
        PROVE  s \ {Max(s)} \in P /\ V(s) = Sub(Passes[Max(s)], V(s \ {Max(s)}))
    <2> DEFINE m == Max(s)
               r == s \ {m}
    <2>1. m \in s /\ \A y \in s : m >= y
      <3>1. s \in SUBSET Nat /\ 5 \in Nat /\ \A y \in s : y <= 5
        BY <1>1
      <3> QED
        BY <1>3, <3>1, MaxOfNaturals
    <2> HIDE DEF m
    <2>2. m \in {1, 2, 3, 4, 5} /\ \A y \in {1, 2, 3, 4, 5} : y > m => y \notin s
      BY <1>1, <2>1
    <2>3. /\ m \notin r /\ r \in P
          /\ \A y \in {1, 2, 3, 4, 5} : y # m => (y \in s <=> y \in r)
      OBVIOUS
    <2>4. ASSUME NEW y \in {1, 2, 3, 4, 5}, NEW t
          PROVE  /\ y < m => AfterPass(y, s, t) = AfterPass(y, r, t)
                 /\ y = m => AfterPass(y, s, t) = Sub(Passes[m], t) /\ AfterPass(y, r, t) = t
                 /\ y > m => AfterPass(y, s, t) = t /\ AfterPass(y, r, t) = t
      <3> HIDE DEF r
      <3> QED
        BY <2>1, <2>2, <2>3 DEF AfterPass
    <2> HIDE DEF r
    <2>5. CASE m = 1
      <3>1. /\ AfterPass(1, s, text) = Sub(Passes[m], text) /\ AfterPass(1, r, text) = text
            /\ \A t : \A y \in {2, 3, 4, 5} : AfterPass(y, s, t) = t /\ AfterPass(y, r, t) = t
        BY <2>4, <2>5
      <3> QED
        BY <2>3, <3>1 DEF r, m
    <2>6. CASE m = 2
      <3>1. /\ \A t : AfterPass(1, s, t) = AfterPass(1, r, t)
            /\ \A t : AfterPass(2, s, t) = Sub(Passes[m], t) /\ AfterPass(2, r, t) = t
            /\ \A t : \A y \in {3, 4, 5} : AfterPass(y, s, t) = t /\ AfterPass(y, r, t) = t
        BY <2>4, <2>6
      <3> QED
        BY <2>3, <3>1 DEF r, m
    <2>7. CASE m = 3
      <3>1. /\ \A t : \A y \in {1, 2} : AfterPass(y, s, t) = AfterPass(y, r, t)
            /\ \A t : AfterPass(3, s, t) = Sub(Passes[m], t) /\ AfterPass(3, r, t) = t
            /\ \A t : \A y \in {4, 5} : AfterPass(y, s, t) = t /\ AfterPass(y, r, t) = t
        BY <2>4, <2>7
      <3> QED
        BY <2>3, <3>1 DEF r, m
    <2>8. CASE m = 4
      <3>1. /\ \A t : \A y \in {1, 2, 3} : AfterPass(y, s, t) = AfterPass(y, r, t)
            /\ \A t : AfterPass(4, s, t) = Sub(Passes[m], t) /\ AfterPass(4, r, t) = t
            /\ \A t : AfterPass(5, s, t) = t /\ AfterPass(5, r, t) = t
        BY <2>4, <2>8
      <3> QED
        BY <2>3, <3>1 DEF r, m
    <2>9. CASE m = 5
      <3>1. /\ \A t : \A y \in {1, 2, 3, 4} : AfterPass(y, s, t) = AfterPass(y, r, t)
            /\ \A t : AfterPass(5, s, t) = Sub(Passes[m], t) /\ AfterPass(5, r, t) = t
        BY <2>4, <2>9
      <3> QED
        BY <2>3, <3>1 DEF r, m
    <2> QED
      BY <2>2, <2>5, <2>6, <2>7, <2>8, <2>9
  <1> HIDE DEF V, P
  <1>4. g = [s \in P |-> IF s = {} THEN text ELSE Sub(Passes[Max(s)], g[s \ {Max(s)}])]
    BY <1>2, <1>3
  <1> HIDE DEF g
  <1>5. PassTable(g, text)
    BY <1>4 DEF PassTable, P
  <1> QED
    BY <1>5

\* The passes one after the other.
LEMMA RedactionUnrolled ==
  ASSUME NEW text
  PROVE  redact_pii(text) =
            Sub("[IP_ADDRESS]", Sub("[PHONE]", Sub("[CREDIT_CARD]", Sub("[SSN]", Sub("[EMAIL]", text)))))
  <1> DEFINE G == CHOOSE g : PassTable(g, text)
  <1>1. redact_pii(text) = G[DOMAIN Passes]
    BY DEF redact_pii, FoldLeft, MapThenFoldSet, PassTable
  <1>2. PassTable(G, text)
    BY PassTableExists
  <1> HIDE DEF G
  <1>3. DOMAIN Passes = 1 .. 5
    BY DEF Passes
  <1>4. G[{}] = text
    BY <1>2 DEF PassTable
  <1>5. ASSUME NEW k \in 1 .. 5 PROVE G[1 .. k] = Sub(Passes[k], G[1 .. k - 1])
    <2> DEFINE s == 1 .. k
    <2>1. s \in SUBSET Nat /\ s # {} /\ k \in Nat /\ (\A y \in s : y <= k) /\ k \in s
      OBVIOUS
    <2>2. s \in SUBSET DOMAIN Passes /\ s \ {k} = 1 .. k - 1
      BY <1>3
    <2> HIDE DEF s
    <2>3. Max(s) \in s /\ \A y \in s : Max(s) >= y
      BY <2>1, MaxOfNaturals
    <2> DEFINE m == Max(s)
    <2> HIDE DEF m
    <2>4. m = k
      <3>1. m \in s /\ \A y \in s : m >= y
        BY <2>3 DEF m
      <3>2. m \in Nat /\ m <= k /\ m >= k
        BY <2>1, <3>1
      <3> QED
        BY <2>1, <3>2
    <2>5. G[s] = Sub(Passes[k], G[s \ {k}])
      BY <1>2, <2>1, <2>2, <2>4 DEF PassTable, m
    <2> QED
      BY <2>2, <2>5 DEF s
  <1>6. 1 .. 1 - 1 = {}
    OBVIOUS
  <1>7. /\ Passes[1] = "[EMAIL]" /\ Passes[2] = "[SSN]" /\ Passes[3] = "[CREDIT_CARD]"
        /\ Passes[4] = "[PHONE]" /\ Passes[5] = "[IP_ADDRESS]"
    BY DEF Passes
  <1>8. /\ G[1 .. 1] = Sub(Passes[1], G[1 .. 1 - 1])
        /\ G[1 .. 2] = Sub(Passes[2], G[1 .. 1])
        /\ G[1 .. 3] = Sub(Passes[3], G[1 .. 2])
        /\ G[1 .. 4] = Sub(Passes[4], G[1 .. 3])
        /\ G[1 .. 5] = Sub(Passes[5], G[1 .. 4])
    <2>1. 2 - 1 = 1 /\ 3 - 1 = 2 /\ 4 - 1 = 3 /\ 5 - 1 = 4 /\ {1, 2, 3, 4, 5} \subseteq 1 .. 5
      OBVIOUS
    <2> QED
      BY <1>5, <2>1
  <1> QED
    BY <1>1, <1>3, <1>4, <1>6, <1>7, <1>8

\* What redact_pii leaves of the five kinds: card numbers with a wrong check digit, and
\* phone numbers that touch what was redacted in front of them.
LEMMA RedactedIsClean ==
  ASSUME NEW T, NEW text \in Seq(T), Kinds \subseteq T
  PROVE  /\ redact_pii(text) \in Seq(T)
         /\ \A kind \in Kinds \ {"[CREDIT_CARD]"} : Clean(kind, redact_pii(text))
  <1> DEFINE t1 == Sub("[EMAIL]", text)
             t2 == Sub("[SSN]", t1)
             t3 == Sub("[CREDIT_CARD]", t2)
             t4 == Sub("[PHONE]", t3)
             t5 == Sub("[IP_ADDRESS]", t4)
  <1>1. redact_pii(text) = t5
    BY RedactionUnrolled
  <1>2. /\ "[EMAIL]" \in Kinds /\ "[SSN]" \in Kinds /\ "[CREDIT_CARD]" \in Kinds
        /\ "[PHONE]" \in Kinds /\ "[IP_ADDRESS]" \in Kinds
        /\ "[EMAIL]" \in T /\ "[SSN]" \in T /\ "[CREDIT_CARD]" \in T
        /\ "[PHONE]" \in T /\ "[IP_ADDRESS]" \in T
    BY KindsAre
  <1>3. t1 \in Seq(T) /\ Clean("[EMAIL]", t1)
    BY <1>2, SubStems, SubCleans
  <1> HIDE DEF t1
  <1>4. t2 \in Seq(T) /\ Clean("[EMAIL]", t2) /\ Clean("[SSN]", t2)
    BY <1>2, <1>3, SubStems, SubCleans, SubKeepsClean
  <1> HIDE DEF t2
  <1>5. t3 \in Seq(T) /\ Clean("[EMAIL]", t3) /\ Clean("[SSN]", t3)
    BY <1>2, <1>4, SubStems, SubKeepsClean
  <1> HIDE DEF t3
  <1>6. t4 \in Seq(T) /\ Clean("[EMAIL]", t4) /\ Clean("[SSN]", t4) /\ Clean("[PHONE]", t4)
    BY <1>2, <1>5, SubStems, SubCleans, SubKeepsClean
  <1> HIDE DEF t4
  <1>7. t5 \in Seq(T) /\ Clean("[EMAIL]", t5) /\ Clean("[SSN]", t5) /\ Clean("[PHONE]", t5)
        /\ Clean("[IP_ADDRESS]", t5)
    BY <1>2, <1>6, SubStems, SubCleans, SubKeepsClean
  <1> HIDE DEF t5
  <1> QED
    BY <1>1, <1>7, KindsAre
------------------------------------------------------------------------------
(***************************************************************************)
(* A text in three parts                                                   *)
(***************************************************************************)
\* t is p, x and q in a row.
Splits(t, p, x, q) ==
    /\ Len(t) = Len(p) + Len(x) + Len(q)
    /\ \A k \in 1 .. Len(p) : t[k] = p[k]
    /\ \A k \in 1 .. Len(x) : t[k + Len(p)] = x[k]
    /\ \A k \in 1 .. Len(q) : t[k + (Len(p) + Len(x))] = q[k]

\* So is their concatenation.
LEMMA JoinedSplits ==
  ASSUME NEW T, NEW p \in Seq(T), NEW x \in Seq(T), NEW q \in Seq(T)
  PROVE  Splits(Joined(p, Joined(x, q)), p, x, q)
  <1> DEFINE r == Joined(x, q)
             t == Joined(p, r)
             n == Len(p)
             m == Len(x)
             l == Len(q)
  <1>1. r \in Seq(T) /\ r = x \o q
    BY JoinedText
  <1>2. Joins(r, x, q)
    BY <1>1, ConcatPlaces
  <1> HIDE DEF r
  <1>3. Joins(t, p, r)
    <2>1. t = p \o r
      BY <1>1, JoinedText
    <2>2. Joins(p \o r, p, r)
      BY <1>1, ConcatPlaces
    <2> QED
      BY <2>1, <2>2
  <1> HIDE DEF t
  <1>4. /\ n \in Nat /\ m \in Nat /\ l \in Nat /\ Len(r) = m + l /\ Len(t) = n + (m + l)
        /\ \A k \in 1 .. n : t[k] = p[k]
        /\ \A k \in 1 .. m : r[k] = x[k]
    BY <1>2, <1>3 DEF Joins
  <1>5. ASSUME NEW k \in 1 .. m PROVE t[k + n] = x[k]
    <2>1. k \in 1 .. Len(r) /\ k + n = n + k
      BY <1>4
    <2>2. t[n + k] = r[k]
      BY <1>3, <2>1, SecondPart
    <2> QED
      BY <1>4, <2>1, <2>2
  <1>6. ASSUME NEW k \in 1 .. l PROVE t[k + (n + m)] = q[k]
    <2>1. m + k \in 1 .. Len(r) /\ k + (n + m) = n + (m + k)
      BY <1>4
    <2>2. r[m + k] = q[k]
      BY <1>2, SecondPart
    <2>3. t[n + (m + k)] = r[m + k]
      <3> DEFINE c == m + k
      <3>1. c \in 1 .. Len(r)
        BY <2>1
      <3> HIDE DEF c
      <3>2. t[n + c] = r[c]
        BY <1>3, <3>1, SecondPart
      <3> QED
        BY <3>2 DEF c
    <2> QED
      BY <2>1, <2>2, <2>3
  <1>7. Len(t) = n + m + l
    BY <1>4
  <1> QED
    BY <1>4, <1>5, <1>6, <1>7 DEF Splits, t, r

\* And so is a text, at any two of its places.
LEMMA TextSplits ==
  ASSUME NEW T, NEW t \in Seq(T), NEW i \in 1 .. Len(t), NEW j \in i .. Len(t)
  PROVE  /\ SubSeq(t, 1, i - 1) \in Seq(T) /\ Len(SubSeq(t, 1, i - 1)) = i - 1
         /\ SubSeq(t, i, j) \in Seq(T) /\ Len(SubSeq(t, i, j)) = j - i + 1
         /\ SubSeq(t, j + 1, Len(t)) \in Seq(T) /\ Len(SubSeq(t, j + 1, Len(t))) = Len(t) - j
         /\ Splits(t, SubSeq(t, 1, i - 1), SubSeq(t, i, j), SubSeq(t, j + 1, Len(t)))
  <1> DEFINE n == Len(t)
             h == i - 1
             m == j + 1
             p == SubSeq(t, 1, h)
             x == SubSeq(t, i, j)
             q == SubSeq(t, m, n)
  <1>1. /\ n \in Nat /\ i \in Nat \ {0} /\ j \in Nat /\ i <= j + 1 /\ j <= n
        /\ h \in Nat /\ 1 <= h + 1 /\ h <= n /\ h = i - 1
        /\ m \in Nat \ {0} /\ m <= n + 1 /\ n <= Len(t) /\ m = j + 1
        /\ 1 \in Nat \ {0}
    BY LenProperties
  <1> HIDE DEF h, m
  <1>2. p \in Seq(T) /\ Len(p) = h - 1 + 1 /\ \A k \in 1 .. h - 1 + 1 : p[k] = t[1 + k - 1]
    BY <1>1, PartPlaces
  <1>3. x \in Seq(T) /\ Len(x) = j - i + 1 /\ \A k \in 1 .. j - i + 1 : x[k] = t[i + k - 1]
    BY <1>1, PartPlaces
  <1>4. q \in Seq(T) /\ Len(q) = n - m + 1 /\ \A k \in 1 .. n - m + 1 : q[k] = t[m + k - 1]
    BY <1>1, PartPlaces
  <1> HIDE DEF n, p, x, q
  <1>5. Len(p) = h /\ Len(x) = j - h /\ Len(q) = n - j
    BY <1>1, <1>2, <1>3, <1>4
  <1>6. \A k \in 1 .. Len(p) : t[k] = p[k]
    <2> TAKE k \in 1 .. Len(p)
    <2>1. k \in 1 .. h - 1 + 1 /\ 1 + k - 1 = k
      BY <1>1, <1>5
    <2> QED
      BY <1>2, <2>1
  <1>7. \A k \in 1 .. Len(x) : t[k + Len(p)] = x[k]
    <2> TAKE k \in 1 .. Len(x)
    <2>1. k \in 1 .. j - i + 1 /\ i + k - 1 = k + Len(p)
      BY <1>1, <1>5
    <2> QED
      BY <1>3, <2>1
  <1>8. \A k \in 1 .. Len(q) : t[k + (Len(p) + Len(x))] = q[k]
    <2> TAKE k \in 1 .. Len(q)
    <2>1. k \in 1 .. n - m + 1 /\ m + k - 1 = k + (Len(p) + Len(x))
      BY <1>1, <1>5
    <2> QED
      BY <1>4, <2>1
  <1>9. Len(t) = Len(p) + Len(x) + Len(q)
    BY <1>1, <1>5 DEF n
  <1>10. Splits(t, p, x, q)
    BY <1>6, <1>7, <1>8, <1>9 DEF Splits
  <1>11. Len(p) = i - 1 /\ Len(x) = j - i + 1 /\ Len(q) = n - j
    BY <1>1, <1>3, <1>5
  <1> QED
    BY <1>2, <1>3, <1>4, <1>10, <1>11 DEF n, h, m, p, x, q

\* Where the parts stand.
LEMMA SplitPlaces ==
  ASSUME NEW T, NEW t \in Seq(T), NEW p \in Seq(T), NEW x \in Seq(T), NEW q \in Seq(T),
         Splits(t, p, x, q)
  PROVE  /\ Len(t) \in Nat /\ Len(p) \in Nat /\ Len(x) \in Nat /\ Len(q) \in Nat
         /\ Len(t) = Len(q) + (Len(p) + Len(x))
         /\ Within(p, t, 0) /\ Within(q, t, Len(p) + Len(x))
  <1>1. /\ Len(t) \in Nat /\ Len(p) \in Nat /\ Len(x) \in Nat /\ Len(q) \in Nat
    BY LenProperties
  <1>2. Len(t) = Len(q) + (Len(p) + Len(x)) /\ Len(p) + 0 <= Len(t) /\ Len(p) + Len(x) \in Nat
    BY <1>1 DEF Splits
  <1>3. \A k \in 1 .. Len(p) : t[k + 0] = p[k]
    BY <1>1 DEF Splits
  <1> QED
    BY <1>1, <1>2, <1>3 DEF Splits, Within

\* If the matches in the outer parts are the same as without the others, the pass
\* treats them as if the others were not there.
LEMMA SplitPass ==
  ASSUME NEW T, NEW t \in Seq(T), NEW p \in Seq(T), NEW x \in Seq(T), NEW q \in Seq(T),
         Splits(t, p, x, q), NEW kind \in Kinds, kind \in T,
         \A k \in 1 .. Len(p) : SameEnds(kind, p, k, t, 0),
         \A k \in 1 .. Len(q) : SameEnds(kind, q, k, t, Len(p) + Len(x)),
         NEW y \in Seq(T),
         Scan(kind, t)[Len(p) + 1] = Joined(y, Scan(kind, t)[(Len(p) + Len(x)) + 1])
  PROVE  Splits(Sub(kind, t), Sub(kind, p), y, Sub(kind, q))
  <1> DEFINE d == Len(p) + Len(x)
  <1>1. Len(t) = Len(q) + d /\ Within(p, t, 0) /\ Within(q, t, d)
    BY SplitPlaces
  <1>2. Sub(kind, t) = Joined(Sub(kind, p), Scan(kind, t)[Len(p) + 1])
    BY <1>1, ScanOfStart
  <1>3. \A k \in 1 .. Len(q) : SameEnds(kind, q, k, t, d)
    OBVIOUS
  <1> HIDE DEF d
  <1>4. Scan(kind, t)[d + 1] = Sub(kind, q)
    BY <1>1, <1>3, ScanOfEnd
  <1>5. Sub(kind, t) = Joined(Sub(kind, p), Joined(y, Sub(kind, q)))
    BY <1>2, <1>4 DEF d
  <1>6. Sub(kind, p) \in Seq(T) /\ Sub(kind, q) \in Seq(T)
    BY SubStems
  <1> QED
    BY <1>5, <1>6, JoinedSplits

\* The matches in the first part, none of which goes on into the second.
LEMMA SameInFront ==
  ASSUME NEW T, NEW t \in Seq(T), NEW p \in Seq(T), NEW kind \in Kinds, Within(p, t, 0),
         \A k \in 1 .. Len(p) : \A e \in Ends(kind, t, k) : e <= Len(p)
  PROVE  \A k \in 1 .. Len(p) : SameEnds(kind, p, k, t, 0)
  <1> SUFFICES ASSUME NEW k \in 1 .. Len(p) PROVE SameEnds(kind, p, k, t, 0)
    OBVIOUS
  <1>1. Len(p) \in Nat /\ Len(t) \in Nat /\ Len(p) <= Len(t) /\ \A l \in 1 .. Len(p) : t[l] = p[l]
    <2>1. Len(p) \in Nat /\ Len(t) \in Nat
      BY LenProperties
    <2>2. Len(p) + 0 <= Len(t) /\ \A l \in 1 .. Len(p) : t[l + 0] = p[l]
      BY DEF Within
    <2>3. \A l \in 1 .. Len(p) : l + 0 = l
      OBVIOUS
    <2> QED
      BY <2>1, <2>2, <2>3
  <1>2. k + 0 = k /\ k \in 1 .. Len(t)
    BY <1>1
  <1>3. Behind(p, k) <=> Behind(t, k + 0)
    <2>1. k > 1 => k - 1 \in 1 .. Len(p)
      BY <1>1
    <2> QED
      BY <1>1, <1>2, <2>1 DEF Behind
  <1>4. ASSUME NEW e \in Ends(kind, p, k) PROVE e + 0 \in Ends(kind, t, k + 0)
    <2>1. e \in k .. Len(p)
      BY EndsWithin
    <2>2. Moved(p, k, e, t, 0)
      <3>1. \A l \in k .. e : l \in 1 .. Len(p) /\ l + 0 = l
        BY <1>1, <2>1
      <3>2. k + 0 >= 1 /\ e + 0 <= Len(t) /\ 0 \in Int
        BY <1>1, <2>1
      <3> QED
        BY <1>1, <3>1, <3>2 DEF Moved
    <2> QED
      BY <1>3, <2>2, MatchMoves
  <1>5. ASSUME NEW e \in Ends(kind, t, k + 0) PROVE e - 0 \in Ends(kind, p, k)
    <2>1. e \in Ends(kind, t, k) /\ e \in k .. Len(t) /\ e <= Len(p)
      BY <1>2, EndsWithin
    <2>2. Moved(t, k, e, p, 0)
      <3>1. \A l \in k .. e : l \in 1 .. Len(p) /\ l + 0 = l
        BY <1>1, <2>1
      <3>2. k + 0 >= 1 /\ e + 0 <= Len(p) /\ 0 \in Int
        BY <1>1, <2>1
      <3> QED
        BY <1>1, <3>1, <3>2 DEF Moved
    <2>3. e + 0 \in Ends(kind, p, k + 0)
      BY <1>2, <1>3, <2>1, <2>2, MatchMoves
    <2>4. e + 0 = e - 0
      BY <1>1, <2>1
    <2> QED
      BY <1>2, <2>3, <2>4
  <1> QED
    BY <1>4, <1>5 DEF SameEnds

\* The matches in the last part, which nothing in front of it changes.
LEMMA SameBehind ==
  ASSUME NEW T, NEW t \in Seq(T), NEW q \in Seq(T), NEW kind \in Kinds,
         NEW d \in Nat, Within(q, t, d), Len(t) = Len(q) + d,
         kind = "[EMAIL]" /\ Len(q) > 0 /\ Ends(kind, t, d + 1) # {} => t[d + 1] \in Runs \cup Words,
         kind = "[PHONE]" => ~Behind(t, d + 1)
  PROVE  \A k \in 1 .. Len(q) : SameEnds(kind, q, k, t, d)
  <1> SUFFICES ASSUME NEW k \in 1 .. Len(q) PROVE SameEnds(kind, q, k, t, d)
    OBVIOUS
  <1> DEFINE m == k + d
             c == 0 - d
  <1>1. Len(q) \in Nat /\ Len(t) \in Nat /\ \A l \in 1 .. Len(q) : t[l + d] = q[l]
    BY LenProperties DEF Within
  <1>2. /\ m \in 1 .. Len(t) /\ m + c = k /\ c \in Int /\ m = k + d
        /\ \A e \in Nat : e + c = e - d
    BY <1>1
  <1>3. k # 1 => (Behind(q, k) <=> Behind(t, m))
    <2> SUFFICES ASSUME k # 1 PROVE Behind(q, k) <=> Behind(t, m)
      OBVIOUS
    <2>1. k - 1 \in 1 .. Len(q) /\ (k - 1) + d = m - 1 /\ k > 1 /\ m > 1
      BY <1>1
    <2>2. t[m - 1] = q[k - 1]
      BY <1>1, <2>1
    <2> QED
      BY <2>1, <2>2 DEF Behind
  <1>4. k = 1 => ~Behind(q, k) /\ m = d + 1
    BY DEF Behind
  <1> HIDE DEF m, c
  <1>5. ASSUME NEW e \in Ends(kind, q, k) PROVE e + d \in Ends(kind, t, m)
    <2>1. e \in k .. Len(q)
      BY EndsWithin
    <2>2. Moved(q, k, e, t, d)
      <3>1. \A l \in k .. e : l \in 1 .. Len(q)
        BY <1>1, <2>1
      <3>2. k + d >= 1 /\ e + d <= Len(t) /\ d \in Int
        BY <1>1, <2>1
      <3> QED
        BY <1>1, <3>1, <3>2 DEF Moved
    <2>3. kind = "[EMAIL]" => (Behind(q, k) => Behind(t, k + d))
      BY <1>2, <1>3, <1>4
    <2>4. kind = "[PHONE]" => (Behind(t, k + d) => Behind(q, k))
      BY <1>2, <1>3, <1>4
    <2>5. e + d \in Ends(kind, t, k + d)
      BY <2>2, <2>3, <2>4, MatchMoves
    <2> QED
      BY <1>2, <2>5
  <1>6. ASSUME NEW e \in Ends(kind, t, m) PROVE e - d \in Ends(kind, q, k)
    <2>1. e \in m .. Len(t)
      BY <1>2, EndsWithin
    <2>2. e + c = e - d /\ e - d <= Len(q)
      BY <1>1, <1>2, <2>1
    <2>3. Moved(t, m, e, q, c)
      <3>1. ASSUME NEW l \in m .. e PROVE q[l + c] = t[l]
        <4>1. l - d \in 1 .. Len(q) /\ (l - d) + d = l /\ l + c = l - d
          BY <1>1, <1>2, <2>1
        <4> QED
          BY <1>1, <4>1
      <3>2. m + c >= 1 /\ e + c <= Len(q) /\ c \in Int
        BY <1>1, <1>2, <2>2
      <3> QED
        BY <3>1, <3>2 DEF Moved
    <2>4. kind = "[EMAIL]" => t[m] \in Runs \cup Words \/ (Behind(t, m) => Behind(q, m + c))
      <3>1. Len(q) > 0
        BY <1>1
      <3> QED
        BY <1>2, <1>3, <1>4, <1>6, <3>1
    <2>5. kind = "[PHONE]" => (Behind(q, m + c) => Behind(t, m))
      BY <1>2, <1>3, <1>4
    <2>6. e + c \in Ends(kind, q, m + c)
      BY <1>2, <2>3, <2>4, <2>5, MatchMoves
    <2> QED
      BY <1>2, <2>2, <2>6
  <1> QED
    BY <1>2, <1>5, <1>6 DEF SameEnds
------------------------------------------------------------------------------
(***************************************************************************)
(* A card number that stands alone                                         *)
(***************************************************************************)
\* No run at the end of p, or at the beginning of q, is joined to what is there.
Joiners == Runs \cup {" ", "-"}
ClosedRight(p) ==
    \A k \in 1 .. Len(p) : p[k] \in Runs => \E l \in k .. Len(p) : p[l] \notin Joiners
ClosedLeft(q) ==
    \A k \in 1 .. Len(q) : q[k] \in Runs => \E l \in 1 .. k : q[l] \notin Joiners

\* A placeholder joins nothing.
LEMMA KindsJoinNothing ==
  Kinds \cap Joiners = {}
  <1>1. /\ "[EMAIL]" \notin {" ", "-"} /\ "[SSN]" \notin {" ", "-"} /\ "[CREDIT_CARD]" \notin {" ", "-"}
        /\ "[PHONE]" \notin {" ", "-"} /\ "[IP_ADDRESS]" \notin {" ", "-"}
    OBVIOUS
  <1> QED
    BY <1>1, KindsAre DEF Joiners, WordLike

\* No pass joins what was not.
LEMMA SubKeepsClosed ==
  ASSUME NEW T, NEW text \in Seq(T), NEW kind \in Kinds, kind \in T
  PROVE  /\ ClosedRight(text) => ClosedRight(Sub(kind, text))
         /\ ClosedLeft(text) => ClosedLeft(Sub(kind, text))
  <1> DEFINE o == Sub(kind, text)
  <1>1. o \in Seq(T) /\ AllStem(o, kind, text, 1)
    BY SubStems
  <1>2. Len(o) \in Nat /\ Len(text) \in Nat
    BY <1>1, LenProperties
  <1>3. kind \notin Joiners
    BY KindsJoinNothing
  <1> HIDE DEF o
  <1>4. ASSUME ClosedRight(text), NEW k \in 1 .. Len(o), o[k] \in Runs
        PROVE  \E l \in k .. Len(o) : o[l] \notin Joiners
    <2> SUFFICES ASSUME \A l \in k .. Len(o) : o[l] \in Joiners PROVE FALSE
      OBVIOUS
    <2>1. k <= Len(o) /\ Len(o) \in 1 .. Len(o) /\ \A l \in k .. Len(o) : o[l] # kind
      BY <1>2, <1>3
    <2>2. PICK d \in Int : Stems(o, k, Len(o), kind, text, 1, d)
      BY <1>1, <2>1 DEF AllStem
    <2>3. /\ k + d >= 1 /\ Len(o) + d = Len(text)
          /\ \A l \in k .. Len(o) : text[l + d] = o[l]
      BY <2>2 DEF Stems, Moved
    <2>4. k + d \in 1 .. Len(text) /\ text[k + d] \in Runs
      <3>1. k \in k .. Len(o) /\ k + d \in 1 .. Len(text)
        BY <1>2, <2>1, <2>3
      <3> QED
        BY <1>4, <2>3, <3>1
    <2>5. PICK m \in k + d .. Len(text) : text[m] \notin Joiners
      BY <1>4, <2>4 DEF ClosedRight
    <2>6. m - d \in k .. Len(o) /\ (m - d) + d = m
      BY <1>2, <2>3
    <2>7. text[m] \in Joiners
      BY <2>3, <2>6
    <2> QED
      BY <2>5, <2>7
  <1>5. ASSUME ClosedLeft(text), NEW k \in 1 .. Len(o), o[k] \in Runs
        PROVE  \E l \in 1 .. k : o[l] \notin Joiners
    <2> SUFFICES ASSUME \A l \in 1 .. k : o[l] \in Joiners PROVE FALSE
      OBVIOUS
    <2>1. 1 <= k /\ 1 \in 1 .. Len(o) /\ \A l \in 1 .. k : o[l] # kind
      BY <1>2, <1>3
    <2>2. PICK d \in Int : Stems(o, 1, k, kind, text, 1, d)
      BY <1>1, <2>1 DEF AllStem
    <2>3. 1 + d = 1 /\ k + d <= Len(text) /\ \A l \in 1 .. k : text[l + d] = o[l]
      BY <2>2 DEF Stems, Moved
    <2>4. d = 0
      BY <2>3
    <2>5. k \in 1 .. Len(text) /\ \A l \in 1 .. k : l + d = l
      BY <2>3, <2>4
    <2>6. \A l \in 1 .. k : text[l] = o[l]
      BY <2>3, <2>5
    <2>7. text[k] \in Runs
      BY <1>5, <2>1, <2>6
    <2>8. PICK m \in 1 .. k : text[m] \notin Joiners
      BY <1>5, <2>5, <2>7 DEF ClosedLeft
    <2> QED
      BY <2>6, <2>8
  <1> QED
    BY <1>4, <1>5 DEF ClosedRight, ClosedLeft, o

\* An SSN and a card number begin and end with a run, and are joined in between.
LEMMA JoinedMatch ==
  ASSUME NEW T, NEW t \in Seq(T), NEW kind \in {"[SSN]", "[CREDIT_CARD]"},
         NEW k \in 1 .. Len(t), NEW e \in Ends(kind, t, k)
  PROVE  /\ e \in k .. Len(t) /\ t[k] \in Runs /\ t[e] \in Runs
         /\ \A l \in k .. e : t[l] \in Joiners
  <1>1. kind \in Kinds
    BY KindsAre
  <1>2. Len(t) \in Nat /\ e \in k .. Len(t)
    BY <1>1, EndsWithin, LenProperties
  <1>3. CASE kind = "[SSN]"
    <2>1. e \in SsnEnds(t, k)
      BY <1>3 DEF Ends
    <2>2. /\ e = k + 4
          /\ t[k] \in Runs /\ t[k + 2] \in Runs /\ t[k + 4] \in Runs
          /\ t[k + 1] = "-" /\ t[k + 3] = "-"
      BY <2>1 DEF SsnEnds, IsRun
    <2>3. \A l \in k .. e : l \in {k, k + 1, k + 2, k + 3, k + 4}
      BY <1>2, <2>2
    <2> QED
      BY <1>2, <2>2, <2>3 DEF Joiners
  <1>4. CASE kind = "[CREDIT_CARD]"
    <2>1. e \in CardEnds(t, k)
      BY <1>4 DEF Ends
    <2> QED
      BY <1>2, <2>1 DEF CardEnds, AllIn, Joiners
  <1> QED
    BY <1>3, <1>4

\* So none of them goes on from one part into another that is closed against it.
LEMMA NoJoinedCrossing ==
  ASSUME NEW T, NEW t \in Seq(T), NEW p \in Seq(T), NEW x \in Seq(T), NEW q \in Seq(T),
         Splits(t, p, x, q), NEW kind \in {"[SSN]", "[CREDIT_CARD]"},
         NEW k \in 1 .. Len(t), NEW e \in Ends(kind, t, k)
  PROVE  /\ ClosedRight(p) /\ k <= Len(p) => e <= Len(p)
         /\ ClosedLeft(q) /\ k <= Len(p) + Len(x) => e <= Len(p) + Len(x)
  <1> DEFINE n == Len(p)
             d == n + Len(x)
  <1>1. /\ e \in k .. Len(t) /\ t[k] \in Runs /\ t[e] \in Runs
        /\ \A l \in k .. e : t[l] \in Joiners
    BY JoinedMatch
  <1>2. n \in Nat /\ d \in Nat /\ Len(t) \in Nat /\ Len(q) \in Nat /\ Len(t) = Len(q) + d
    BY SplitPlaces
  <1>3. /\ \A l \in 1 .. n : t[l] = p[l]
        /\ \A l \in 1 .. Len(q) : t[l + d] = q[l]
    BY DEF Splits
  <1> HIDE DEF n, d
  <1>4. ASSUME ClosedRight(p), k <= n PROVE e <= n
    <2> SUFFICES ASSUME e > n PROVE FALSE
      BY <1>1, <1>2
    <2>1. k \in 1 .. n /\ p[k] \in Runs
      BY <1>1, <1>2, <1>3, <1>4
    <2>2. PICK l \in k .. n : p[l] \notin Joiners
      BY <1>4, <2>1 DEF ClosedRight, n
    <2>3. l \in 1 .. n /\ l \in k .. e
      BY <1>1, <1>2
    <2> QED
      BY <1>1, <1>3, <2>2, <2>3
  <1>5. ASSUME ClosedLeft(q), k <= d PROVE e <= d
    <2> SUFFICES ASSUME e > d PROVE FALSE
      BY <1>1, <1>2
    <2>1. e - d \in 1 .. Len(q) /\ (e - d) + d = e
      BY <1>1, <1>2
    <2>2. q[e - d] \in Runs
      BY <1>1, <1>3, <2>1
    <2>3. PICK l \in 1 .. e - d : q[l] \notin Joiners
      BY <1>5, <2>1, <2>2 DEF ClosedLeft
    <2>4. l \in 1 .. Len(q) /\ l + d \in k .. e
      BY <1>1, <1>2, <1>5, <2>1
    <2> QED
      BY <1>1, <1>3, <2>3, <2>4
  <1> QED
    BY <1>4, <1>5 DEF n, d

\* x stands in t from token h to the one before m, and nothing begins there.
StandsIdle(x, kind, t, h, m) ==
    /\ h \in Nat \ {0} /\ m = h + Len(x) /\ m <= Len(t) + 1
    /\ \A k \in 1 .. Len(x) : t[k + (h - 1)] = x[k]
    /\ \A k \in h .. m - 1 : Ends(kind, t, k) = {}

\* Such a part is put out as it is.
LEMMA ScanPassesPart ==
  ASSUME NEW T, NEW t \in Seq(T), NEW x \in Seq(T), NEW kind \in Kinds, kind \in T,
         NEW h, NEW m, StandsIdle(x, kind, t, h, m)
  PROVE  Scan(kind, t)[h] = Joined(x, Scan(kind, t)[m])
  <1> DEFINE d == m - 1
  <1>0. /\ Len(t) \in Nat /\ Len(x) \in Nat /\ h \in Nat \ {0} /\ m = h + Len(x) /\ m <= Len(t) + 1
        /\ \A k \in 1 .. Len(x) : t[k + (h - 1)] = x[k]
        /\ \A k \in h .. d : Ends(kind, t, k) = {}
    BY LenProperties DEF StandsIdle
  <1>1. /\ h \in 1 .. Len(t) + 1 /\ d \in h - 1 .. Len(t)
        /\ Len(t) \in Nat /\ Len(x) \in Nat /\ d + 1 = m /\ d = h + Len(x) - 1
    BY <1>0
  <1> HIDE DEF d
  <1>2. Scan(kind, t)[h] = Joined(SubSeq(t, h, d), Scan(kind, t)[d + 1])
    BY <1>0, <1>1, ScanPasses
  <1>3. SubSeq(t, h, d) = x
    <2>1. h \in Nat \ {0} /\ d \in Nat /\ h <= d + 1 /\ d <= Len(t)
      BY <1>1
    <2>2. /\ SubSeq(t, h, d) \in Seq(T) /\ Len(SubSeq(t, h, d)) = d - h + 1
          /\ \A k \in 1 .. d - h + 1 : SubSeq(t, h, d)[k] = t[h + k - 1]
      BY <2>1, PartPlaces
    <2>3. d - h + 1 = Len(x) /\ \A k \in 1 .. d - h + 1 : h + k - 1 = k + (h - 1)
      BY <1>1
    <2>4. \A k \in 1 .. Len(x) : SubSeq(t, h, d)[k] = x[k]
      BY <1>0, <2>2, <2>3
    <2> QED
      BY <2>2, <2>3, <2>4, SeqEqual
  <1> QED
    BY <1>1, <1>2, <1>3

\* The pass for SSNs goes by a card number out of which it reads none.
LEMMA SsnPassesCard ==
  ASSUME NEW T, NEW t \in Seq(T), NEW p \in Seq(T), NEW x \in Seq(T), NEW q \in Seq(T),
         Splits(t, p, x, q), NEW kind, kind = "[SSN]", kind \in T,
         ClosedRight(p), ClosedLeft(q), \A k \in 1 .. Len(x) : SsnEnds(x, k) = {}
  PROVE  Splits(Sub(kind, t), Sub(kind, p), x, Sub(kind, q))
  <1> DEFINE n == Len(p)
             d == n + Len(x)
  <1>1. /\ n \in Nat /\ Len(x) \in Nat /\ d \in Nat /\ Len(t) \in Nat /\ Len(q) \in Nat
        /\ Len(t) = Len(q) + d /\ n <= d /\ d = n + Len(x)
        /\ Within(p, t, 0) /\ Within(q, t, d)
    BY SplitPlaces
  <1>2. kind \in Kinds /\ kind \in {"[SSN]", "[CREDIT_CARD]"}
    BY KindsAre
  <1>3. \A k \in 1 .. Len(x) : t[k + n] = x[k]
    BY DEF Splits
  <1>4. \A k \in 1 .. Len(t) : \A e \in Ends(kind, t, k) :
          /\ e \in k .. Len(t) /\ (k <= n => e <= n) /\ (k <= d => e <= d)
    BY <1>2, NoJoinedCrossing, EndsWithin
  <1> HIDE DEF n, d
  <1>5. \A k \in 1 .. n : SameEnds(kind, p, k, t, 0)
    <2>1. \A k \in 1 .. n : \A e \in Ends(kind, t, k) : e <= n
      BY <1>1, <1>4
    <2> QED
      BY <1>1, <1>2, <2>1, SameInFront DEF n
  <1>6. \A k \in 1 .. Len(q) : SameEnds(kind, q, k, t, d)
    <2>1. kind # "[EMAIL]" /\ kind # "[PHONE]"
      OBVIOUS
    <2> QED
      BY <1>1, <1>2, <2>1, SameBehind
  <1>7. ASSUME NEW k \in n + 1 .. d PROVE Ends(kind, t, k) = {}
    <2> SUFFICES ASSUME NEW e \in Ends(kind, t, k) PROVE FALSE
      OBVIOUS
    <2> DEFINE c == 0 - n
               m == k + c
               f == e + c
    <2>1. k \in 1 .. Len(t) /\ e \in k .. d
      BY <1>1, <1>4
    <2>2. /\ c \in Int /\ m \in 1 .. Len(x) /\ f <= Len(x)
          /\ \A l \in k .. e : l - n \in 1 .. Len(x) /\ (l - n) + n = l /\ l + c = l - n
      BY <1>1, <2>1
    <2>3. Moved(t, k, e, x, c)
      <3>1. ASSUME NEW l \in k .. e PROVE x[l + c] = t[l]
        <4>1. t[(l - n) + n] = x[l - n]
          BY <1>3, <2>2
        <4> QED
          BY <2>2, <4>1
      <3> HIDE DEF c
      <3> QED
        BY <2>2, <3>1 DEF Moved
    <2>4. e \in SsnEnds(t, k)
      BY DEF Ends
    <2> HIDE DEF c
    <2>5. e + c \in SsnEnds(x, k + c)
      BY <2>1, <2>3, <2>4, SsnMoves
    <2> QED
      BY <2>2, <2>5
  <1>8. Scan(kind, t)[n + 1] = Joined(x, Scan(kind, t)[d + 1])
    <2> DEFINE h == n + 1
               m == d + 1
    <2>1. /\ h \in Nat \ {0} /\ m \in Nat /\ m = h + Len(x) /\ m <= Len(t) + 1
          /\ h = n + 1 /\ m = d + 1 /\ h - 1 = n /\ m - 1 = d
      BY <1>1
    <2> HIDE DEF h, m
    <2>2. \A k \in 1 .. Len(x) : t[k + (h - 1)] = x[k]
      BY <1>3, <2>1
    <2>3. \A k \in h .. m - 1 : Ends(kind, t, k) = {}
      BY <1>7, <2>1
    <2>4. StandsIdle(x, kind, t, h, m)
      BY <2>1, <2>2, <2>3 DEF StandsIdle
    <2>5. Scan(kind, t)[h] = Joined(x, Scan(kind, t)[m])
      BY <1>2, <2>4, ScanPassesPart
    <2> QED
      BY <2>1, <2>5
  <1> QED
    BY <1>2, <1>5, <1>6, <1>8, SplitPass DEF n, d

\* The pass for card numbers redacts it as a whole.
LEMMA CardPassTakesCard ==
  ASSUME NEW T, NEW t \in Seq(T), NEW p \in Seq(T), NEW x \in Seq(T), NEW q \in Seq(T),
         Splits(t, p, x, q), NEW kind, kind = "[CREDIT_CARD]", kind \in T,
         ClosedRight(p), ClosedLeft(q), Len(x) > 0, Len(x) \in CardEnds(x, 1),
         PassesLuhn(DigitsOf(x))
  PROVE  Splits(Sub(kind, t), Sub(kind, p), <<kind>>, Sub(kind, q))
  <1> DEFINE n == Len(p)
             d == n + Len(x)
             h == n + 1
  <1>1. /\ n \in Nat /\ Len(x) \in Nat /\ d \in Nat /\ Len(t) \in Nat /\ Len(q) \in Nat
        /\ Len(t) = Len(q) + d /\ n <= d /\ d = n + Len(x) /\ h \in 1 .. Len(t) /\ h <= d
        /\ h = n + 1 /\ 1 \in 1 .. Len(x)
        /\ Within(p, t, 0) /\ Within(q, t, d)
    BY SplitPlaces
  <1>2. kind \in Kinds /\ kind \in {"[SSN]", "[CREDIT_CARD]"}
    BY KindsAre
  <1>3. \A k \in 1 .. Len(x) : t[k + n] = x[k]
    BY DEF Splits
  <1>4. \A k \in 1 .. Len(t) : \A e \in Ends(kind, t, k) :
          /\ e \in k .. Len(t) /\ (k <= n => e <= n) /\ (k <= d => e <= d)
    BY <1>2, NoJoinedCrossing, EndsWithin
  <1> HIDE DEF n, d, h
  <1>5. \A k \in 1 .. n : SameEnds(kind, p, k, t, 0)
    <2>1. ASSUME NEW k \in 1 .. n, NEW e \in Ends(kind, t, k) PROVE e <= n
      <3>1. k \in 1 .. Len(t) /\ k <= n
        BY <1>1
      <3> QED
        BY <1>4, <3>1
    <2> QED
      BY <1>1, <1>2, <2>1, SameInFront DEF n
  <1>6. \A k \in 1 .. Len(q) : SameEnds(kind, q, k, t, d)
    <2>1. kind # "[EMAIL]" /\ kind # "[PHONE]"
      OBVIOUS
    <2> QED
      BY <1>1, <1>2, <2>1, SameBehind
  <1>7. Moved(x, 1, Len(x), t, n)
    <2>1. n \in Int /\ 1 + n >= 1 /\ Len(x) + n <= Len(t)
      BY <1>1
    <2> QED
      BY <1>3, <2>1 DEF Moved
  <1>8. d \in Ends(kind, t, h)
    <2>1. Len(x) + n \in CardEnds(t, 1 + n)
      BY <1>1, <1>7, CardMoves
    <2>2. Len(x) + n = d /\ 1 + n = h
      BY <1>1
    <2> QED
      BY <2>1, <2>2 DEF Ends
  <1>9. Taken(kind, t, h) = d /\ Max(Ends(kind, t, h)) = d
    <2> DEFINE j == Taken(kind, t, h)
    <2>1. /\ j \in h .. Len(t) /\ Max(Ends(kind, t, h)) = j /\ j \in Ends(kind, t, h)
          /\ \A e \in Ends(kind, t, h) : e <= j
      BY <1>1, <1>2, <1>8, TakenWithin
    <2> HIDE DEF j
    <2>2. j <= d /\ d <= j
      BY <1>1, <1>4, <1>8, <2>1
    <2>3. j = d
      BY <1>1, <2>1, <2>2
    <2> QED
      BY <2>1, <2>3 DEF j
  <1>10. SubSeq(t, h, d) = x
    <2>1. h \in Nat \ {0} /\ d \in Nat /\ h <= d + 1 /\ d <= Len(t)
      BY <1>1
    <2>2. /\ SubSeq(t, h, d) \in Seq(T) /\ Len(SubSeq(t, h, d)) = d - h + 1
          /\ \A k \in 1 .. d - h + 1 : SubSeq(t, h, d)[k] = t[h + k - 1]
      BY <2>1, PartPlaces
    <2>3. d - h + 1 = Len(x) /\ \A k \in 1 .. d - h + 1 : h + k - 1 = k + n
      BY <1>1
    <2>4. \A k \in 1 .. Len(x) : SubSeq(t, h, d)[k] = x[k]
      BY <1>3, <2>2, <2>3
    <2> QED
      BY <2>2, <2>3, <2>4, SeqEqual
  <1>11. Emits(kind, t, h) = <<kind>>
    BY <1>8, <1>9, <1>10 DEF Emits, Redacts
  <1>12. Scan(kind, t)[h] = Joined(<<kind>>, Scan(kind, t)[d + 1])
    <2>1. Scan(kind, t)[h] = Joined(Emits(kind, t, h), Scan(kind, t)[Taken(kind, t, h) + 1])
      BY <1>1, <1>2, ScanUnfolds
    <2> QED
      BY <1>9, <1>11, <2>1
  <1>13. <<kind>> \in Seq(T)
    BY SingleToken
  <1> QED
    BY <1>2, <1>5, <1>6, <1>12, <1>13, SplitPass DEF n, d, h

\* A later pass goes by the placeholder.
LEMMA PassesPlaceholder ==
  ASSUME NEW T, NEW t \in Seq(T), NEW p \in Seq(T), NEW x \in Seq(T), NEW q \in Seq(T),
         Len(x) = 1, x[1] = "[CREDIT_CARD]", Splits(t, p, x, q), NEW kind \in {"[PHONE]", "[IP_ADDRESS]"},
         kind \in T
  PROVE  Splits(Sub(kind, t), Sub(kind, p), x, Sub(kind, q))
  <1> DEFINE n == Len(p)
             d == n + Len(x)
             h == n + 1
  <1>1. /\ n \in Nat /\ Len(x) = 1 /\ d \in Nat /\ Len(t) \in Nat /\ Len(q) \in Nat
        /\ Len(t) = Len(q) + d /\ d = n + Len(x) /\ d = h /\ h \in 1 .. Len(t)
        /\ h = n + 1 /\ 1 \in 1 .. Len(x)
        /\ Within(p, t, 0) /\ Within(q, t, d)
    <2>1. /\ n \in Nat /\ Len(t) \in Nat /\ Len(q) \in Nat /\ Len(t) = Len(q) + d
          /\ Within(p, t, 0) /\ Within(q, t, d)
      BY SplitPlaces
    <2>2. Len(x) = 1
      OBVIOUS
    <2> HIDE DEF n
    <2>3. d = n + 1
      BY <2>2
    <2> QED
      BY <2>1, <2>2, <2>3
  <1>2. kind \in Kinds /\ "[CREDIT_CARD]" \in Kinds /\ "[CREDIT_CARD]" \notin WordLike
    BY KindsAre
  <1>3. t[h] = "[CREDIT_CARD]"
    <2>1. t[1 + n] = x[1] /\ 1 + n = h
      BY <1>1 DEF Splits
    <2> QED
      BY <2>1
  <1> HIDE DEF n, d, h
  <1>4. \A k \in 1 .. Len(t) : \A e \in Ends(kind, t, k) : e \in k .. Len(t) /\ h \notin k .. e
    BY <1>2, <1>3, EndsWithin, MatchIsPlain
  <1>5. \A k \in 1 .. n : SameEnds(kind, p, k, t, 0)
    <2>1. ASSUME NEW k \in 1 .. n, NEW e \in Ends(kind, t, k) PROVE e <= n
      <3>1. k \in 1 .. Len(t) /\ e \in k .. Len(t) /\ h \notin k .. e
        BY <1>1, <1>4
      <3> QED
        BY <1>1, <3>1
    <2> QED
      BY <1>1, <1>2, <2>1, SameInFront DEF n
  <1>6. \A k \in 1 .. Len(q) : SameEnds(kind, q, k, t, d)
    <2>1. kind # "[EMAIL]" /\ ~Behind(t, d + 1)
      <3>1. (d + 1) - 1 = h
        BY <1>1
      <3> QED
        BY <1>2, <1>3, <3>1 DEF Behind
    <2> QED
      BY <1>1, <1>2, <2>1, SameBehind
  <1>7. Ends(kind, t, h) = {}
    <2> SUFFICES ASSUME NEW e \in Ends(kind, t, h) PROVE FALSE
      OBVIOUS
    <2>1. e \in h .. Len(t) /\ h \notin h .. e
      BY <1>1, <1>4
    <2> QED
      BY <1>1, <2>1
  <1>8. Scan(kind, t)[h] = Joined(x, Scan(kind, t)[d + 1])
    <2>1. Taken(kind, t, h) = d /\ Emits(kind, t, h) = x
      <3>1. x = <<"[CREDIT_CARD]">>
        OBVIOUS
      <3> QED
        BY <1>1, <1>3, <1>7, <3>1 DEF Taken, Emits
    <2> QED
      BY <1>1, <1>2, <2>1, ScanUnfolds
  <1> QED
    BY <1>2, <1>5, <1>6, <1>8, SplitPass DEF n, d, h

\* The pass for e-mail addresses goes by a part that ends with a run and has no
\* address that ends in it or behind it.
LEMMA EmailGoesBy ==
  ASSUME NEW T, NEW t \in Seq(T), NEW p \in Seq(T), NEW x \in Seq(T), NEW q \in Seq(T),
         Splits(t, p, x, q), NEW kind, kind = "[EMAIL]", kind \in T,
         NEW n, n = Len(p), NEW d, d = Len(p) + Len(x),
         Len(x) > 0, t[d] \in Runs, \A k \in 1 .. d : \A e \in EmailEnds(t, k) : e <= n
  PROVE  Splits(Sub(kind, t), Sub(kind, p), x, Sub(kind, q))
  <1>1. /\ n \in Nat /\ Len(x) \in Nat /\ d \in Nat /\ Len(t) \in Nat /\ Len(q) \in Nat
        /\ Len(t) = Len(q) + d /\ n < d /\ d = n + Len(x) /\ d \in 1 .. Len(t)
        /\ Within(p, t, 0) /\ Within(q, t, d)
    BY SplitPlaces
  <1>2. kind \in Kinds
    BY KindsAre
  <1>3. \A k \in 1 .. Len(x) : t[k + n] = x[k]
    BY DEF Splits
  <1>4. \A k : Ends(kind, t, k) = EmailEnds(t, k)
    BY DEF Ends
  <1>5. \A k \in 1 .. n : SameEnds(kind, p, k, t, 0)
    <2>1. ASSUME NEW k \in 1 .. n, NEW e \in Ends(kind, t, k) PROVE e <= n
      <3>1. k \in 1 .. d
        BY <1>1
      <3> QED
        BY <1>4, <3>1
    <2> QED
      BY <1>1, <1>2, <2>1, SameInFront
  <1>6. \A k \in 1 .. Len(q) : SameEnds(kind, q, k, t, d)
    <2>1. ASSUME NEW e \in EmailEnds(t, d + 1), t[d + 1] \notin Runs \cup Words PROVE FALSE
      <3> DEFINE local == Runs \cup Words \cup {".", "-", "+"}
                 domain == Runs \cup Words \cup {".", "-"}
                 m == d + 1
      <3>1. PICK k \in m + 1 .. e :
              /\ t[k] \in Domains
              /\ \A l \in m .. k - 1 : t[l] \in local
              /\ \A l \in k + 1 .. e : t[l] \in domain
              /\ e = k \/ (t[e] \in Words /\ t[e - 1] = ".")
        BY DEF EmailEnds, AllIn
      <3>2. e \in m + 1 .. Len(t)
        BY DEF EmailEnds
      <3>3. e \in d + 1 .. Len(t) /\ k \in d + 1 .. e /\ \A l \in d .. k - 1 : l = d \/ l \in m .. k - 1
        BY <1>1, <3>2
      <3>4. \A l \in d .. k - 1 : t[l] \in local
        BY <3>1, <3>3
      <3> HIDE DEF m
      <3>5. e \in EmailEnds(t, d)
        BY <3>1, <3>3, <3>4 DEF EmailEnds, AllIn
      <3>6. d \in 1 .. d /\ ~(e <= n)
        BY <1>1, <3>3
      <3> QED
        BY <3>5, <3>6
    <2>2. Ends(kind, t, d + 1) # {} => t[d + 1] \in Runs \cup Words
      BY <1>4, <2>1
    <2>3. kind # "[PHONE]"
      OBVIOUS
    <2> QED
      BY <1>1, <1>2, <2>2, <2>3, SameBehind
  <1>7. ASSUME NEW k \in n + 1 .. d PROVE Ends(kind, t, k) = {}
    <2> SUFFICES ASSUME NEW e \in Ends(kind, t, k) PROVE FALSE
      OBVIOUS
    <2>1. k \in 1 .. d /\ k \in 1 .. Len(t)
      BY <1>1
    <2>2. e \in k .. Len(t)
      BY <1>2, <2>1, EndsWithin
    <2>3. e <= n
      BY <1>4, <2>1
    <2> QED
      BY <1>1, <2>2, <2>3
  <1>8. Scan(kind, t)[n + 1] = Joined(x, Scan(kind, t)[d + 1])
    <2> DEFINE h == n + 1
               m == d + 1
    <2>1. /\ h \in Nat \ {0} /\ m \in Nat /\ m = h + Len(x) /\ m <= Len(t) + 1
          /\ h = n + 1 /\ m = d + 1 /\ h - 1 = n /\ m - 1 = d
      BY <1>1
    <2> HIDE DEF h, m
    <2>2. \A k \in 1 .. Len(x) : t[k + (h - 1)] = x[k]
      BY <1>3, <2>1
    <2>3. \A k \in h .. m - 1 : Ends(kind, t, k) = {}
      BY <1>7, <2>1
    <2>4. StandsIdle(x, kind, t, h, m)
      BY <2>1, <2>2, <2>3 DEF StandsIdle
    <2>5. Scan(kind, t)[h] = Joined(x, Scan(kind, t)[m])
      BY <1>2, <2>4, ScanPassesPart
    <2> QED
      BY <2>1, <2>5
  <1> QED
    BY <1>2, <1>5, <1>6, <1>8, SplitPass

\* The parts and their order make the text.
LEMMA SplitsDetermine ==
  ASSUME NEW T, NEW t \in Seq(T), NEW p \in Seq(T), NEW x \in Seq(T), NEW q \in Seq(T),
         Splits(t, p, x, q)
  PROVE  t = p \o x \o q
  <1> DEFINE s == Joined(p, Joined(x, q))
             n == Len(p)
             d == n + Len(x)
  <1>1. s \in Seq(T) /\ s = p \o (x \o q)
    BY JoinedText
  <1>2. Splits(s, p, x, q)
    BY JoinedSplits
  <1> HIDE DEF s
  <1>3. /\ n \in Nat /\ Len(x) \in Nat /\ Len(q) \in Nat /\ d \in Nat /\ d = n + Len(x)
        /\ Len(t) = Len(q) + d /\ Len(s) = Len(q) + d
    BY <1>1, <1>2, SplitPlaces
  <1>4. /\ \A k \in 1 .. n : t[k] = p[k] /\ s[k] = p[k]
        /\ \A k \in 1 .. Len(x) : t[k + n] = x[k] /\ s[k + n] = x[k]
        /\ \A k \in 1 .. Len(q) : t[k + d] = q[k] /\ s[k + d] = q[k]
    BY <1>2 DEF Splits
  <1> HIDE DEF n, d
  <1>5. ASSUME NEW k \in 1 .. Len(t) PROVE t[k] = s[k]
    <2>1. CASE k <= n
      <3>1. k \in 1 .. n
        BY <1>3, <2>1
      <3> QED
        BY <1>4, <3>1
    <2>2. CASE k > n /\ k <= d
      <3>1. k - n \in 1 .. Len(x) /\ (k - n) + n = k
        BY <1>3, <2>2
      <3>2. t[(k - n) + n] = x[k - n] /\ s[(k - n) + n] = x[k - n]
        BY <1>4, <3>1
      <3> QED
        BY <3>1, <3>2
    <2>3. CASE k > d
      <3>1. k - d \in 1 .. Len(q) /\ (k - d) + d = k
        BY <1>3, <2>3
      <3>2. t[(k - d) + d] = q[k - d] /\ s[(k - d) + d] = q[k - d]
        BY <1>4, <3>1
      <3> QED
        BY <3>1, <3>2
    <2> QED
      BY <1>3, <2>1, <2>2, <2>3
  <1>6. t = s
    BY <1>1, <1>3, <1>5, SeqEqual
  <1>7. p \o (x \o q) = p \o x \o q
    BY JoinedAssociative DEF Joined
  <1> QED
    BY <1>1, <1>6, <1>7

\* A card number that stands alone is redacted as a whole, and the text before and
\* behind it as if it were not there.
LEMMA LoneCardRedacted ==
  ASSUME NEW T, NEW text \in Seq(T), Kinds \subseteq T,
         NEW i \in 1 .. Len(text), NEW j \in CardEnds(text, i),
         PassesLuhn(DigitsOf(SubSeq(text, i, j))),
         \A k \in 1 .. i - 1 : ~({text[k], text[i]} \subseteq Runs /\ AllIn(text, k, i, Joiners)),
         \A k \in j + 1 .. Len(text) :
            ~({text[j], text[k]} \subseteq Runs /\ AllIn(text, j, k, Joiners)),
         \A k \in i .. j : SsnEnds(text, k) = {},
         \A k \in 1 .. j : \A e \in EmailEnds(text, k) : e < i
  PROVE  redact_pii(text) = redact_pii(SubSeq(text, 1, i - 1)) \o <<"[CREDIT_CARD]">>
                               \o redact_pii(SubSeq(text, j + 1, Len(text)))
  <1> DEFINE p == SubSeq(text, 1, i - 1)
             x == SubSeq(text, i, j)
             q == SubSeq(text, j + 1, Len(text))
             n == Len(p)
             d == Len(p) + Len(x)
             card == <<"[CREDIT_CARD]">>
  <1>1. Len(text) \in Nat /\ j \in i .. Len(text) /\ text[i] \in Runs /\ text[j] \in Runs
    BY LenProperties DEF CardEnds
  <1>2. /\ p \in Seq(T) /\ Len(p) = i - 1 /\ x \in Seq(T) /\ Len(x) = j - i + 1
        /\ q \in Seq(T) /\ Len(q) = Len(text) - j
        /\ Splits(text, p, x, q)
    BY <1>1, TextSplits
  <1>3. PassesLuhn(DigitsOf(x))
    OBVIOUS
  <1> HIDE DEF p, x, q
  <1>4. n = i - 1 /\ d = j /\ n \in Nat /\ n < i /\ Len(x) \in Nat /\ Len(x) > 0
    BY <1>1, <1>2
  <1>5. /\ \A k \in 1 .. n : text[k] = p[k]
        /\ \A k \in 1 .. Len(x) : text[k + n] = x[k]
        /\ \A k \in 1 .. Len(q) : text[k + d] = q[k]
    BY <1>2 DEF Splits
  <1> HIDE DEF n, d
  <1>6. ClosedRight(p)
    <2> SUFFICES ASSUME NEW k \in 1 .. n, p[k] \in Runs PROVE \E l \in k .. n : p[l] \notin Joiners
      BY DEF ClosedRight, n
    <2>1. k \in 1 .. i - 1 /\ text[k] \in Runs
      BY <1>4, <1>5
    <2>2. PICK l \in k .. i : text[l] \notin Joiners
      BY <1>1, <2>1 DEF AllIn
    <2>3. l # i
      BY <1>1, <2>2 DEF Joiners
    <2>4. l \in k .. n /\ l \in 1 .. n
      BY <1>4, <2>3
    <2> QED
      BY <1>5, <2>2, <2>4
  <1>7. ClosedLeft(q)
    <2> SUFFICES ASSUME NEW k \in 1 .. Len(q), q[k] \in Runs PROVE \E l \in 1 .. k : q[l] \notin Joiners
      BY DEF ClosedLeft
    <2>1. k + j \in j + 1 .. Len(text) /\ text[k + j] \in Runs
      BY <1>1, <1>2, <1>4, <1>5
    <2>2. PICK l \in j .. k + j : text[l] \notin Joiners
      BY <1>1, <2>1 DEF AllIn
    <2>3. l # j
      BY <1>1, <2>2 DEF Joiners
    <2>4. l - j \in 1 .. k /\ l - j \in 1 .. Len(q) /\ (l - j) + d = l
      <3>1. j \in Int /\ l \in Int /\ k \in Int /\ j <= l /\ l <= k + j /\ k <= Len(q)
        BY <1>1, <1>2, <2>2
      <3>2. l - j \in 1 .. k
        BY <2>3, <3>1
      <3>3. (l - j) + d = l
        BY <1>4, <3>1
      <3> QED
        BY <1>2, <3>1, <3>2, <3>3
    <2>5. text[(l - j) + d] = q[l - j]
      BY <1>5, <2>4
    <2> QED
      BY <2>2, <2>4, <2>5
  <1>8. Len(x) \in CardEnds(x, 1)
    <2> DEFINE c == 0 - n
    <2>1. i \in 1 .. Len(text) /\ c \in Int /\ i + c = 1 /\ j + c = Len(x)
      BY <1>1, <1>2, <1>4
    <2>2. Moved(text, i, j, x, c)
      <3>1. ASSUME NEW l \in i .. j PROVE x[l + c] = text[l]
        <4>1. l - n \in 1 .. Len(x) /\ (l - n) + n = l /\ l + c = l - n
          BY <1>1, <1>2, <1>4
        <4> QED
          BY <1>5, <4>1
      <3> HIDE DEF c
      <3>2. i + c >= 1 /\ j + c <= Len(x)
        BY <1>4, <2>1
      <3> QED
        BY <2>1, <3>1, <3>2 DEF Moved
    <2> HIDE DEF c
    <2>3. j + c \in CardEnds(x, i + c)
      BY <1>2, <2>1, <2>2, CardMoves
    <2> QED
      BY <2>1, <2>3
  <1>9. \A k \in 1 .. Len(x) : SsnEnds(x, k) = {}
    <2> SUFFICES ASSUME NEW k \in 1 .. Len(x), NEW e \in SsnEnds(x, k) PROVE FALSE
      OBVIOUS
    <2>1. e \in k .. Len(x)
      <3>1. DOMAIN x = 1 .. Len(x)
        BY <1>2, LenProperties
      <3> QED
        BY <1>4, <3>1 DEF SsnEnds
    <2>2. Moved(x, k, e, text, n)
      <3>1. \A l \in k .. e : l \in 1 .. Len(x)
        BY <1>4, <2>1
      <3>2. n \in Int /\ k + n >= 1 /\ e + n <= Len(text)
        BY <1>1, <1>2, <1>4, <2>1
      <3> QED
        BY <1>5, <3>1, <3>2 DEF Moved
    <2>3. e + n \in SsnEnds(text, k + n)
      BY <1>2, <2>2, SsnMoves
    <2>4. k + n \in i .. j
      BY <1>1, <1>2, <1>4
    <2> QED
      BY <2>3, <2>4
  <1> DEFINE E(s) == Sub("[EMAIL]", s)
             S(s) == Sub("[SSN]", s)
             C(s) == Sub("[CREDIT_CARD]", s)
             P(s) == Sub("[PHONE]", s)
             I(s) == Sub("[IP_ADDRESS]", s)
  <1>10. /\ "[EMAIL]" \in T /\ "[SSN]" \in T /\ "[CREDIT_CARD]" \in T
         /\ "[PHONE]" \in T /\ "[IP_ADDRESS]" \in T
         /\ \A kind \in Kinds : kind \in T
         /\ Kinds = {"[EMAIL]", "[SSN]", "[CREDIT_CARD]", "[PHONE]", "[IP_ADDRESS]"}
    BY KindsAre
  <1>11. \A s \in Seq(T) :
           /\ E(s) \in Seq(T) /\ S(s) \in Seq(T) /\ C(s) \in Seq(T) /\ P(s) \in Seq(T) /\ I(s) \in Seq(T)
           /\ ClosedRight(s) => ClosedRight(E(s)) /\ ClosedRight(S(s))
           /\ ClosedLeft(s) => ClosedLeft(E(s)) /\ ClosedLeft(S(s))
    BY <1>10, SubStems, SubKeepsClosed
  <1>12. Splits(E(text), E(p), x, E(q))
    <2>1. text[d] \in Runs /\ \A k \in 1 .. d : \A e \in EmailEnds(text, k) : e <= n
      <3> SUFFICES ASSUME NEW k \in 1 .. d, NEW e \in EmailEnds(text, k) PROVE e <= n
        BY <1>1, <1>4
      <3>1. e < i /\ k \in 1 .. j /\ k \in 1 .. Len(text)
        BY <1>1, <1>4
      <3>2. e \in Ends("[EMAIL]", text, k)
        BY DEF Ends
      <3>3. e \in k .. Len(text)
        BY <1>10, <3>1, <3>2, EndsWithin
      <3> QED
        BY <1>1, <1>4, <3>1, <3>3
    <2> QED
      BY <1>2, <1>4, <1>10, <2>1, EmailGoesBy DEF n, d
  <1> HIDE DEF E, S, C, P, I
  <1>13. Splits(S(E(text)), S(E(p)), x, S(E(q)))
    BY <1>2, <1>6, <1>7, <1>9, <1>10, <1>11, <1>12, SsnPassesCard DEF S
  <1>14. Splits(C(S(E(text))), C(S(E(p))), card, C(S(E(q))))
    BY <1>2, <1>3, <1>4, <1>6, <1>7, <1>8, <1>10, <1>11, <1>13, CardPassTakesCard DEF C
  <1>15. card \in Seq(T) /\ Len(card) = 1 /\ card[1] = "[CREDIT_CARD]"
    BY <1>10, SingleToken
  <1> HIDE DEF card
  <1>16. Splits(P(C(S(E(text)))), P(C(S(E(p)))), card, P(C(S(E(q)))))
    BY <1>2, <1>10, <1>11, <1>14, <1>15, PassesPlaceholder DEF P
  <1>17. Splits(I(P(C(S(E(text))))), I(P(C(S(E(p))))), card, I(P(C(S(E(q))))))
    BY <1>2, <1>10, <1>11, <1>15, <1>16, PassesPlaceholder DEF I
  <1>18. \A s : redact_pii(s) = I(P(C(S(E(s)))))
    BY RedactionUnrolled DEF E, S, C, P, I
  <1>19. Splits(redact_pii(text), redact_pii(p), card, redact_pii(q))
    BY <1>17, <1>18
  <1>20. redact_pii(text) \in Seq(T) /\ redact_pii(p) \in Seq(T) /\ redact_pii(q) \in Seq(T)
    BY <1>2, RedactedIsClean
  <1>21. redact_pii(text) = redact_pii(p) \o card \o redact_pii(q)
    BY <1>15, <1>19, <1>20, SplitsDetermine
  <1> QED
    BY <1>21 DEF p, q, card
==============================================================================
