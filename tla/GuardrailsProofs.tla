--------------------------- MODULE GuardrailsProofs ---------------------------
(***************************************************************************)
(* What holds of the synchronous code of a request for every text, config  *)
(* file and reply, and of its invariants for every sequence of requests.   *)
(***************************************************************************)
EXTENDS Guardrails, RedactionProofs

(***************************************************************************)
(* The registry and the file.  A registry that has loaded the file holds   *)
(* all of it; one that has not is empty unless the file stops it half-way, *)
(* which it will do at every attempt.                                      *)
(***************************************************************************)
RegistryFollowsFile ==
    /\ file \in ConfigFiles
    /\ registry.loaded \in BOOLEAN
    /\ registry.loaded => /\ file.status # "unparsable" /\ FirstIncomplete(file) = 0
                          /\ registry.prompts = Registered(<<>>, file.entries)
    /\ registry.loaded \/ FirstIncomplete(file) # 0 \/ registry.prompts = <<>>

\* Loading keeps to the file.
LEMMA LoadFollowsFile ==
  ASSUME RegistryFollowsFile, registry' = load(registry, file), UNCHANGED file
  PROVE  RegistryFollowsFile'
  <1>1. CASE registry.loaded \/ file.status = "unparsable"
    <2>1. registry' = registry
      BY <1>1 DEF load
    <2> QED
      BY <2>1 DEF RegistryFollowsFile
  <1>2. CASE ~(registry.loaded \/ file.status = "unparsable")
    <2>1. CASE FirstIncomplete(file) = 0
      <3>1. registry' = [loaded |-> TRUE, prompts |-> Registered(<<>>, file.entries)]
        BY <1>2, <2>1 DEF load, RegistryFollowsFile
      <3> QED
        BY <1>2, <2>1, <3>1 DEF RegistryFollowsFile
    <2>2. CASE FirstIncomplete(file) # 0
      <3>1. registry'.loaded = FALSE
        BY <1>2, <2>2 DEF load
      <3> QED
        BY <1>2, <2>2, <3>1 DEF RegistryFollowsFile
    <2> QED
      BY <2>1, <2>2
  <1> QED
    BY <1>1, <1>2

\* When load raises nothing, the registry holds the whole file.
LEMMA LoadedCompletely ==
  ASSUME RegistryFollowsFile, LoadError(registry, file) = "none"
  PROVE  /\ file.status # "unparsable" /\ FirstIncomplete(file) = 0
         /\ load(registry, file).prompts = Registered(<<>>, file.entries)
  <1>1. CASE registry.loaded
    BY <1>1 DEF RegistryFollowsFile, load
  <1>2. CASE ~registry.loaded
    <2>1. file.status # "unparsable"
      BY <1>2 DEF LoadError
    <2>2. FirstIncomplete(file) = 0
      <3>1. CASE file.status = "missing"
        <4>1. file.entries = <<>>
          BY <3>1, GuardrailsAssumption DEF RegistryFollowsFile, GuardrailsAssumption, ConfigFile
        <4>2. 1 .. Len(file.entries) = {}
          BY <4>1
        <4> QED
          BY <4>2 DEF FirstIncomplete, SelectInSeq
      <3>2. CASE file.status # "missing"
        BY <1>2, <2>1, <3>2 DEF LoadError
      <3> QED
        BY <3>1, <3>2
    <2> QED
      BY <1>2, <2>1, <2>2 DEF RegistryFollowsFile, load
  <1> QED
    BY <1>1, <1>2

\* select_version ends in a version of the file's split, or in an exception that
\* the handler turns into "v1" because the file has no split.
LEMMA SelectionFollowsFile ==
  ASSUME RegistryFollowsFile, SelectVersion
  PROVE  SplitFollowsFile'
  <1> DEFINE error == SelectionError(registry, file)
             entries == file.entries
             defaults == {i \in DOMAIN entries : entries[i].prompt_id = "default"}
             last == {i \in defaults : \A k \in defaults : k <= i}
             split == UNION {Positive(entries[i].versions) : i \in last}
             usable == file.status = "read" /\ FirstIncomplete(file) = 0 /\ split # {}
  <1> SUFFICES ASSUME stage' = "selected" PROVE version' \in IF usable THEN split ELSE {"v1"}
    BY DEF SplitFollowsFile, SelectVersion
  <1>1. \/ error \in {"KeyError", "ValueError"} /\ version' = "v1"
        \/ error = "none" /\ version' \in select_version(registry, file)
    BY DEF SelectVersion
  <1>2. /\ entries \in Seq(PromptEntry) /\ file.status \in {"missing", "unparsable", "read"}
        /\ file.status # "read" => entries = <<>>
    BY GuardrailsAssumption DEF RegistryFollowsFile, GuardrailsAssumption, ConfigFile
  <1>3. CASE LoadError(registry, file) # "none"
    <2>1. error = LoadError(registry, file)
      BY <1>3 DEF SelectionError
    <2>2. FirstIncomplete(file) # 0 \/ error = "YAMLError"
      BY <1>3, <2>1 DEF LoadError
    <2> QED
      BY <1>1, <1>3, <2>1, <2>2
  <1>4. CASE LoadError(registry, file) = "none"
    <2> DEFINE prompts == load(registry, file).prompts
    <2>1. FirstIncomplete(file) = 0 /\ prompts = Registered(<<>>, entries)
      BY <1>4, LoadedCompletely
    <2>2. DOMAIN <<>> = {}
      OBVIOUS
    <2>3. /\ DOMAIN prompts = {e.prompt_id : e \in ToSet(entries)}
          /\ "default" \in DOMAIN prompts => prompts["default"] = entries[Max(defaults)].versions
      BY <2>1, <2>2 DEF Registered
    <2>4. "default" \in DOMAIN prompts <=> defaults # {}
      BY <2>3 DEF ToSet
    <2>5. CASE defaults = {}
      <3>1. error = "KeyError"
        BY <1>4, <2>4, <2>5 DEF SelectionError
      <3> QED
        BY <1>1, <2>5, <3>1
    <2>6. CASE defaults # {}
      <3> DEFINE m == Max(defaults)
      <3>1. m \in defaults /\ \A k \in defaults : m >= k
        <4>1. defaults \in SUBSET Nat /\ Len(entries) \in Nat /\ \A k \in defaults : k <= Len(entries)
          BY <1>2
        <4> HIDE DEF defaults
        <4> QED
          BY <2>6, <4>1, MaxOfNaturals
      <3> HIDE DEF m
      <3>2. last = {m}
        <4>1. \A k \in defaults : k \in Nat
          BY <1>2
        <4>2. m \in last
          BY <3>1, <4>1
        <4>3. \A i \in last : i = m
          BY <3>1, <4>1
        <4> QED
          BY <4>2, <4>3
      <3>3. split = Positive(entries[m].versions)
        BY <3>2
      <3>4. prompts["default"] = entries[m].versions
        BY <2>3, <2>4, <2>6 DEF m
      <3>5. select_version(registry, file) = split
        BY <3>3, <3>4 DEF select_version, Positive
      <3>6. file.status = "read"
        <4>1. entries # <<>>
          BY <2>6
        <4> QED
          BY <1>2, <4>1
      <3>7. error = IF split = {} THEN "ValueError" ELSE "none"
        BY <1>4, <2>4, <2>6, <3>5 DEF SelectionError
      <3> HIDE DEF split, error
      <3>8. CASE split = {}
        BY <1>1, <3>5, <3>7, <3>8
      <3>9. CASE split # {}
        BY <1>1, <2>1, <3>5, <3>6, <3>7, <3>9
      <3> QED
        BY <3>8, <3>9
    <2> QED
      BY <2>5, <2>6
  <1> QED
    BY <1>3, <1>4
------------------------------------------------------------------------------
(***************************************************************************)
(* Toxicity                                                                *)
(***************************************************************************)
\* The positions at which Sentences cuts a text.
Cuts(text) == {0, Len(text)} \cup {i \in DOMAIN text : text[i] = Stop}

\* The cut behind a cut.
NextCut(text, i) == Min({j \in Cuts(text) : j > i})

\* The cuts of a text lie in it, each but the last has a next one, and the
\* sentences are what stands between them.
LEMMA SentencesBetweenCuts ==
  ASSUME NEW text \in Text
  PROVE  /\ Len(text) \in Nat /\ Cuts(text) \subseteq 0 .. Len(text)
         /\ \A i \in Cuts(text) \ {Len(text)} :
               /\ i \in 0 .. Len(text) - 1
               /\ NextCut(text, i) \in Cuts(text) /\ NextCut(text, i) > i
               /\ \A j \in Cuts(text) : j > i => NextCut(text, i) <= j
         /\ Sentences(text) =
               {SubSeq(text, i + 1, NextCut(text, i)) : i \in Cuts(text) \ {Len(text)}}
  <1>1. Len(text) \in Nat /\ DOMAIN text = 1 .. Len(text)
    BY DEF Text
  <1>2. Cuts(text) \subseteq 0 .. Len(text)
    BY <1>1 DEF Cuts
  <1>3. ASSUME NEW i \in Cuts(text) \ {Len(text)}
        PROVE  /\ i \in 0 .. Len(text) - 1
               /\ NextCut(text, i) \in Cuts(text) /\ NextCut(text, i) > i
               /\ \A j \in Cuts(text) : j > i => NextCut(text, i) <= j
    <2> DEFINE later == {j \in Cuts(text) : j > i}
    <2>1. i \in 0 .. Len(text) - 1
      BY <1>1, <1>2
    <2>2. Len(text) \in later /\ later \in SUBSET Nat
      <3>1. Len(text) \in Cuts(text)
        BY DEF Cuts
      <3>2. Len(text) > i
        <4>1. Len(text) \in Nat
          BY <1>1
        <4> QED
          BY <2>1, <4>1
      <3>3. \A j \in Cuts(text) : j \in Nat
        BY <1>1, <1>2
      <3> QED
        BY <3>1, <3>2, <3>3
    <2>3. Min(later) \in later /\ \A j \in later : Min(later) <= j
      BY <2>2, MinOfNaturals
    <2> QED
      BY <2>1, <2>3 DEF NextCut
  <1> QED
    BY <1>1, <1>2, <1>3 DEF Sentences, Cuts, NextCut

\* So sentences are texts.
LEMMA SentenceIsText ==
  ASSUME NEW text \in Text, NEW s \in Sentences(text)
  PROVE  s \in Text
  <1>1. PICK i \in Cuts(text) \ {Len(text)} : s = SubSeq(text, i + 1, NextCut(text, i))
    BY SentencesBetweenCuts
  <1> DEFINE a == i + 1
             b == NextCut(text, i)
  <1>2. a \in Int /\ b \in Int /\ a \in 1 .. Len(text) /\ b \in 1 .. Len(text)
    BY SentencesBetweenCuts
  <1>3. s = SubSeq(text, a, b)
    BY <1>1
  <1> HIDE DEF a, b
  <1>4. \A k \in a .. b : text[k] \in STRING
    BY <1>2 DEF Text
  <1> QED
    BY <1>2, <1>3, <1>4, SubSeqProperties DEF Text

\* The tokens of a text are finitely many.
LEMMA TokensFinite ==
  ASSUME NEW text \in Text
  PROVE  IsFiniteSet(ToSet(text))
  <1> DEFINE I == 1 .. Len(text)
             T == ToSet(text)
  <1>1. IsFiniteSet(I)
    BY LenProperties, FS_Interval DEF Text
  <1>2. text \in [I -> STRING]
    BY LenProperties DEF Text
  <1>3. text \in [I -> T] /\ \A t \in T : \E i \in I : text[i] = t
    BY <1>2 DEF ToSet
  <1> HIDE DEF I, T
  <1>4. text \in Surjection(I, T)
    BY <1>3 DEF Surjection
  <1> QED
    BY <1>1, <1>4, FS_Surjection DEF T

\* What a term weighs in a sentence.
Weight(sentence, term) ==
    IF IsMeta(sentence) THEN Lexicon[term] \div Discount ELSE Lexicon[term]

\* The score of a sentence is at most 100 and at least the weight of each term in it.
LEMMA SentenceScoreBounds ==
  ASSUME NEW s \in Text
  PROVE  /\ SentenceScore(s) \in 0 .. 100
         /\ \A term \in MatchedTerms(s) : Weight(s, term) <= SentenceScore(s)
  <1> DEFINE M == MatchedTerms(s)
             w == [term \in M |-> Weight(s, term)]
             total == SumFunctionOnSet(w, M)
  <1>1. IsFiniteSet(M)
    BY TokensFinite, FS_Intersection DEF MatchedTerms
  <1>2. \A term \in M : Weight(s, term) \in 0 .. 80
    <2> SUFFICES ASSUME NEW term \in M PROVE Weight(s, term) \in 0 .. 80
      OBVIOUS
    <2>1. Lexicon[term] \in {20, 50, 80}
      BY ToxicityAssumption DEF ToxicityAssumption, MatchedTerms
    <2>2. Lexicon[term] \div Discount \in 0 .. 80
      BY <2>1 DEF Discount
    <2> QED
      BY <2>1, <2>2 DEF Weight
  <1>3. SentenceScore(s) = Min({100, total})
    BY DEF SentenceScore, SumFunction, Weight
  <1>4. /\ \A term \in M : w[term] = Weight(s, term)
        /\ \A term \in M : w[term] \in Nat
    BY <1>2
  <1> HIDE DEF M, w
  <1>5. total \in Nat
    BY <1>1, <1>4, SumType
  <1>6. \A term \in M : Weight(s, term) <= total
    BY <1>1, <1>4, SumCoversElement
  <1> HIDE DEF total
  <1>7. Min({100, total}) \in {100, total} /\ \A y \in {100, total} : Min({100, total}) <= y
    BY <1>5, MinOfNaturals
  <1> USE DEF M
  <1> QED
    BY <1>2, <1>3, <1>5, <1>6, <1>7

\* The score of a text is that of its worst sentence, or 0.
LEMMA ScoreOfWorstSentence ==
  ASSUME NEW text \in Text
  PROVE  /\ ToxicityScore(text) \in 0 .. 100
         /\ \A s \in Sentences(text) : SentenceScore(s) <= ToxicityScore(text)
         /\ ToxicityScore(text) = 0 \/ \E s \in Sentences(text) : ToxicityScore(text) = SentenceScore(s)
  <1> DEFINE S == {0} \cup {SentenceScore(s) : s \in Sentences(text)}
  <1>1. \A s \in Sentences(text) : SentenceScore(s) \in 0 .. 100
    BY SentenceIsText, SentenceScoreBounds
  <1>2. S \in SUBSET Nat /\ S # {} /\ \A y \in S : y <= 100
    BY <1>1
  <1>3. Max(S) \in S /\ \A y \in S : Max(S) >= y
    <2> HIDE DEF S
    <2> QED
      BY <1>2, MaxOfNaturals
  <1>4. ToxicityScore(text) = Max(S)
    BY DEF ToxicityScore
  <1>5. \A y \in S : y \in 0 .. 100
    BY <1>1
  <1>6. \A s \in Sentences(text) : SentenceScore(s) \in S
    OBVIOUS
  <1>7. \A y \in S : y = 0 \/ \E s \in Sentences(text) : y = SentenceScore(s)
    OBVIOUS
  <1> HIDE DEF S
  <1>8. \A s \in Sentences(text) : SentenceScore(s) <= ToxicityScore(text)
    <2> TAKE s \in Sentences(text)
    <2>1. SentenceScore(s) \in 0 .. 100 /\ Max(S) \in 0 .. 100 /\ Max(S) >= SentenceScore(s)
      BY <1>3, <1>5, <1>6
    <2> QED
      BY <1>4, <2>1
  <1> QED
    BY <1>3, <1>4, <1>5, <1>7, <1>8

\* A quote stands between two quote characters.
LEMMA QuotedBetweenMarks ==
  ASSUME NEW s \in Text, NEW term \in MatchedTerms(s), InAnyQuote(term, s)
  PROVE  \E i, j, k \in DOMAIN s : /\ i < j /\ j < k /\ s[i] = Quote /\ s[k] = Quote
                                   /\ s[j] \in {term} \cup Compounds[term]
  <1> DEFINE marks == {i \in DOMAIN s : s[i] = Quote}
             later(i) == {k \in marks : k > i}
             end(i) == Min(later(i))
  <1>1. PICK q \in Quotes(s) : ToSet(q) \cap ({term} \cup Compounds[term]) # {}
    BY DEF InAnyQuote
  <1>2. PICK i \in marks : later(i) # {} /\ q = SubSeq(s, i + 1, end(i) - 1)
    BY <1>1 DEF Quotes
  <1>3. Len(s) \in Nat /\ DOMAIN s = 1 .. Len(s)
    BY LenProperties DEF Text
  <1>4. later(i) \in SUBSET Nat
    BY <1>3
  <1>5. end(i) \in later(i)
    BY <1>2, <1>4, MinOfNaturals
  <1>6. /\ i \in 1 .. Len(s) /\ end(i) \in 1 .. Len(s) /\ i < end(i)
        /\ s[i] = Quote /\ s[end(i)] = Quote
    BY <1>3, <1>5
  <1>7. PICK x \in DOMAIN q : q[x] \in {term} \cup Compounds[term]
    BY <1>1 DEF ToSet
  <1> DEFINE a == i + 1
             b == end(i) - 1
  <1>8. a \in Int /\ b \in Int /\ \A k \in a .. b : s[k] \in STRING
    <2> DEFINE e == end(i)
               n == Len(s)
    <2>0. n \in Nat /\ i \in 1 .. n /\ e \in 1 .. n
      BY <1>3, <1>6
    <2> HIDE DEF e, n, end, later, marks
    <2>1. a \in Int /\ b \in Int /\ \A k \in a .. b : k \in 1 .. Len(s)
      BY <2>0 DEF e, n
    <2> QED
      BY <2>1, ElementOfSeq DEF Text
  <1>9. q = SubSeq(s, a, b)
    BY <1>2
  <1> HIDE DEF a, b, end, later, marks
  <1>10. /\ q \in Seq(STRING) /\ Len(q) = IF a <= b THEN b - a + 1 ELSE 0
         /\ \A k \in 1 .. b - a + 1 : q[k] = s[a + k - 1]
    BY <1>8, <1>9, SubSeqProperties
  <1>11. x \in 1 .. b - a + 1 /\ q[x] = s[a + x - 1]
    <2>1. x \in 1 .. Len(q)
      BY <1>7, <1>10, LenProperties
    <2>2. x \in 1 .. b - a + 1
      BY <1>8, <1>10, <2>1
    <2> QED
      BY <1>10, <2>2
  <1>12. /\ i + x \in 1 .. Len(s) /\ i < i + x /\ i + x < end(i)
         /\ s[i + x] \in {term} \cup Compounds[term]
    <2>1. a + x - 1 = i + x /\ i < i + x /\ i + x < end(i)
      BY <1>6, <1>11 DEF a, b
    <2> QED
      BY <1>3, <1>6, <1>7, <1>11, <2>1
  <1> QED
    BY <1>3, <1>6, <1>12

\* A term's full weight counts unless its sentence gives a reason not to.
LEMMA FullWeightWithoutReason ==
  ASSUME NEW text \in Text, NEW s \in Sentences(text), NEW term \in MatchedTerms(s),
         ToSet(s) \cap Indicators = {}, ~InAnyQuote(term, s)
  PROVE  ToxicityScore(text) >= Lexicon[term]
  <1>1. Weight(s, term) = Lexicon[term]
    BY DEF Weight, IsMeta
  <1>2. s \in Text
    BY SentenceIsText
  <1>3. /\ SentenceScore(s) \in 0 .. 100 /\ Lexicon[term] <= SentenceScore(s)
    BY <1>1, <1>2, SentenceScoreBounds
  <1>4. ToxicityScore(text) \in 0 .. 100 /\ SentenceScore(s) <= ToxicityScore(text)
    BY ScoreOfWorstSentence
  <1>5. Lexicon[term] \in {20, 50, 80}
    BY ToxicityAssumption DEF ToxicityAssumption, MatchedTerms
  <1> QED
    BY <1>3, <1>4, <1>5

\* Parts of a text whose sentences are sentences of the text score no more.
LEMMA PartScoresNoMore ==
  ASSUME NEW text \in Text, NEW part \in Text, Sentences(part) \subseteq Sentences(text)
  PROVE  ToxicityScore(text) >= ToxicityScore(part)
  <1>1. ToxicityScore(text) \in 0 .. 100 /\ ToxicityScore(part) \in 0 .. 100
    BY ScoreOfWorstSentence
  <1>2. CASE ToxicityScore(part) = 0
    BY <1>1, <1>2
  <1>3. CASE ToxicityScore(part) # 0
    <2>1. PICK s \in Sentences(part) : ToxicityScore(part) = SentenceScore(s)
      BY <1>3, ScoreOfWorstSentence
    <2>2. SentenceScore(s) <= ToxicityScore(text)
      BY <2>1, ScoreOfWorstSentence
    <2> QED
      BY <1>1, <2>1, <2>2
  <1> QED
    BY <1>2, <1>3

\* The part of a text from token a to token b, and its tokens.
LEMMA PartOfText ==
  ASSUME NEW text \in Text, NEW a \in 1 .. Len(text) + 1, NEW b \in a - 1 .. Len(text)
  PROVE  /\ SubSeq(text, a, b) \in Text
         /\ Len(SubSeq(text, a, b)) = b - a + 1
         /\ \A k \in 1 .. b - a + 1 : SubSeq(text, a, b)[k] = text[a + k - 1]
  <1>1. Len(text) \in Nat
    BY LenProperties DEF Text
  <1>2. a \in Int /\ b \in Int /\ a <= b + 1 /\ \A k \in a .. b : k \in 1 .. Len(text)
    BY <1>1
  <1>3. \A k \in a .. b : text[k] \in STRING
    BY <1>2, ElementOfSeq DEF Text
  <1>4. /\ SubSeq(text, a, b) \in Seq(STRING)
        /\ Len(SubSeq(text, a, b)) = IF a <= b THEN b - a + 1 ELSE 0
        /\ \A k \in 1 .. b - a + 1 : SubSeq(text, a, b)[k] = text[a + k - 1]
    BY <1>2, <1>3, SubSeqProperties
  <1>5. Len(SubSeq(text, a, b)) = b - a + 1
    BY <1>2, <1>4
  <1> QED
    BY <1>4, <1>5 DEF Text

\* The sentences of a part are sentences of the text if the cuts of the part are
\* those of the text, moved by the offset of the part.
LEMMA SentencesOfPart ==
  ASSUME NEW text \in Text, NEW o \in Nat, NEW n \in Nat, o + n <= Len(text),
         o \in Cuts(text), o + n \in Cuts(text)
  PROVE  Sentences(SubSeq(text, o + 1, o + n)) \subseteq Sentences(text)
  <1> DEFINE part == SubSeq(text, o + 1, o + n)
             L == Len(text)
  <1>1. L \in Nat /\ o + n <= L /\ DOMAIN text = 1 .. L
    BY LenProperties DEF Text
  <1>2. /\ part \in Text /\ Len(part) = n
        /\ \A k \in 1 .. n : part[k] = text[o + k]
    <2> DEFINE a == o + 1
               b == o + n
    <2>0. L \in Nat /\ o + n <= L
      BY <1>1
    <2>1. a \in 1 .. L + 1 /\ b \in a - 1 .. L /\ b - a + 1 = n
      BY <2>0
    <2> HIDE DEF a, b
    <2>2. /\ SubSeq(text, a, b) \in Text
          /\ Len(SubSeq(text, a, b)) = b - a + 1
          /\ \A k \in 1 .. b - a + 1 : SubSeq(text, a, b)[k] = text[a + k - 1]
      BY <2>1, PartOfText
    <2>3. \A k \in 1 .. n : a + k - 1 = o + k
      BY DEF a
    <2> QED
      BY <2>1, <2>2, <2>3 DEF a, b
  <1>3. DOMAIN part = 1 .. n
    BY <1>2, LenProperties DEF Text
  <1> HIDE DEF part, L
  <1>4. \A c \in 0 .. n : c \in Cuts(part) <=> o + c \in Cuts(text)
    <2> SUFFICES ASSUME NEW c \in 0 .. n PROVE c \in Cuts(part) <=> o + c \in Cuts(text)
      OBVIOUS
    <2>1. CASE c = 0
      BY <2>1 DEF Cuts
    <2>2. CASE c = n
      BY <1>2, <2>2 DEF Cuts
    <2>3. CASE c # 0 /\ c # n
      <3>1. c \in 1 .. n /\ o + c \in 1 .. L /\ o + c # 0 /\ o + c # L
        BY <1>1, <2>3
      <3>2. part[c] = text[o + c]
        BY <1>2, <3>1
      <3> QED
        BY <1>1, <1>2, <1>3, <2>3, <3>1, <3>2 DEF Cuts, L
    <2> QED
      BY <2>1, <2>2, <2>3
  <1>5. ASSUME NEW c \in Cuts(part) \ {n}
        PROVE  SubSeq(part, c + 1, NextCut(part, c)) \in Sentences(text)
    <2> DEFINE d == NextCut(part, c)
               e == NextCut(text, o + c)
    <2>1. /\ c \in 0 .. n - 1 /\ d \in Cuts(part) /\ d > c /\ d \in 0 .. n
          /\ \A j \in Cuts(part) : j > c => d <= j
      BY <1>2, SentencesBetweenCuts
    <2>2. o + c \in Cuts(text) \ {L}
      BY <1>1, <1>4, <2>1
    <2>3. /\ e \in Cuts(text) /\ e > o + c /\ e \in 0 .. L
          /\ \A j \in Cuts(text) : j > o + c => e <= j
          /\ SubSeq(text, o + c + 1, e) \in Sentences(text)
      BY <2>2, SentencesBetweenCuts DEF L
    <2> HIDE DEF d, e
    <2>4. e <= o + d /\ e - o \in 0 .. n
      <3>1. o + d \in Cuts(text) /\ o + d > o + c
        BY <1>4, <2>1
      <3>2. e <= o + d
        BY <2>3, <3>1
      <3> QED
        BY <2>1, <2>3, <3>2
    <2>5. e - o \in Cuts(part) /\ e - o > c
      BY <1>4, <2>1, <2>3, <2>4
    <2>6. e = o + d
      BY <2>1, <2>3, <2>4, <2>5
    <2>7. SubSeq(part, c + 1, d) = SubSeq(text, o + c + 1, o + d)
      <3> DEFINE u == SubSeq(part, c + 1, d)
                 v == SubSeq(text, o + c + 1, o + d)
      <3>1. c + 1 \in 1 .. n + 1 /\ d \in (c + 1) - 1 .. n
        BY <2>1
      <3>2. o + c + 1 \in 1 .. L + 1 /\ o + d \in (o + c + 1) - 1 .. L
        BY <1>1, <2>1
      <3>3. /\ u \in Text /\ Len(u) = d - (c + 1) + 1
            /\ \A k \in 1 .. d - (c + 1) + 1 : u[k] = part[(c + 1) + k - 1]
        BY <1>2, <3>1, PartOfText
      <3>4. /\ v \in Text /\ Len(v) = (o + d) - (o + c + 1) + 1
            /\ \A k \in 1 .. (o + d) - (o + c + 1) + 1 : v[k] = text[(o + c + 1) + k - 1]
        BY <3>2, PartOfText DEF L
      <3> HIDE DEF u, v
      <3>5. Len(u) = d - c /\ Len(v) = d - c
        BY <2>1, <3>3, <3>4
      <3>6. \A k \in 1 .. d - c : u[k] = v[k]
        <4> TAKE k \in 1 .. d - c
        <4>1. /\ k \in 1 .. d - (c + 1) + 1 /\ (c + 1) + k - 1 = c + k
              /\ k \in 1 .. (o + d) - (o + c + 1) + 1 /\ (o + c + 1) + k - 1 = o + (c + k)
              /\ c + k \in 1 .. n
          BY <2>1
        <4>2. part[c + k] = text[o + (c + k)]
          BY <1>2, <4>1
        <4> QED
          BY <3>3, <3>4, <4>1, <4>2
      <3>7. u = v
        BY <3>3, <3>4, <3>5, <3>6, SeqEqual DEF Text
      <3> QED
        BY <3>7 DEF u, v
    <2> QED
      BY <2>3, <2>6, <2>7 DEF d
  <1>6. Sentences(part) = {SubSeq(part, c + 1, NextCut(part, c)) : c \in Cuts(part) \ {n}}
    <2>1. Sentences(part) =
            {SubSeq(part, c + 1, NextCut(part, c)) : c \in Cuts(part) \ {Len(part)}}
      BY <1>2, SentencesBetweenCuts
    <2> QED
      BY <1>2, <2>1
  <1>7. Sentences(part) \subseteq Sentences(text)
    BY <1>5, <1>6
  <1> QED
    BY <1>7 DEF part

\* What stands before or behind the end of a sentence scores no more than the
\* whole text.
LEMMA SentencesAddUp ==
  ASSUME NEW text \in Text, NEW i \in DOMAIN text, text[i] = Stop
  PROVE  /\ ToxicityScore(text) >= ToxicityScore(SubSeq(text, 1, i))
         /\ ToxicityScore(text) >= ToxicityScore(SubSeq(text, i + 1, Len(text)))
  <1> DEFINE L == Len(text)
  <1>1. L \in Nat /\ i \in 1 .. L
    BY LenProperties DEF Text
  <1>2. 0 \in Cuts(text) /\ i \in Cuts(text) /\ L \in Cuts(text)
    BY DEF Cuts
  <1> HIDE DEF L
  <1>3. /\ 0 \in Nat /\ i \in Nat /\ L - i \in Nat /\ 0 + 1 = 1 /\ 0 + i = i /\ i + (L - i) = L
        /\ 0 + i <= L /\ i + (L - i) <= L
    BY <1>1
  <1>4. Sentences(SubSeq(text, 0 + 1, 0 + i)) \subseteq Sentences(text)
    BY <1>2, <1>3, SentencesOfPart DEF L
  <1>5. Sentences(SubSeq(text, i + 1, i + (L - i))) \subseteq Sentences(text)
    BY <1>2, <1>3, SentencesOfPart DEF L
  <1>6. SubSeq(text, 1, i) \in Text /\ SubSeq(text, i + 1, L) \in Text
    <2>1. /\ 1 \in 1 .. L + 1 /\ i \in 1 - 1 .. L
          /\ i + 1 \in 1 .. L + 1 /\ L \in (i + 1) - 1 .. L
      BY <1>1
    <2> QED
      BY <2>1, PartOfText DEF L
  <1> QED
    BY <1>3, <1>4, <1>5, <1>6, PartScoresNoMore DEF L
------------------------------------------------------------------------------
(***************************************************************************)
(* Evaluation                                                              *)
(***************************************************************************)
\* The verdicts that a reply is, alone or in a fence.
OwnVerdicts(reply) ==
    {v \in DOMAIN Verdicts : \/ reply = <<v>>
                             \/ \E f, g \in Fences : reply \in {<<f, v>>, <<f, v, g>>}}

\* Exactly then the unfenced reply is a verdict.
LEMMA OwnVerdictUnfenced ==
  ASSUME NEW reply \in Text
  PROVE  IF IsVerdict(Unfenced(reply)) THEN Unfenced(reply)[1] \in OwnVerdicts(reply)
         ELSE OwnVerdicts(reply) = {}
  <1>1. \A f \in Fences : f \notin DOMAIN Verdicts
    BY EvaluationAssumption DEF EvaluationAssumption
  <1>2. Len(reply) \in Nat /\ reply \in [1 .. Len(reply) -> STRING]
    BY LenProperties DEF Text
  <1>3. CASE reply = <<>> \/ Head(reply) \notin Fences
    <2>1. Unfenced(reply) = reply
      BY <1>3 DEF Unfenced
    <2>2. CASE IsVerdict(reply)
      <3>1. Len(reply) = 1 /\ reply[1] \in DOMAIN Verdicts
        BY <2>2 DEF IsVerdict
      <3>2. reply = <<reply[1]>>
        BY <1>2, <3>1
      <3> QED
        BY <2>1, <2>2, <3>1, <3>2 DEF OwnVerdicts
    <2>3. CASE ~IsVerdict(reply)
      <3>1. ASSUME NEW v \in OwnVerdicts(reply) PROVE FALSE
        <4>1. v \in DOMAIN Verdicts
          BY DEF OwnVerdicts
        <4>2. reply # <<v>>
          BY <2>3, <4>1 DEF IsVerdict
        <4>3. PICK f \in Fences, g \in Fences : reply = <<f, v>> \/ reply = <<f, v, g>>
          BY <4>2 DEF OwnVerdicts
        <4>4. reply # <<>> /\ Head(reply) = f
          BY <4>3
        <4> QED
          BY <1>3, <4>4
      <3> QED
        BY <2>1, <2>3, <3>1
    <2> QED
      BY <2>1, <2>2, <2>3
  <1>4. CASE reply # <<>> /\ Head(reply) \in Fences
    <2> DEFINE n == Len(reply)
               rest == Tail(reply)
               inner == Front(rest)
    <2>1. n \in Nat \ {0} /\ reply[1] \in Fences
      BY <1>2, <1>4
    <2>2. /\ rest \in Seq(STRING) /\ Len(rest) = n - 1
          /\ \A i \in 1 .. n - 1 : rest[i] = reply[i + 1]
      BY <1>4, HeadTailProperties DEF Text
    <2>3. \A v : reply # <<v>> \/ v \notin DOMAIN Verdicts
      BY <1>1, <2>1
    <2>4. Unfenced(reply) = IF n > 1 /\ reply[n] \in Fences THEN inner ELSE rest
      BY <1>4 DEF Unfenced, Last
    <2>5. n > 1 => /\ Len(inner) = n - 2
                   /\ \A i \in 1 .. n - 2 : inner[i] = reply[i + 1]
      <3> SUFFICES ASSUME n > 1
                   PROVE  /\ Len(inner) = n - 2
                          /\ \A i \in 1 .. n - 2 : inner[i] = reply[i + 1]
        OBVIOUS
      <3>1. rest # <<>>
        <4>1. Len(rest) # 0
          <5> HIDE DEF n, rest
          <5> QED
            BY <2>1, <2>2
        <4> QED
          BY <2>2, <4>1, EmptySeq
      <3> HIDE DEF rest
      <3>2. /\ Len(inner) = Len(rest) - 1
            /\ \A i \in 1 .. Len(rest) - 1 : inner[i] = rest[i]
        BY <2>2, <3>1, FrontLast
      <3> HIDE DEF n, inner
      <3>3. Len(rest) - 1 = n - 2 /\ \A i \in 1 .. n - 2 : i \in 1 .. n - 1
        BY <2>1, <2>2
      <3> QED
        BY <2>2, <3>2, <3>3
    <2> HIDE DEF rest, inner
    <2>6. \A v, f : reply = <<f, v>> <=> n = 2 /\ reply[1] = f /\ reply[2] = v
      BY <1>2
    <2>7. \A v, f, g : reply = <<f, v, g>> <=> n = 3 /\ reply[1] = f /\ reply[2] = v /\ reply[3] = g
      BY <1>2
    <2>8. \A v \in DOMAIN Verdicts :
            v \in OwnVerdicts(reply) <=>
              \/ n = 2 /\ reply[2] = v
              \/ n = 3 /\ reply[2] = v /\ reply[3] \in Fences
      <3> TAKE v \in DOMAIN Verdicts
      <3>1. v \in OwnVerdicts(reply) <=>
              \/ \E f \in Fences : reply = <<f, v>>
              \/ \E f, g \in Fences : reply = <<f, v, g>>
        BY <2>1, <2>3 DEF OwnVerdicts
      <3>2. (\E f \in Fences : reply = <<f, v>>) <=> n = 2 /\ reply[2] = v
        BY <2>1, <2>6
      <3>3. (\E f, g \in Fences : reply = <<f, v, g>>) <=>
              n = 3 /\ reply[2] = v /\ reply[3] \in Fences
        BY <2>1, <2>7
      <3> QED
        BY <3>1, <3>2, <3>3
    <2>9. OwnVerdicts(reply) \subseteq DOMAIN Verdicts
      BY DEF OwnVerdicts
    <2> HIDE DEF n
    <2>10. CASE n > 1 /\ reply[n] \in Fences
      <3>1. reply[2] \in DOMAIN Verdicts => n # 2
        BY <1>1, <2>10
      <3>2. IsVerdict(inner) <=> n = 3 /\ reply[2] \in DOMAIN Verdicts
        <4>1. Len(inner) = 1 <=> n = 3
          <5>1. Len(inner) = n - 2
            BY <2>5, <2>10
          <5>2. n \in Nat
            BY <2>1
          <5> QED
            BY <5>1, <5>2
        <4>2. n = 3 => inner[1] = reply[2]
          BY <2>5
        <4> QED
          BY <4>1, <4>2 DEF IsVerdict
      <3>3. n = 3 => inner[1] = reply[2] /\ reply[3] \in Fences
        BY <2>5, <2>10
      <3> QED
        BY <2>4, <2>8, <2>9, <2>10, <3>1, <3>2, <3>3
    <2>11. CASE ~(n > 1 /\ reply[n] \in Fences)
      <3>1. IsVerdict(rest) <=> n = 2 /\ reply[2] \in DOMAIN Verdicts
        <4>1. Len(rest) = 1 <=> n = 2
          BY <2>1, <2>2
        <4>2. n = 2 => rest[1] = reply[2]
          BY <2>2
        <4> QED
          BY <4>1, <4>2 DEF IsVerdict
      <3>2. n = 2 => rest[1] = reply[2]
        BY <2>2
      <3>3. ~(n = 3 /\ reply[3] \in Fences)
        BY <2>11
      <3> QED
        BY <2>4, <2>8, <2>9, <2>11, <3>1, <3>2, <3>3
    <2> QED
      BY <2>10, <2>11
  <1> QED
    BY <1>3, <1>4

\* A row of an evaluation: its score is the judge's or the fallback.
LEMMA RowsOfEvaluation ==
  ASSUME NEW response \in Responses, NEW schema \in Schemas, NEW reply \in Text,
         NEW rows \in evaluate_and_record_response(response, schema, reply)
  PROVE  \A row \in rows :
            /\ row.schema_valid \in {"valid", "invalid"}
            /\ IF OwnVerdicts(reply) = {}
               THEN row.judge = [score |-> DefaultScore, rationale |-> "fallback"]
               ELSE /\ row.judge.rationale = "judge"
                    /\ \E v \in OwnVerdicts(reply) :
                         row.judge.score = Verdicts[v] \/ Verdicts[v] = Absent
  <1> DEFINE valid == validate_schema(response, schema)
             row == [schema_valid |-> valid, judge |-> JudgeResult(reply)]
  <1>1. valid \in {"valid", "invalid", "raises"}
    BY DEF validate_schema, Responses, Schemas
  <1>2. rows = {} \/ (valid # "raises" /\ rows = {row})
    BY DEF evaluate_and_record_response, record_eval_result
  <1>3. IF OwnVerdicts(reply) = {}
        THEN JudgeResult(reply) = [score |-> DefaultScore, rationale |-> "fallback"]
        ELSE /\ JudgeResult(reply).rationale = "judge"
             /\ \E v \in OwnVerdicts(reply) :
                  JudgeResult(reply).score = Verdicts[v] \/ Verdicts[v] = Absent
    <2>1. CASE IsVerdict(Unfenced(reply))
      <3>1. Unfenced(reply)[1] \in OwnVerdicts(reply)
        BY <2>1, OwnVerdictUnfenced
      <3> QED
        BY <2>1, <3>1 DEF JudgeResult
    <2>2. CASE ~IsVerdict(Unfenced(reply))
      <3>1. OwnVerdicts(reply) = {}
        BY <2>2, OwnVerdictUnfenced
      <3> QED
        BY <2>2, <3>1 DEF JudgeResult
    <2> QED
      BY <2>1, <2>2
  <1> HIDE DEF valid
  <1>4. row.schema_valid = valid /\ row.judge = JudgeResult(reply)
    OBVIOUS
  <1> HIDE DEF row
  <1> QED
    BY <1>1, <1>2, <1>3, <1>4
------------------------------------------------------------------------------
(***************************************************************************)
(* The check digit                                                         *)
(***************************************************************************)
\* What a digit adds at a place that is doubled, and at place i.
Doubled(digit) == ((2 * digit) \div 10) + ((2 * digit) % 10)
Counted(digits, i) == IF (Len(digits) - i) % 2 = 0 THEN digits[i] ELSE Doubled(digits[i])
CheckSum(digits) == SumFunctionOnSet([i \in DOMAIN digits |-> Counted(digits, i)], DOMAIN digits)

\* Doubling and reducing permutes the ten digits.
LEMMA DoubledDigits ==
  ASSUME NEW a \in 0 .. 9, NEW b \in 0 .. 9
  PROVE  Doubled(a) \in 0 .. 9 /\ (Doubled(a) = Doubled(b) => a = b)
  <1>1. \A x \in 0 .. 9 : Doubled(x) = IF x < 5 THEN 2 * x ELSE 2 * x - 9
    BY DEF Doubled
  <1> QED
    BY <1>1

\* Two multiples of ten are equal or at least ten apart.
LEMMA MultiplesOfTen ==
  ASSUME NEW s \in Int, NEW t \in Int, s % 10 = 0, t % 10 = 0, NEW d \in -9 .. 9, t - s = d
  PROVE  d = 0
  OBVIOUS

\* The digits of a text.
LEMMA DigitsAreDigits ==
  ASSUME NEW text \in Text
  PROVE  DigitsOf(text) \in Seq(0 .. 9)
  <1> DEFINE U == Seq(0 .. 9)
             digits == [i \in DOMAIN text |-> DigitsIn(text[i])]
  <1>1. \A token : DigitsIn(token) \in U
    <2> TAKE token
    <2>1. <<>> \in U
      OBVIOUS
    <2>2. Digits \in [Runs -> U]
      BY RedactionAssumption DEF RedactionAssumption
    <2> HIDE DEF U
    <2> QED
      BY <2>1, <2>2 DEF DigitsIn
  <1>2. Len(text) \in Nat /\ DOMAIN text = 1 .. Len(text)
    BY LenProperties DEF Text
  <1>3. digits \in Seq(U)
    <2> DEFINE n == Len(text)
    <2> HIDE DEF n, U
    <2>1. digits \in [1 .. n -> U]
      BY <1>1, <1>2 DEF n
    <2> HIDE DEF digits
    <2> QED
      BY <1>2, <2>1 DEF n
  <1>4. FlattenSeq(digits) \in Seq(0 .. 9)
    <2> HIDE DEF digits
    <2> QED
      BY <1>3, FlattenType
  <1> QED
    BY <1>4 DEF DigitsOf

\* The check digit changes with every digit.
LEMMA LuhnNoticesSlip ==
  ASSUME NEW digits \in Seq(0 .. 9), PassesLuhn(digits), NEW i \in DOMAIN digits,
         NEW d \in 0 .. 9 \ {digits[i]}
  PROVE  ~PassesLuhn([digits EXCEPT ![i] = d])
  <1> DEFINE slip == [digits EXCEPT ![i] = d]
             places == DOMAIN digits
             f == [k \in places |-> Counted(digits, k)]
             g == [k \in places |-> Counted(slip, k)]
  <1>1. \A s : PassesLuhn(s) => CheckSum(s) % 10 = 0
    BY DEF PassesLuhn, CheckSum, Counted, Doubled, SumFunction
  <1>2. Len(digits) \in Nat /\ places = 1 .. Len(digits) /\ \A k \in places : digits[k] \in 0 .. 9
    BY LenProperties, ElementOfSeq
  <1>3. /\ slip \in Seq(0 .. 9) /\ DOMAIN slip = places /\ Len(slip) = Len(digits)
        /\ slip[i] = d /\ \A k \in places \ {i} : slip[k] = digits[k]
    OBVIOUS
  <1>4. CheckSum(digits) = SumFunctionOnSet(f, places) /\ CheckSum(slip) = SumFunctionOnSet(g, places)
    BY <1>3 DEF CheckSum
  <1> HIDE DEF slip
  <1>5. /\ \A k \in places : f[k] \in 0 .. 9 /\ g[k] \in 0 .. 9
        /\ f[i] # g[i]
        /\ \A k \in places \ {i} : f[k] = g[k]
    <2>1. \A k \in places : slip[k] \in 0 .. 9
      BY <1>2, <1>3
    <2>2. \A k \in places : digits[k] \in 0 .. 9
      BY <1>2
    <2>3. \A a, b \in 0 .. 9 : Doubled(a) \in 0 .. 9 /\ (Doubled(a) = Doubled(b) => a = b)
      BY DoubledDigits
    <2> DEFINE even(k) == (Len(digits) - k) % 2 = 0
    <2>4. \A k \in places : /\ f[k] = IF even(k) THEN digits[k] ELSE Doubled(digits[k])
                            /\ g[k] = IF even(k) THEN slip[k] ELSE Doubled(slip[k])
      BY <1>3 DEF Counted
    <2>5. d # digits[i] /\ slip[i] = d /\ d \in 0 .. 9 /\ i \in places
          /\ \A k \in places \ {i} : slip[k] = digits[k]
      BY <1>3
    <2> HIDE DEF even, f, g, places
    <2>6. \A k \in places : f[k] \in 0 .. 9 /\ g[k] \in 0 .. 9
      BY <2>1, <2>2, <2>3, <2>4
    <2>7. f[i] # g[i]
      BY <2>1, <2>2, <2>3, <2>4, <2>5
    <2>8. \A k \in places \ {i} : f[k] = g[k]
      BY <2>4, <2>5
    <2> QED
      BY <2>6, <2>7, <2>8
  <1>6. IsFiniteSet(places)
    BY <1>2, FS_Interval
  <1> HIDE DEF places, f, g
  <1>7. i \in places
    BY DEF places
  <1>8. \A k \in places : f[k] \in Int /\ g[k] \in Int
    BY <1>5
  <1> DEFINE s == SumFunctionOnSet(f, places)
             t == SumFunctionOnSet(g, places)
  <1>9. t - s = g[i] - f[i]
    BY <1>5, <1>6, <1>7, <1>8, SumWithOneChange
  <1>10. s \in Int /\ t \in Int
    BY <1>6, <1>8, SumType
  <1>11. g[i] - f[i] \in -9 .. 9 /\ g[i] - f[i] # 0
    <2>1. \A a, b \in 0 .. 9 : a # b => b - a \in -9 .. 9 /\ b - a # 0
      OBVIOUS
    <2>2. f[i] \in 0 .. 9 /\ g[i] \in 0 .. 9 /\ f[i] # g[i]
      BY <1>5, <1>7
    <2> QED
      BY <2>1, <2>2
  <1>12. s % 10 = 0
    BY <1>1, <1>4
  <1> HIDE DEF s, t
  <1>13. ~(t % 10 = 0)
    BY <1>9, <1>10, <1>11, <1>12, MultiplesOfTen
  <1> QED
    BY <1>1, <1>4, <1>13 DEF t, slip
------------------------------------------------------------------------------
(***************************************************************************)
(* The cache key                                                           *)
(***************************************************************************)
\* The tokens of a key (to the provers the separators are no strings).
Token == STRING \cup {":", "|"}
KeyText == Seq(Token)

\* The key is cut by the mark into a text without it and some other text.
CutAt(mark, key, a, b) ==
    a \in KeyText /\ b \in KeyText /\ ~Contains(a, mark) /\ key = (a \o <<mark>>) \o b

\* It can be cut at its first mark only.
LEMMA CutAtFirstMark ==
  ASSUME NEW mark \in Token, NEW key, NEW a, NEW b, NEW c, NEW d,
         CutAt(mark, key, a, b), CutAt(mark, key, c, d)
  PROVE  a = c /\ b = d
  <1> DEFINE U == Token
             one == <<mark>>
             s == a \o one
             t == c \o one
  <1>0. /\ a \in Seq(U) /\ b \in Seq(U) /\ c \in Seq(U) /\ d \in Seq(U)
        /\ ~Contains(a, mark) /\ ~Contains(c, mark) /\ s \o b = t \o d
    BY DEF CutAt, KeyText
  <1>1. one \in Seq(U) /\ Len(one) = 1 /\ one[1] = mark
    BY SingleToken
  <1> HIDE DEF one, U
  <1>2. s \in Seq(U) /\ t \in Seq(U)
    BY <1>0, <1>1, ConcatProperties
  <1>3. /\ Len(a) \in Nat /\ Len(s) = Len(a) + 1 /\ s[Len(a) + 1] = mark
        /\ \A i \in 1 .. Len(a) : s[i] = a[i] /\ a[i] # mark
    <2>1. Joins(s, a, one)
      BY <1>0, <1>1, ConcatPlaces
    <2>2. ~Contains(a, mark)
      BY <1>0
    <2>3. Len(a) \in Nat /\ \A i \in 1 .. Len(a) : a[i] # mark
      BY <2>1, <2>2 DEF Contains, Joins
    <2> HIDE DEF s
    <2> QED
      BY <1>1, <2>1, <2>3 DEF Joins
  <1>4. /\ Len(c) \in Nat /\ Len(t) = Len(c) + 1 /\ t[Len(c) + 1] = mark
        /\ \A i \in 1 .. Len(c) : t[i] = c[i] /\ c[i] # mark
    <2>1. Joins(t, c, one)
      BY <1>0, <1>1, ConcatPlaces
    <2>2. ~Contains(c, mark)
      BY <1>0
    <2>3. Len(c) \in Nat /\ \A i \in 1 .. Len(c) : c[i] # mark
      BY <2>1, <2>2 DEF Contains, Joins
    <2> HIDE DEF t
    <2> QED
      BY <1>1, <2>1, <2>3 DEF Joins
  <1>5. /\ \A i \in 1 .. Len(s) : (s \o b)[i] = s[i]
        /\ \A i \in 1 .. Len(t) : (t \o d)[i] = t[i]
        /\ s \o b = t \o d
    <2>1. Joins(s \o b, s, b) /\ Joins(t \o d, t, d)
      BY <1>0, <1>2, ConcatPlaces
    <2> QED
      BY <1>0, <2>1 DEF Joins
  <1> HIDE DEF s, t
  <1>6. ~(Len(a) < Len(c))
    <2> SUFFICES ASSUME Len(a) < Len(c) PROVE FALSE
      OBVIOUS
    <2>1. Len(a) + 1 \in 1 .. Len(s) /\ Len(a) + 1 \in 1 .. Len(t) /\ Len(a) + 1 \in 1 .. Len(c)
      BY <1>3, <1>4
    <2>2. s[Len(a) + 1] = t[Len(a) + 1]
      BY <1>5, <2>1
    <2> QED
      BY <1>3, <1>4, <2>1, <2>2
  <1>7. ~(Len(c) < Len(a))
    <2> SUFFICES ASSUME Len(c) < Len(a) PROVE FALSE
      OBVIOUS
    <2>1. Len(c) + 1 \in 1 .. Len(s) /\ Len(c) + 1 \in 1 .. Len(t) /\ Len(c) + 1 \in 1 .. Len(a)
      BY <1>3, <1>4
    <2>2. s[Len(c) + 1] = t[Len(c) + 1]
      BY <1>5, <2>1
    <2> QED
      BY <1>3, <1>4, <2>1, <2>2
  <1>8. Len(s) = Len(t)
    BY <1>3, <1>4, <1>6, <1>7
  <1>9. s = t /\ b = d
    BY <1>0, <1>2, <1>5, <1>8, EqualParts
  <1>10. Len(a) = Len(c)
    BY <1>3, <1>4, <1>8
  <1> QED
    BY <1>0, <1>1, <1>9, <1>10, EqualParts DEF s, t

\* What a message becomes in the key: some text and a "|", the only one.
Ended == {p \in KeyText : /\ p # <<>> /\ p[Len(p)] = "|"
                       /\ \A i \in 1 .. Len(p) - 1 : p[i] # "|"}

\* What some pieces make together: nothing, or a text that ends in "|".
Barred == {a \in KeyText : a # <<>> => a[Len(a)] = "|"}

\* The key can be divided into some pieces and a last one.
Divided(key, rest, piece) == rest \in Barred /\ piece \in Ended /\ key = rest \o piece

\* It can be in one way only.
LEMMA CutAtLastMark ==
  ASSUME NEW key, NEW a, NEW p, NEW c, NEW q, Divided(key, a, p), Divided(key, c, q)
  PROVE  a = c /\ p = q
  <1>0. /\ a \in KeyText /\ c \in KeyText /\ p \in KeyText /\ q \in KeyText /\ a \o p = c \o q
        /\ a # <<>> => a[Len(a)] = "|"
        /\ c # <<>> => c[Len(c)] = "|"
    BY DEF Divided, Barred, Ended
  <1>1. Joins(a \o p, a, p)
    BY <1>0, ConcatPlaces DEF KeyText
  <1>2. Joins(a \o p, c, q)
    BY <1>0, ConcatPlaces DEF KeyText
  <1>3. /\ Len(a) # 0 => a[Len(a)] = "|"
        /\ Len(c) # 0 => c[Len(c)] = "|"
    BY <1>0
  <1>4. /\ Len(p) # 0 /\ \A i \in 1 .. Len(p) - 1 : p[i] # "|"
        /\ Len(q) # 0 /\ \A i \in 1 .. Len(q) - 1 : q[i] # "|"
    BY EmptySeq DEF Divided, Ended, KeyText
  <1>5. Len(a) = Len(c)
    <2> DEFINE m == Len(a)
               n == Len(c)
               w == a \o p
    <2>1. m + Len(p) = n + Len(q)
      BY <1>1, <1>2 DEF Joins
    <2>2. m \in Nat /\ n \in Nat /\ Len(p) \in Nat /\ Len(q) \in Nat
      BY <1>1, <1>2 DEF Joins
    <2>3. /\ \A i \in 1 .. m : w[i] = a[i]
          /\ \A i \in 1 .. Len(p) : w[m + i] = p[i]
          /\ \A i \in 1 .. n : w[i] = c[i]
          /\ \A i \in 1 .. Len(q) : w[n + i] = q[i]
      BY <1>1, <1>2 DEF Joins
    <2>4. (m # 0 => a[m] = "|") /\ (n # 0 => c[n] = "|")
      BY <1>3
    <2> HIDE DEF m, n, w
    <2>5. ~(m < n)
      <3> SUFFICES ASSUME m < n PROVE FALSE
        OBVIOUS
      <3>1. n # 0 /\ n \in 1 .. n /\ n - m \in 1 .. Len(p) - 1 /\ n - m \in 1 .. Len(p) /\ m + (n - m) = n
        BY <1>4, <2>1, <2>2
      <3>2. w[n] = "|" /\ w[n] = p[n - m]
        BY <2>3, <2>4, <3>1
      <3> QED
        BY <1>4, <3>1, <3>2
    <2>6. ~(n < m)
      <3> SUFFICES ASSUME n < m PROVE FALSE
        OBVIOUS
      <3>1. m # 0 /\ m \in 1 .. m /\ m - n \in 1 .. Len(q) - 1 /\ m - n \in 1 .. Len(q) /\ n + (m - n) = m
        BY <1>4, <2>1, <2>2
      <3>2. w[m] = "|" /\ w[m] = q[m - n]
        BY <2>3, <2>4, <3>1
      <3> QED
        BY <1>4, <3>1, <3>2
    <2>7. m = n
      BY <2>2, <2>5, <2>6
    <2> QED
      BY <2>7 DEF m, n
  <1> QED
    BY <1>0, <1>5, EqualParts DEF KeyText

\* The key of some messages is a text that ends in "|", and is empty for no
\* messages only; without its last piece it is the key of the others.
LEMMA FlattenPieces ==
  ASSUME NEW x \in Seq(Ended)
  PROVE  LET key == FlattenSeq(x)
         IN  /\ key \in Barred
             /\ key = <<>> <=> x = <<>>
             /\ x # <<>> => /\ Front(x) \in Seq(Ended) /\ Len(Front(x)) = Len(x) - 1
                            /\ Last(x) \in Ended /\ Last(x) = x[Len(x)]
                            /\ \A i \in 1 .. Len(x) - 1 : Front(x)[i] = x[i]
                            /\ key = FlattenSeq(Front(x)) \o Last(x)
  <1> DEFINE key == FlattenSeq(x)
  <1>1. Ended \subseteq KeyText
    BY DEF Ended
  <1>2. \A y : y \in Seq(Ended) => y \in Seq(KeyText)
    <2> HIDE DEF Ended, KeyText
    <2> TAKE y
    <2> HAVE y \in Seq(Ended)
    <2>1. Len(y) \in Nat /\ y \in [1 .. Len(y) -> Ended]
      BY LenProperties
    <2>2. y \in [1 .. Len(y) -> KeyText]
      BY <1>1, <2>1
    <2> QED
      BY <2>1, <2>2
  <1>3. \A y \in Seq(Ended) : FlattenSeq(y) \in KeyText
    BY <1>2, FlattenType DEF KeyText
  <1>4. CASE x = <<>>
    <2>1. key = <<>>
      BY <1>4 DEF FlattenSeq
    <2> QED
      BY <1>3, <1>4, <2>1 DEF Barred
  <1>5. CASE x # <<>>
    <2>1. /\ Front(x) \in Seq(Ended) /\ Len(Front(x)) = Len(x) - 1
          /\ Last(x) \in Ended /\ Last(x) = x[Len(x)]
          /\ \A i \in 1 .. Len(x) - 1 : Front(x)[i] = x[i]
      <3> HIDE DEF Ended
      <3> QED
        BY <1>5, FrontLast
    <2>2. key = FlattenSeq(Front(x)) \o Last(x)
      BY <1>2, <1>5, FlattenUnfolds DEF KeyText
    <2> DEFINE p == Last(x)
               rest == FlattenSeq(Front(x))
    <2>3. p \in KeyText /\ rest \in KeyText /\ p # <<>> /\ p[Len(p)] = "|"
      BY <1>3, <2>1 DEF Ended
    <2> HIDE DEF p, rest
    <2>4. Joins(rest \o p, rest, p)
      BY <2>3, ConcatPlaces DEF KeyText
    <2>5. Len(p) # 0
      BY <2>3, EmptySeq DEF KeyText
    <2>6. Len(rest \o p) # 0 /\ (rest \o p)[Len(rest \o p)] = p[Len(p)]
      BY <2>4, <2>5 DEF Joins
    <2>7. key # <<>> /\ key[Len(key)] = "|"
      BY <2>2, <2>3, <2>6 DEF p, rest
    <2> QED
      BY <1>3, <1>5, <2>1, <2>2, <2>7 DEF Barred
  <1> QED
    BY <1>4, <1>5

\* The pieces can be read off the key.
LEMMA KeyDeterminesPieces ==
  ASSUME NEW x \in Seq(Ended), NEW y \in Seq(Ended), FlattenSeq(x) = FlattenSeq(y)
  PROVE  x = y
  <1> DEFINE N == {n \in Nat : \A s, t \in Seq(Ended) :
                     Len(s) = n /\ FlattenSeq(s) = FlattenSeq(t) => s = t}
  <1>1. 0 \in N
    <2> SUFFICES ASSUME NEW s \in Seq(Ended), NEW t \in Seq(Ended), Len(s) = 0,
                        FlattenSeq(s) = FlattenSeq(t)
                 PROVE  s = t
      OBVIOUS
    <2>1. s = <<>>
      BY EmptySeq
    <2> QED
      BY <2>1, FlattenPieces
  <1>2. ASSUME NEW n \in Nat, n \in N PROVE n + 1 \in N
    <2> SUFFICES ASSUME NEW s \in Seq(Ended), NEW t \in Seq(Ended), Len(s) = n + 1,
                        FlattenSeq(s) = FlattenSeq(t)
                 PROVE  s = t
      OBVIOUS
    <2>1. s # <<>>
      BY EmptySeq
    <2>2. t # <<>>
      BY <2>1, FlattenPieces
    <2>3. /\ Front(s) \in Seq(Ended) /\ Len(Front(s)) = Len(s) - 1
          /\ Last(s) \in Ended /\ Last(s) = s[Len(s)]
          /\ \A i \in 1 .. Len(s) - 1 : Front(s)[i] = s[i]
          /\ FlattenSeq(s) = FlattenSeq(Front(s)) \o Last(s)
      BY <2>1, FlattenPieces
    <2>4. /\ Front(t) \in Seq(Ended) /\ Len(Front(t)) = Len(t) - 1
          /\ Last(t) \in Ended /\ Last(t) = t[Len(t)]
          /\ \A i \in 1 .. Len(t) - 1 : Front(t)[i] = t[i]
          /\ FlattenSeq(t) = FlattenSeq(Front(t)) \o Last(t)
      BY <2>2, FlattenPieces
    <2> DEFINE a == FlattenSeq(Front(s))
               c == FlattenSeq(Front(t))
    <2>5. a \in Barred /\ c \in Barred
      BY <2>3, <2>4, FlattenPieces
    <2>6. a = c /\ Last(s) = Last(t)
      <3>1. Divided(FlattenSeq(s), a, Last(s)) /\ Divided(FlattenSeq(s), c, Last(t))
        BY <2>3, <2>4, <2>5 DEF Divided
      <3> QED
        BY <3>1, CutAtLastMark
    <2>7. Front(s) = Front(t)
      <3>1. Len(Front(s)) = n
        BY <2>3
      <3> QED
        BY <1>2, <2>3, <2>4, <2>6, <3>1
    <2>8. Len(s) \in Nat /\ Len(t) \in Nat
      OBVIOUS
    <2>9. Len(s) = Len(t)
      <3>1. Len(s) - 1 = Len(t) - 1
        BY <2>3, <2>4, <2>7
      <3> QED
        BY <2>8, <3>1
    <2>10. \A i \in 1 .. Len(s) : s[i] = t[i]
      <3> TAKE i \in 1 .. Len(s)
      <3>1. i = Len(s) \/ i \in 1 .. Len(s) - 1
        BY <2>8
      <3> QED
        BY <2>3, <2>4, <2>6, <2>7, <2>9, <3>1
    <2> HIDE DEF Ended
    <2> QED
      BY <2>9, <2>10, SeqEqual
  <1> HIDE DEF N
  <1>3. Nat \subseteq N
    BY <1>1, <1>2, NatSetInduction
  <1>4. Len(x) \in Nat
    OBVIOUS
  <1> QED
    BY <1>3, <1>4 DEF N

\* Texts without some of the separators.
Without(marks) == Seq(Token \ marks)

\* They are the texts that contain none of them.
LEMMA WithoutMarks ==
  ASSUME NEW text \in KeyText, NEW marks
  PROVE  text \in Without(marks) <=> \A mark \in marks : ~Contains(text, mark)
  <1> DEFINE U == Token \ marks
  <1>1. Len(text) \in Nat /\ text \in [1 .. Len(text) -> Token]
    BY LenProperties DEF KeyText
  <1>2. ASSUME \A mark \in marks : ~Contains(text, mark) PROVE text \in Seq(U)
    <2>1. text \in [1 .. Len(text) -> U]
      BY <1>1, <1>2 DEF Contains
    <2> HIDE DEF U
    <2> QED
      BY <1>1, <2>1
  <1>3. ASSUME text \in Seq(U), NEW mark \in marks PROVE ~Contains(text, mark)
    <2>1. mark \notin U
      OBVIOUS
    <2> HIDE DEF U
    <2>2. \A i \in 1 .. Len(text) : text[i] \in U
      BY <1>3, ElementOfSeq
    <2> QED
      BY <2>1, <2>2 DEF Contains
  <1> QED
    BY <1>2, <1>3 DEF Without

\* Normalization brings no separator in.
LEMMA NormalizedWithout ==
  ASSUME NEW marks \in SUBSET {":", "|"}, NEW text \in Without(marks)
  PROVE  Normalized(text) \in Without(marks)
  <1> DEFINE U == Token \ marks
  <1>0. text \in Seq(U)
    BY DEF Without
  <1> HIDE DEF U
  <1>1. Len(text) \in Nat /\ \A i \in 1 .. Len(text) : text[i] \in U
    BY <1>0, LenProperties, ElementOfSeq
  <1>2. Strip(text) \in Seq(U)
    <2> DEFINE solid == {i \in 1 .. Len(text) : text[i] # " "}
               first == Min(solid)
               last == Max(solid)
    <2>1. Strip(text) = IF solid = {} THEN <<>>
                        ELSE IF first = 0 THEN <<>> ELSE SubSeq(text, first, last)
      BY DEF Strip, SelectInSeq, SelectLastInSeq
    <2>2. CASE solid = {}
      <3>1. <<>> \in Seq(U)
        OBVIOUS
      <3> HIDE DEF solid
      <3> QED
        BY <2>1, <2>2, <3>1
    <2>3. CASE solid # {}
      <3>1. solid \in SUBSET Nat /\ solid \subseteq 1 .. Len(text) /\ \A i \in solid : i <= Len(text)
        <4>1. solid \subseteq 1 .. Len(text)
          OBVIOUS
        <4>2. Len(text) \in Nat
          BY <1>1
        <4> HIDE DEF solid
        <4> QED
          BY <4>1, <4>2
      <3>2. first \in solid /\ last \in solid
        <4> HIDE DEF solid
        <4> QED
          BY <1>1, <2>3, <3>1, MinOfNaturals, MaxOfNaturals
      <3> HIDE DEF first, last
      <3>3. first \in 1 .. Len(text) /\ last \in 1 .. Len(text)
        BY <3>2
      <3> HIDE DEF solid
      <3>4. /\ first # 0 /\ first \in Int /\ last \in Int
            /\ \A i \in first .. last : i \in 1 .. Len(text)
        BY <1>1, <3>3
      <3>5. \A i \in first .. last : text[i] \in U
        BY <1>1, <3>4
      <3>6. SubSeq(text, first, last) \in Seq(U)
        BY <3>4, <3>5, SubSeqProperties
      <3> QED
        BY <2>1, <2>3, <3>4, <3>6
    <2> QED
      BY <2>2, <2>3
  <1>3. \A token \in U : (IF token \in DOMAIN Lower THEN Lower[token] ELSE token) \in U
    BY CacheKeyAssumption DEF CacheKeyAssumption, Token, U
  <1>4. \A s \in Seq(U) : LowerCase(s) \in Seq(U)
    <2> TAKE s \in Seq(U)
    <2>1. Len(s) \in Nat /\ DOMAIN s = 1 .. Len(s) /\ \A i \in 1 .. Len(s) : s[i] \in U
      BY LenProperties, ElementOfSeq
    <2>2. LowerCase(s) \in [1 .. Len(s) -> U]
      BY <1>3, <2>1 DEF LowerCase
    <2> QED
      BY <2>1, <2>2
  <1> QED
    BY <1>2, <1>4 DEF Normalized, Without, U

\* The fewer separators to avoid, the more texts.
LEMMA WithoutFewer ==
  ASSUME NEW marks, NEW fewer \in SUBSET marks, NEW text \in Without(marks)
  PROVE  text \in Without(fewer) /\ text \in KeyText
  <1> DEFINE U == Token \ marks
             V == Token \ fewer
  <1>1. U \subseteq V /\ U \subseteq Token
    OBVIOUS
  <1>2. text \in Seq(U)
    BY DEF Without
  <1> HIDE DEF U, V
  <1>3. Len(text) \in Nat /\ text \in [1 .. Len(text) -> U]
    BY <1>2, LenProperties
  <1>4. text \in [1 .. Len(text) -> V] /\ text \in [1 .. Len(text) -> Token]
    BY <1>1, <1>3
  <1>5. text \in Seq(V) /\ text \in Seq(Token)
    BY <1>3, <1>4
  <1> QED
    BY <1>5 DEF Without, KeyText, V

\* A text may be part of a key.
LEMMA TextsAreKeyTexts ==
  ASSUME NEW text \in Text
  PROVE  text \in KeyText
  <1>1. Len(text) \in Nat /\ text \in [1 .. Len(text) -> STRING]
    BY LenProperties DEF Text
  <1>2. text \in [1 .. Len(text) -> Token]
    BY <1>1 DEF Token
  <1> QED
    BY <1>1, <1>2 DEF KeyText

\* The piece of a message with a role and a content that are normalized.
Piece(role, content) == ((role \o <<":">>) \o content) \o <<"|">>

\* It has one "|", at its end.
LEMMA PieceEnded ==
  ASSUME NEW role \in Without({":", "|"}), NEW content \in Without({"|"})
  PROVE  Piece(role, content) \in Ended
  <1> DEFINE V == Token \ {"|"}
             head == role \o <<":">>
             body == head \o content
             bar == <<"|">>
  <1>1. role \in Seq(V) /\ content \in Seq(V)
    BY WithoutFewer DEF Without
  <1>2. <<":">> \in Seq(V) /\ bar \in KeyText /\ Len(bar) = 1 /\ bar[1] = "|"
    <2>1. ":" \in V /\ "|" \in Token
      BY DEF Token
    <2> HIDE DEF V
    <2> QED
      BY <2>1, SingleToken DEF KeyText
  <1>3. "|" \notin V
    OBVIOUS
  <1>4. body \in Seq(V)
    <2> HIDE DEF V
    <2> QED
      BY <1>1, <1>2, ConcatProperties
  <1>5. body \in KeyText
    <2> HIDE DEF body
    <2> QED
      BY <1>4, WithoutFewer DEF Without
  <1> HIDE DEF V, body, bar
  <1>6. \A i \in 1 .. Len(body) : body[i] # "|"
    BY <1>3, <1>4, ElementOfSeq
  <1>7. body \o bar \in KeyText /\ Joins(body \o bar, body, bar)
    BY <1>2, <1>5, ConcatProperties, ConcatPlaces DEF KeyText
  <1> DEFINE p == body \o bar
  <1> HIDE DEF p
  <1>8. /\ p \in KeyText /\ Len(body) \in Nat /\ Len(p) = Len(body) + 1
        /\ \A i \in 1 .. Len(body) : p[i] = body[i]
        /\ p[Len(body) + 1] = "|"
    BY <1>2, <1>7 DEF Joins, p
  <1>9. p # <<>> /\ p[Len(p)] = "|" /\ \A i \in 1 .. Len(p) - 1 : p[i] # "|"
    <2>1. Len(p) # 0 /\ Len(p) - 1 = Len(body)
      BY <1>8
    <2> QED
      BY <1>6, <1>8, <2>1, EmptySeq DEF KeyText
  <1> QED
    BY <1>8, <1>9 DEF Ended, Piece, p, body, bar

\* Role and content can be read off it.
LEMMA PieceDeterminesParts ==
  ASSUME NEW r \in Without({":", "|"}), NEW c \in Without({"|"}),
         NEW s \in Without({":", "|"}), NEW d \in Without({"|"}), Piece(r, c) = Piece(s, d)
  PROVE  r = s /\ c = d
  <1> DEFINE bar == <<"|">>
             colon == <<":">>
             x == (r \o colon) \o c
             y == (s \o colon) \o d
  <1>1. r \in KeyText /\ c \in KeyText /\ s \in KeyText /\ d \in KeyText
    BY WithoutFewer
  <1>2. ~Contains(r, ":") /\ ~Contains(s, ":")
    BY <1>1, WithoutMarks
  <1>3. bar \in KeyText /\ colon \in KeyText /\ Len(bar) = 1
    <2>1. ":" \in Token /\ "|" \in Token
      BY DEF Token
    <2> QED
      BY <2>1, SingleToken DEF KeyText
  <1>4. x \in KeyText /\ y \in KeyText
    <2> HIDE DEF colon
    <2> QED
      BY <1>1, <1>3, ConcatProperties DEF KeyText
  <1>5. x = y
    <2> HIDE DEF x, y, bar
    <2>1. Joins(x \o bar, x, bar) /\ Joins(y \o bar, y, bar)
      BY <1>3, <1>4, ConcatPlaces DEF KeyText
    <2>2. x \o bar = y \o bar
      BY DEF Piece, x, y, bar
    <2>3. Len(x) = Len(y)
      <3>1. Len(x) \in Nat /\ Len(y) \in Nat /\ Len(x) + 1 = Len(y) + 1
        BY <1>3, <2>1, <2>2 DEF Joins
      <3> QED
        BY <3>1
    <2> QED
      BY <1>3, <1>4, <2>2, <2>3, EqualParts DEF KeyText
  <1>6. CutAt(":", x, r, c) /\ CutAt(":", x, s, d)
    BY <1>1, <1>2, <1>5 DEF CutAt
  <1>7. ":" \in Token
    BY DEF Token
  <1> HIDE DEF x
  <1> QED
    BY <1>6, <1>7, CutAtFirstMark

\* What a message is to the key.
Parts(message) == <<Normalized(message.role), Normalized(message.content)>>

\* Two conversations with one key are equal up to normalization, whatever their
\* number of messages and the length of their texts, if the separators are kept
\* out of them.
LEMMA SharedKeySharedParts ==
  ASSUME NEW c \in Seq([role : Text, content : Text]),
         NEW d \in Seq([role : Text, content : Text]),
         \A m \in ToSet(c) : Separable(m), \A m \in ToSet(d) : Separable(m),
         hash_embedding_stub(c) = hash_embedding_stub(d)
  PROVE  [i \in DOMAIN c |-> Parts(c[i])] = [i \in DOMAIN d |-> Parts(d[i])]
  <1> DEFINE Msg == [role : Text, content : Text]
             pieces(s) == [i \in DOMAIN s |-> Rendered(s[i])]
  <1>1. ASSUME NEW m \in Msg, Separable(m)
        PROVE  /\ Normalized(m.role) \in Without({":", "|"})
               /\ Normalized(m.content) \in Without({"|"})
               /\ Rendered(m) = Piece(Normalized(m.role), Normalized(m.content))
               /\ Rendered(m) \in Ended
    <2>1. m.role \in KeyText /\ m.content \in KeyText
      <3>1. m.role \in Text /\ m.content \in Text
        OBVIOUS
      <3> QED
        BY <3>1, TextsAreKeyTexts
    <2>2. m.role \in Without({":", "|"}) /\ m.content \in Without({"|"})
      BY <1>1, <2>1, WithoutMarks DEF Separable
    <2>3. /\ Normalized(m.role) \in Without({":", "|"})
          /\ Normalized(m.content) \in Without({"|"})
      BY <2>2, NormalizedWithout
    <2>4. Rendered(m) = Piece(Normalized(m.role), Normalized(m.content))
      BY DEF Rendered, Piece
    <2> QED
      BY <2>3, <2>4, PieceEnded
  <1> HIDE DEF Msg
  <1>2. ASSUME NEW s \in Seq(Msg), \A m \in ToSet(s) : Separable(m)
        PROVE  /\ Len(s) \in Nat /\ DOMAIN s = 1 .. Len(s)
               /\ \A i \in DOMAIN s : s[i] \in Msg /\ Separable(s[i])
               /\ pieces(s) \in Seq(Ended)
    <2>1. Len(s) \in Nat /\ DOMAIN s = 1 .. Len(s) /\ \A i \in 1 .. Len(s) : s[i] \in Msg
      BY LenProperties, ElementOfSeq
    <2>2. \A i \in DOMAIN s : s[i] \in Msg /\ Separable(s[i])
      BY <1>2, <2>1 DEF ToSet
    <2>3. pieces(s) \in [1 .. Len(s) -> Ended]
      BY <1>1, <2>1, <2>2
    <2> HIDE DEF pieces, Ended
    <2>4. pieces(s) \in Seq(Ended)
      BY <2>1, <2>3
    <2> QED
      BY <2>1, <2>2, <2>4
  <1>3. c \in Seq(Msg) /\ d \in Seq(Msg)
    BY DEF Msg
  <1>4. pieces(c) = pieces(d)
    <2>1. pieces(c) \in Seq(Ended) /\ pieces(d) \in Seq(Ended)
      BY <1>2, <1>3
    <2>2. FlattenSeq(pieces(c)) = FlattenSeq(pieces(d))
      BY DEF hash_embedding_stub
    <2> HIDE DEF pieces
    <2> QED
      BY <2>1, <2>2, KeyDeterminesPieces
  <1>5. DOMAIN c = DOMAIN d /\ \A i \in DOMAIN c : Rendered(c[i]) = Rendered(d[i])
    <2>1. DOMAIN pieces(c) = DOMAIN c /\ DOMAIN pieces(d) = DOMAIN d
      OBVIOUS
    <2>2. /\ \A i \in DOMAIN c : pieces(c)[i] = Rendered(c[i])
          /\ \A i \in DOMAIN d : pieces(d)[i] = Rendered(d[i])
      OBVIOUS
    <2> HIDE DEF pieces
    <2> QED
      BY <1>4, <2>1, <2>2
  <1>6. \A i \in DOMAIN c : Parts(c[i]) = Parts(d[i])
    <2> TAKE i \in DOMAIN c
    <2>1. c[i] \in Msg /\ Separable(c[i]) /\ d[i] \in Msg /\ Separable(d[i])
      BY <1>2, <1>3, <1>5
    <2> QED
      BY <1>1, <1>5, <2>1, PieceDeterminesParts DEF Parts
  <1> QED
    BY <1>5, <1>6
------------------------------------------------------------------------------
(***************************************************************************)
(* The request.  Each variable is what the current stage needs: the parts  *)
(* say what it was computed from, which is what the lemmas above are       *)
(* about.                                                                  *)
(***************************************************************************)
RequestInv ==
    /\ stage \in {"start", "selected", "keyed", "redacted", "called", "answered", "replied",
                  "evaluated"}
    /\ messages \in Conversations \cup {<<>>}
    /\ stage = "keyed" => /\ messages \in Conversations
                          /\ prompt_hash = hash_embedding_stub(messages)
    /\ IF stage = "redacted" THEN Len(sent) = Len(messages) ELSE sent = <<>>
    /\ stage = "redacted" =>
         /\ messages \in Conversations
         /\ sent = [i \in DOMAIN messages |-> [messages[i] EXCEPT !.content = redact_pii(@)]]
    /\ IF stage = "answered"
       THEN /\ answer \in Answers
            /\ toxicity = [score |-> ToxicityScore(answer), is_toxic |-> IsToxic(answer)]
       ELSE toxicity = Harmless
    /\ IF stage = "evaluated"
       THEN \E response \in Responses, schema \in Schemas, reply \in JudgeReplies :
              \E rows \in evaluate_and_record_response(response, schema, reply) :
                verdict = [reply |-> reply, rows |-> rows]
       ELSE verdict = NoVerdict

GuardrailsInv ==
    RegistryFollowsFile /\ SplitFollowsFile /\ version \in VersionNames /\ RequestInv

\* It holds at the start.
LEMMA GuardrailsInit ==
  ASSUME Init
  PROVE  GuardrailsInv
  <1>1. RegistryFollowsFile
    BY DEF Init, RegistryFollowsFile, EmptyRegistry
  <1>2. SplitFollowsFile
    BY DEF Init, SplitFollowsFile
  <1>3. version \in VersionNames
    BY DEF Init, VersionNames
  <1>4. RequestInv
    BY DEF Init, RequestInv
  <1> QED
    BY <1>1, <1>2, <1>3, <1>4 DEF GuardrailsInv

\* A file in use is a sequence of entries, each with a sequence of versions.
LEMMA FileType ==
  ASSUME RegistryFollowsFile
  PROVE  /\ file.entries \in Seq(PromptEntry)
         /\ \A i \in DOMAIN file.entries : Positive(file.entries[i].versions) \subseteq VersionNames
  <1>1. file.entries \in Seq(PromptEntry)
    BY GuardrailsAssumption DEF RegistryFollowsFile, GuardrailsAssumption, ConfigFile
  <1>2. \A i \in DOMAIN file.entries : Positive(file.entries[i].versions) \subseteq VersionNames
    BY DEF Positive, VersionNames, ToSet
  <1> QED
    BY <1>1, <1>2

\* The version that a request gets is one of the file's, or "v1".
LEMMA SelectionNamed ==
  ASSUME GuardrailsInv, SelectVersion
  PROVE  (version \in VersionNames)'
  <1>1. VersionNames' = VersionNames
    BY DEF SelectVersion, VersionNames
  <1>2. SplitFollowsFile'
    BY SelectionFollowsFile DEF GuardrailsInv
  <1>3. CASE stage' = "selected"
    <2> DEFINE entries == file.entries
               defaults == {i \in DOMAIN entries : entries[i].prompt_id = "default"}
               last == {i \in defaults : \A k \in defaults : k <= i}
               split == UNION {Positive(entries[i].versions) : i \in last}
    <2>1. version' \in split \cup {"v1"}
      BY <1>2, <1>3 DEF SplitFollowsFile, SelectVersion
    <2>2. \A i \in last : Positive(entries[i].versions) \subseteq VersionNames
      BY FileType DEF GuardrailsInv
    <2>3. "v1" \in VersionNames
      BY DEF VersionNames
    <2> QED
      BY <1>1, <2>1, <2>2, <2>3
  <1>4. CASE stage' # "selected"
    BY <1>1, <1>4 DEF SelectVersion, GuardrailsInv
  <1> QED
    BY <1>3, <1>4

\* A redacted conversation has as many messages as before.
LEMMA RedactionKeepsLength ==
  ASSUME NEW c \in Seq([role : Text, content : Text]), NEW r, r = [i \in DOMAIN c |-> r[i]]
  PROVE  Len(r) = Len(c)
  <1> DEFINE n == Len(c)
             R == {r[i] : i \in DOMAIN c}
  <1>1. n \in Nat /\ DOMAIN c = 1 .. n
    BY LenProperties
  <1>2. r \in [1 .. n -> R] /\ DOMAIN r = 1 .. n
    BY <1>1
  <1> HIDE DEF n, R
  <1>3. r \in Seq(R)
    BY <1>1, <1>2
  <1>4. Len(r) \in Nat /\ DOMAIN r = 1 .. Len(r)
    BY <1>3, LenProperties
  <1>5. Len(r) = n
    <2> DEFINE l == Len(r)
    <2>1. l \in Nat /\ 1 .. l = 1 .. n
      BY <1>2, <1>4
    <2> HIDE DEF l
    <2>2. l = n
      BY <1>1, <2>1
    <2> QED
      BY <2>2 DEF l
  <1> QED
    BY <1>5 DEF n

\* Every step keeps it.
LEMMA GuardrailsStep ==
  ASSUME GuardrailsInv, [Next]_vars
  PROVE  GuardrailsInv'
  <1> USE DEF GuardrailsInv
  <1>1. CASE SelectVersion
    <2>1. RegistryFollowsFile'
      BY <1>1, LoadFollowsFile DEF SelectVersion
    <2>2. SplitFollowsFile'
      BY <1>1, SelectionFollowsFile
    <2>3. (version \in VersionNames)'
      BY <1>1, SelectionNamed
    <2>4. RequestInv'
      BY <1>1 DEF SelectVersion, RequestInv
    <2> QED
      BY <2>1, <2>2, <2>3, <2>4
  <1>2. ASSUME UNCHANGED <<file, registry>>, version' \in {version, "none"}, stage' # "selected"
        PROVE  RegistryFollowsFile' /\ SplitFollowsFile' /\ (version \in VersionNames)'
    BY <1>2 DEF RegistryFollowsFile, SplitFollowsFile, VersionNames
  <1>3. CASE ComputeKey
    <2>1. RequestInv'
      BY <1>3 DEF ComputeKey, RequestInv
    <2> QED
      BY <1>2, <1>3, <2>1 DEF ComputeKey
  <1>4. CASE Redact
    <2>1. messages \in Seq([role : Text, content : Text])
      BY <1>4, GuardrailsAssumption DEF Redact, RequestInv, GuardrailsAssumption
    <2>2. Len(sent') = Len(messages)
      <3>1. sent' = [i \in DOMAIN messages |-> sent'[i]]
        BY <1>4 DEF Redact
      <3> QED
        BY <2>1, <3>1, RedactionKeepsLength
    <2>3. RequestInv'
      BY <1>4, <2>2 DEF Redact, RequestInv
    <2> QED
      BY <1>2, <1>4, <2>3 DEF Redact
  <1>5. CASE CallModel
    <2>1. RequestInv'
      BY <1>5 DEF CallModel, RequestInv
    <2> QED
      BY <1>2, <1>5, <2>1 DEF CallModel
  <1>6. CASE Classify
    <2>1. RequestInv'
      BY <1>6 DEF Classify, RequestInv
    <2> QED
      BY <1>2, <1>6, <2>1 DEF Classify
  <1>7. CASE Respond
    <2>1. RequestInv'
      BY <1>7 DEF Respond, RequestInv
    <2> QED
      BY <1>2, <1>7, <2>1 DEF Respond
  <1>8. CASE Evaluate
    <2>1. RequestInv'
      BY <1>8 DEF Evaluate, RequestInv
    <2> QED
      BY <1>2, <1>8, <2>1 DEF Evaluate
  <1>9. CASE NextRequest
    <2>1. RequestInv'
      BY <1>9 DEF NextRequest, RequestInv
    <2> QED
      BY <1>2, <1>9, <2>1 DEF NextRequest
  <1>10. CASE UNCHANGED vars
    <2>1. RegistryFollowsFile' /\ SplitFollowsFile' /\ (version \in VersionNames)'
      BY <1>10 DEF vars, RegistryFollowsFile, SplitFollowsFile, VersionNames
    <2>2. RequestInv'
      BY <1>10 DEF vars, RequestInv
    <2> QED
      BY <2>1, <2>2
  <1> QED
    BY <1>1, <1>3, <1>4, <1>5, <1>6, <1>7, <1>8, <1>9, <1>10 DEF Next

\* And so it always holds.
THEOREM GuardrailsInvariant == Spec => []GuardrailsInv
  <1>1. Init => GuardrailsInv
    BY GuardrailsInit
  <1>2. GuardrailsInv /\ [Next]_vars => GuardrailsInv'
    BY GuardrailsStep
  <1> QED
    BY <1>1, <1>2, PTL DEF Spec

(***************************************************************************)
(* The invariants that follow                                              *)
(***************************************************************************)
\* Every variable keeps its type, and no toxicity score exceeds 100 although the
\* weights of a sentence add up beyond that (toxicity.py:115).
THEOREM GuardrailsTypeCorrect == Spec => []TypeOK
  <1>1. GuardrailsInv => TypeOK
    <2> SUFFICES ASSUME GuardrailsInv PROVE TypeOK
      OBVIOUS
    <2>1. version \in VersionNames /\ registry.loaded \in BOOLEAN
      BY DEF GuardrailsInv, RegistryFollowsFile
    <2>2. Len(sent) \in {0, Len(messages)}
      BY DEF GuardrailsInv, RequestInv
    <2>3. \A row \in verdict.rows : row.schema_valid \in {"valid", "invalid"}
      <3>1. CASE stage = "evaluated"
        <4>1. PICK response \in Responses, schema \in Schemas, reply \in JudgeReplies :
                \E rows \in evaluate_and_record_response(response, schema, reply) :
                  verdict = [reply |-> reply, rows |-> rows]
          BY <3>1 DEF GuardrailsInv, RequestInv
        <4>2. reply \in Text
          BY GuardrailsAssumption DEF GuardrailsAssumption
        <4>3. PICK rows \in evaluate_and_record_response(response, schema, reply) :
                verdict = [reply |-> reply, rows |-> rows]
          BY <4>1
        <4> QED
          BY <4>2, <4>3, RowsOfEvaluation
      <3>2. CASE stage # "evaluated"
        BY <3>2 DEF GuardrailsInv, RequestInv, NoVerdict
      <3> QED
        BY <3>1, <3>2
    <2>4. toxicity \in [score : 0 .. 100, is_toxic : BOOLEAN]
      <3>1. CASE stage = "answered"
        <4>1. answer \in Text
          BY <3>1, GuardrailsAssumption DEF GuardrailsAssumption, GuardrailsInv, RequestInv
        <4>2. ToxicityScore(answer) \in 0 .. 100
          BY <4>1, ScoreOfWorstSentence
        <4>3. IsToxic(answer) \in BOOLEAN
          BY DEF IsToxic
        <4> QED
          BY <3>1, <4>2, <4>3 DEF GuardrailsInv, RequestInv
      <3>2. CASE stage # "answered"
        <4>1. toxicity = Harmless
          BY <3>2 DEF GuardrailsInv, RequestInv
        <4>2. 0 \in 0 .. 100 /\ FALSE \in BOOLEAN
          OBVIOUS
        <4> QED
          BY <4>1, <4>2 DEF Harmless
      <3> QED
        BY <3>1, <3>2
    <2> QED
      BY <2>1, <2>2, <2>3, <2>4 DEF TypeOK, GuardrailsInv, RequestInv
  <1> QED
    BY <1>1, GuardrailsInvariant, PTL

\* Every version is drawn from the split of the file as it stands, or is "v1"
\* for want of one, for every config file and however often a failed load is
\* tried again (prompt_registry.py:111, completions.py:138).
THEOREM SplitFollowsFileAlways == Spec => []SplitFollowsFile
  <1>1. GuardrailsInv => SplitFollowsFile
    BY DEF GuardrailsInv
  <1> QED
    BY <1>1, GuardrailsInvariant, PTL

\* Conversations with one cache key are equal up to normalization, for any
\* number of messages with texts of any length (cache.py:34).
THEOREM SharedKeyAlways == Spec => []SharedKeyMeansSameConversation
  <1>1. GuardrailsInv => SharedKeyMeansSameConversation
    <2> DEFINE normal(c) == [i \in DOMAIN c |-> <<Normalized(c[i].role), Normalized(c[i].content)>>]
    <2> SUFFICES ASSUME GuardrailsInv, stage = "keyed", messages \in Comparable,
                        NEW c \in Comparable, hash_embedding_stub(c) = prompt_hash
                 PROVE  normal(c) = normal(messages)
      BY DEF SharedKeyMeansSameConversation
    <2>1. hash_embedding_stub(c) = hash_embedding_stub(messages)
      BY DEF GuardrailsInv, RequestInv
    <2>2. /\ c \in Seq([role : Text, content : Text])
          /\ messages \in Seq([role : Text, content : Text])
          /\ \A m \in ToSet(c) : Separable(m)
          /\ \A m \in ToSet(messages) : Separable(m)
      BY GuardrailsAssumption DEF GuardrailsAssumption, Comparable
    <2>3. [i \in DOMAIN c |-> Parts(c[i])] = [i \in DOMAIN messages |-> Parts(messages[i])]
      BY <2>1, <2>2, SharedKeySharedParts
    <2> QED
      BY <2>3 DEF Parts
  <1> QED
    BY <1>1, GuardrailsInvariant, PTL

\* The check digit of a card number notices every mistyped digit, for numbers of
\* every length and form (pii.py:33).
THEOREM SlipsAreNotCardsAlways == Spec => []SlipsAreNotCards
  <1>1. GuardrailsInv => SlipsAreNotCards
    <2> SUFFICES ASSUME GuardrailsInv, stage = "keyed", NEW m \in ToSet(messages),
                        PassesLuhn(DigitsOf(m.content)),
                        NEW i \in DOMAIN DigitsOf(m.content),
                        NEW d \in 0 .. 9 \ {DigitsOf(m.content)[i]}
                 PROVE  ~PassesLuhn([DigitsOf(m.content) EXCEPT ![i] = d])
      BY DEF SlipsAreNotCards
    <2>1. m.content \in Text
      <3> DEFINE Msg == [role : Text, content : Text]
      <3>1. messages \in Seq(Msg)
        BY GuardrailsAssumption DEF GuardrailsAssumption, GuardrailsInv, RequestInv
      <3> HIDE DEF Msg
      <3>2. m \in Msg
        BY <3>1, LenProperties, ElementOfSeq DEF ToSet
      <3> QED
        BY <3>2 DEF Msg
    <2> QED
      BY <2>1, DigitsAreDigits, LuhnNoticesSlip
  <1> QED
    BY <1>1, GuardrailsInvariant, PTL

\* A term counts less than its full weight only with a reason in its own
\* sentence, in answers of every length (toxicity.py:94).
THEOREM DiscountNeedsReasonAlways == Spec => []DiscountNeedsReason
  <1>1. GuardrailsInv => DiscountNeedsReason
    <2> SUFFICES ASSUME GuardrailsInv, stage = "answered",
                        NEW s \in Sentences(answer), NEW term \in MatchedTerms(s)
                 PROVE  \/ ToSet(s) \cap Indicators # {}
                        \/ \E i, j, k \in DOMAIN s :
                             i < j /\ j < k /\ s[i] = Quote /\ s[k] = Quote
                             /\ s[j] \in {term} \cup Compounds[term]
                        \/ toxicity.score >= Lexicon[term]
      BY DEF DiscountNeedsReason
    <2>1. answer \in Text /\ toxicity.score = ToxicityScore(answer)
      BY GuardrailsAssumption DEF GuardrailsAssumption, GuardrailsInv, RequestInv
    <2>2. s \in Text /\ term \in DOMAIN Lexicon
      BY <2>1, SentenceIsText DEF MatchedTerms
    <2>3. CASE ToSet(s) \cap Indicators # {}
      BY <2>3
    <2>4. CASE InAnyQuote(term, s)
      BY <2>2, <2>4, QuotedBetweenMarks
    <2>5. CASE ToSet(s) \cap Indicators = {} /\ ~InAnyQuote(term, s)
      BY <2>1, <2>5, FullWeightWithoutReason
    <2> QED
      BY <2>3, <2>4, <2>5
  <1> QED
    BY <1>1, GuardrailsInvariant, PTL

\* A text is at least as toxic as what stands before or behind the end of one of
\* its sentences, in answers of every length (toxicity.py:116).
THEOREM NoSentenceHidesAnotherAlways == Spec => []NoSentenceHidesAnother
  <1>1. GuardrailsInv => NoSentenceHidesAnother
    <2> SUFFICES ASSUME GuardrailsInv, stage = "answered",
                        NEW i \in DOMAIN answer, answer[i] = Stop
                 PROVE  /\ toxicity.score >= ToxicityScore(SubSeq(answer, 1, i))
                        /\ toxicity.score >= ToxicityScore(SubSeq(answer, i + 1, Len(answer)))
                        /\ ToxicityScore(SubSeq(answer, 1, i)) >= Threshold => toxicity.is_toxic
      BY DEF NoSentenceHidesAnother
    <2>1. /\ answer \in Text /\ toxicity.score = ToxicityScore(answer)
          /\ toxicity.is_toxic = IsToxic(answer)
      BY GuardrailsAssumption DEF GuardrailsAssumption, GuardrailsInv, RequestInv
    <2>2. /\ ToxicityScore(answer) >= ToxicityScore(SubSeq(answer, 1, i))
          /\ ToxicityScore(answer) >= ToxicityScore(SubSeq(answer, i + 1, Len(answer)))
      BY <2>1, SentencesAddUp
    <2>3. SubSeq(answer, 1, i) \in Text
      <3>1. Len(answer) \in Nat /\ i \in 1 .. Len(answer)
        BY <2>1, LenProperties DEF Text
      <3>2. 1 \in 1 .. Len(answer) + 1 /\ i \in 1 - 1 .. Len(answer)
        BY <3>1
      <3> QED
        BY <2>1, <3>2, PartOfText
    <2>4. ToxicityScore(answer) \in 0 .. 100 /\ ToxicityScore(SubSeq(answer, 1, i)) \in 0 .. 100
      BY <2>1, <2>3, ScoreOfWorstSentence
    <2>5. ToxicityScore(SubSeq(answer, 1, i)) >= Threshold => IsToxic(answer)
      <3> DEFINE whole == ToxicityScore(answer)
                 part == ToxicityScore(SubSeq(answer, 1, i))
      <3>1. whole >= part
        BY <2>2
      <3>2. whole \in 0 .. 100 /\ part \in 0 .. 100
        BY <2>4
      <3>3. IsToxic(answer) <=> whole >= 50
        BY DEF IsToxic, Threshold
      <3> HIDE DEF whole, part
      <3>4. part >= 50 => whole >= 50
        BY <3>1, <3>2
      <3> QED
        BY <3>3, <3>4 DEF part, Threshold
    <2> QED
      BY <2>1, <2>2, <2>5
  <1> QED
    BY <1>1, GuardrailsInvariant, PTL

\* A row's score is a verdict of the judge, standing alone or in a code fence, or
\* the row says "fallback", for every reply (eval.py:208).
THEOREM ScoreIsVerdictOrMarkedAlways == Spec => []ScoreIsVerdictOrMarked
  <1>1. GuardrailsInv => ScoreIsVerdictOrMarked
    <2> SUFFICES ASSUME GuardrailsInv PROVE ScoreIsVerdictOrMarked
      OBVIOUS
    <2>1. CASE stage = "evaluated"
      <3>1. PICK response \in Responses, schema \in Schemas, reply \in JudgeReplies :
              \E rows \in evaluate_and_record_response(response, schema, reply) :
                verdict = [reply |-> reply, rows |-> rows]
        BY <2>1 DEF GuardrailsInv, RequestInv
      <3>2. reply \in Text
        BY GuardrailsAssumption DEF GuardrailsAssumption
      <3>r. PICK rows \in evaluate_and_record_response(response, schema, reply) :
              verdict = [reply |-> reply, rows |-> rows]
        BY <3>1
      <3> DEFINE own == {v \in DOMAIN Verdicts :
                           \/ verdict.reply = <<v>>
                           \/ \E f, g \in Fences : verdict.reply \in {<<f, v>>, <<f, v, g>>}}
      <3>3. own = OwnVerdicts(reply)
        BY <3>r DEF OwnVerdicts
      <3> HIDE DEF own
      <3>4. \A row \in verdict.rows :
              IF own = {} THEN row.judge = [score |-> DefaultScore, rationale |-> "fallback"]
              ELSE /\ row.judge.rationale = "judge"
                   /\ \E v \in own : row.judge.score = Verdicts[v] \/ Verdicts[v] = Absent
        BY <3>2, <3>3, <3>r, RowsOfEvaluation
      <3> QED
        BY <3>4 DEF ScoreIsVerdictOrMarked, own
    <2>2. CASE stage # "evaluated"
      <3>1. verdict.rows = {}
        BY <2>2 DEF GuardrailsInv, RequestInv, NoVerdict
      <3> QED
        BY <3>1 DEF ScoreIsVerdictOrMarked
    <2> QED
      BY <2>1, <2>2
  <1> QED
    BY <1>1, GuardrailsInvariant, PTL

(***************************************************************************)
(* What reaches the model                                                  *)
(***************************************************************************)
\* The tokens of a text and the placeholders (to the provers they are no strings).
Marked == STRING \cup Kinds

\* A text is a sequence of such tokens.
LEMMA TextIsMarked ==
  ASSUME NEW text \in Seq(STRING)
  PROVE  text \in Seq(Marked) /\ Kinds \subseteq Marked
  BY SeqDef DEF Marked

\* No message to the model holds an SSN, an e-mail address, a phone number or an
\* IP address, for texts of every length, except for a phone number right behind
\* a placeholder that the \b or \w of an earlier pass stood for (pii.py:71).
THEOREM NothingIdentifiableLeftAlways == Spec => []NothingIdentifiableLeft
  <1>1. GuardrailsInv => NothingIdentifiableLeft
    <2> SUFFICES ASSUME GuardrailsInv, stage = "redacted",
                        NEW m \in ToSet(sent), NEW kind \in ToSet(Passes) \ {"[CREDIT_CARD]"},
                        NEW i \in DOMAIN m.content, Ends(kind, m.content, i) # {}
                 PROVE  /\ kind = "[PHONE]" /\ i > 1
                        /\ m.content[i - 1] \in {"[PHONE]", "[IP_ADDRESS]"}
      BY DEF NothingIdentifiableLeft
    <2>1. /\ messages \in Conversations
          /\ sent = [k \in DOMAIN messages |->
                       [messages[k] EXCEPT !.content = redact_pii(@)]]
      BY DEF GuardrailsInv, RequestInv
    <2>2. PICK k \in DOMAIN messages : m = [messages[k] EXCEPT !.content = redact_pii(@)]
      BY <2>1 DEF ToSet
    <2>3. messages[k] \in [role : Text, content : Text]
      <3>1. messages \in Seq([role : Text, content : Text])
        BY <2>1, GuardrailsAssumption DEF GuardrailsAssumption
      <3>2. k \in 1 .. Len(messages)
        BY <3>1, LenProperties
      <3> QED
        BY <3>1, <3>2, ElementOfSeq
    <2> DEFINE text == messages[k].content
    <2>4. text \in Seq(STRING) /\ m.content = redact_pii(text)
      BY <2>2, <2>3 DEF Text
    <2> HIDE DEF text
    <2>5. kind \in Kinds \ {"[CREDIT_CARD]"}
      BY DEF Kinds
    <2>6. redact_pii(text) \in Seq(Marked) /\ Clean(kind, redact_pii(text))
      BY <2>4, <2>5, TextIsMarked, RedactedIsClean
    <2>7. i \in 1 .. Len(m.content)
      BY <2>4, <2>6, LenProperties
    <2> QED
      BY <2>4, <2>6, <2>7 DEF Clean
  <1> QED
    BY <1>1, GuardrailsInvariant, PTL

\* A card number that stands alone is replaced as a whole, and the text before and
\* behind it is redacted as if it were not there, for texts of every length
\* (pii.py:44).
THEOREM LoneCardsRedactedAlways == Spec => []LoneCardsRedacted
  <1>1. GuardrailsInv => LoneCardsRedacted
    <2> SUFFICES ASSUME GuardrailsInv, stage = "redacted", NEW m \in DOMAIN messages,
                        NEW c \in LoneCards(messages[m].content)
                 PROVE  sent[m].content =
                            redact_pii(SubSeq(messages[m].content, 1, c[1] - 1))
                              \o <<"[CREDIT_CARD]">>
                              \o redact_pii(SubSeq(messages[m].content, c[2] + 1,
                                                   Len(messages[m].content)))
      BY DEF LoneCardsRedacted
    <2>1. /\ messages \in Conversations
          /\ sent = [k \in DOMAIN messages |->
                       [messages[k] EXCEPT !.content = redact_pii(@)]]
      BY DEF GuardrailsInv, RequestInv
    <2>2. messages[m] \in [role : Text, content : Text]
      <3>1. messages \in Seq([role : Text, content : Text])
        BY <2>1, GuardrailsAssumption DEF GuardrailsAssumption
      <3>2. m \in 1 .. Len(messages)
        BY <3>1, LenProperties
      <3> QED
        BY <3>1, <3>2, ElementOfSeq
    <2> DEFINE text == messages[m].content
    <2>3. text \in Seq(STRING) /\ sent[m].content = redact_pii(text)
      BY <2>1, <2>2 DEF Text
    <2> HIDE DEF text
    <2>4. c \in LoneCards(text)
      BY DEF text
    <2> DEFINE stands(i, j) ==
            /\ j \in CardEnds(text, i) /\ c = <<i, j>>
            /\ PassesLuhn(DigitsOf(SubSeq(text, i, j)))
            /\ \A k \in 1 .. i - 1 : ~({text[k], text[i]} \subseteq Runs
                                        /\ AllIn(text, k, i, Runs \cup {" ", "-"}))
            /\ \A k \in j + 1 .. Len(text) : ~({text[j], text[k]} \subseteq Runs
                                                /\ AllIn(text, j, k, Runs \cup {" ", "-"}))
            /\ \A k \in i .. j : SsnEnds(text, k) = {}
            /\ \A k \in 1 .. j : \A e \in EmailEnds(text, k) : e < i
    <2>5. \E i \in DOMAIN text : \E j \in CardEnds(text, i) : stands(i, j)
      BY <2>4 DEF LoneCards
    <2>6. PICK i \in DOMAIN text : \E j \in CardEnds(text, i) : stands(i, j)
      BY <2>5
    <2>7. PICK j \in CardEnds(text, i) : stands(i, j)
      BY <2>6
    <2>8. i \in 1 .. Len(text) /\ c[1] = i /\ c[2] = j
      BY <2>3, <2>7, LenProperties
    <2>9. text \in Seq(Marked) /\ Kinds \subseteq Marked
      BY <2>3, TextIsMarked
    <2>10. redact_pii(text) = redact_pii(SubSeq(text, 1, i - 1)) \o <<"[CREDIT_CARD]">>
                               \o redact_pii(SubSeq(text, j + 1, Len(text)))
      BY <2>3, <2>7, <2>8, <2>9, LoneCardRedacted DEF Joiners
    <2> QED
      BY <2>3, <2>8, <2>10 DEF text
  <1> QED
    BY <1>1, GuardrailsInvariant, PTL
==============================================================================
