------------------------------ MODULE Toxicity ------------------------------
(***************************************************************************)
(* app/core/toxicity.py: classify_toxicity.  A text is a sequence of       *)
(* tokens: lexicon terms, meta indicators, other words, quote characters   *)
(* (" and ' alike, as in QUOTE_PATTERN) and punctuation with the blanks    *)
(* behind it, where sentences end.  Weights are in hundredths.             *)
(***************************************************************************)
EXTENDS Integers, SequencesExt, FiniteSetsExt

CONSTANTS
    Lexicon,        \* TOXIC_LEXICON: for every term its weight
    Compounds,      \* for every term, other words it is a part of
    Indicators      \* words with a META_INDICATORS pattern in them

ToxicityAssumption ==
    /\ \A term \in DOMAIN Lexicon : Lexicon[term] \in {20, 50, 80}
    /\ DOMAIN Compounds = DOMAIN Lexicon
ASSUME ToxicityAssumption

Quote == "'"
Stop == ". "
Threshold == 50     \* DEFAULT_TOXICITY_THRESHOLD
Discount == 5       \* a discounted weight is a fifth of the weight

\* Mutants, here and below: a bug that the definition after it could have.
Sentences_Unsplit(text) == {text}       \* one indicator excuses the whole text

\* re.split behind punctuation; the order of the sentences does not matter.
Sentences(text) ==
    LET cuts == {0, Len(text)} \cup {i \in DOMAIN text : text[i] = Stop}
    IN  {SubSeq(text, i + 1, Min({j \in cuts : j > i})) : i \in cuts \ {Len(text)}}

MatchedTerms(sentence) == DOMAIN Lexicon \cap ToSet(sentence)

\* QUOTE_PATTERN.findall: what stands between the first quote character and the
\* second, the third and the fourth, and so on.
Quotes(sentence) ==
    LET marks == {i \in DOMAIN sentence : sentence[i] = Quote}
        opens(i) == Cardinality({k \in marks : k < i}) % 2 = 0 /\ \E k \in marks : k > i
    IN  {SubSeq(sentence, i + 1, Min({k \in marks : k > i}) - 1) : i \in {m \in marks : opens(m)}}

\* term in q, for one of the quotes: as a word or inside of one
InAnyQuote(term, sentence) ==
    \E q \in Quotes(sentence) : ToSet(q) \cap ({term} \cup Compounds[term]) # {}

IsMeta_AnyQuoted(sentence) ==           \* any() for all()
    \/ ToSet(sentence) \cap Indicators # {}
    \/ \E term \in MatchedTerms(sentence) : InAnyQuote(term, sentence)

IsMeta(sentence) ==
    \/ ToSet(sentence) \cap Indicators # {}
    \/ \A term \in MatchedTerms(sentence) : InAnyQuote(term, sentence)

SentenceScore_Uncapped(sentence) ==     \* without min(1.0, ...)
    LET weight == [term \in MatchedTerms(sentence) |->
                     IF IsMeta(sentence) THEN Lexicon[term] \div Discount ELSE Lexicon[term]]
    IN  SumFunction(weight)

SentenceScore(sentence) ==
    LET weight == [term \in MatchedTerms(sentence) |->
                     IF IsMeta(sentence) THEN Lexicon[term] \div Discount ELSE Lexicon[term]]
    IN  Min({100, SumFunction(weight)})

ToxicityScore(text) == Max({0} \cup {SentenceScore(s) : s \in Sentences(text)})

IsToxic(text) == ToxicityScore(text) >= Threshold
==============================================================================
