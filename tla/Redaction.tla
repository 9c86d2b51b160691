------------------------------ MODULE Redaction ------------------------------
(***************************************************************************)
(* app/core/pii.py: redact_pii and the five patterns it applies in turn.   *)
(*                                                                         *)
(* A text is a sequence of tokens: a run of digits, a word, a mail domain  *)
(* with its "@", a punctuation character, or a placeholder.  Runs, words   *)
(* and domains are never neighbours, so the \b and \w of the patterns hold *)
(* exactly at the ends of runs and words, and a match is made of whole     *)
(* tokens.                                                                 *)
(***************************************************************************)
EXTENDS Integers, SequencesExt, FiniteSetsExt

CONSTANTS
    Digits,     \* for every run of digits, the sequence of its digits
    Words,      \* words of two letters or more
    Domains     \* mail domains

Runs == DOMAIN Digits

RedactionAssumption == Digits \in [Runs -> Seq(0 .. 9)]
ASSUME RedactionAssumption

DigitsIn(token) == IF token \in Runs THEN Digits[token] ELSE <<>>

DigitsOf(text) == FlattenSeq([i \in DOMAIN text |-> DigitsIn(text[i])])

\* The text with every digit written "d": what the phone pattern sees.
Spelled(text) ==
    FlattenSeq([i \in DOMAIN text |-> IF text[i] \notin Runs THEN <<text[i]>>
                                      ELSE [k \in DOMAIN Digits[text[i]] |-> "d"]])

PassesLuhn_NoCarry(digits) ==          \* total += d * 2
    LET place(i) == Len(digits) - i
        value == [i \in DOMAIN digits |->
                    IF place(i) % 2 = 0 THEN digits[i] ELSE 2 * digits[i]]
    IN  digits # <<>> /\ SumFunction(value) % 10 = 0

\* passes_luhn: from the right, every second digit is doubled and reduced to
\* its digit sum.
PassesLuhn(digits) ==
    LET place(i) == Len(digits) - i
        value == [i \in DOMAIN digits |->
                    IF place(i) % 2 = 0 THEN digits[i]
                    ELSE ((2 * digits[i]) \div 10) + ((2 * digits[i]) % 10)]
    IN  digits # <<>> /\ SumFunction(value) % 10 = 0
------------------------------------------------------------------------------
(***************************************************************************)
(* Where a match that starts at token i may end                            *)
(***************************************************************************)
AllIn(text, i, j, tokens) == \A k \in i .. j : text[k] \in tokens

EmailEnds(text, i) ==
    LET local == Runs \cup Words \cup {".", "-", "+"}
        domain == Runs \cup Words \cup {".", "-"}
    IN  {j \in i + 1 .. Len(text) :
            /\ \/ text[i] \in Runs \cup Words
               \/ text[i] \in local /\ i > 1 /\ text[i - 1] \in Runs \cup Words \cup Domains
            /\ \E k \in i + 1 .. j :
                 /\ text[k] \in Domains
                 /\ AllIn(text, i, k - 1, local)
                 /\ AllIn(text, k + 1, j, domain)
                 /\ j = k \/ (text[j] \in Words /\ text[j - 1] = ".")}

IsRun(token, n) == token \in Runs /\ Len(Digits[token]) = n

SsnEnds(text, i) ==
    {j \in {i + 4} \cap DOMAIN text :
        /\ IsRun(text[i], 3) /\ IsRun(text[i + 2], 2) /\ IsRun(text[j], 4)
        /\ text[i + 1] = "-" /\ text[i + 3] = "-"}

CardEnds(text, i) ==
    {j \in i .. Len(text) :
        /\ {text[i], text[j]} \subseteq Runs
        /\ AllIn(text, i, j, Runs \cup {" ", "-"})
        /\ Len(DigitsOf(SubSeq(text, i, j))) \in 13 .. 16}

A \odot B == {ab[1] \o ab[2] : ab \in A \X B}

PhoneForms ==
    LET d(n) == [i \in 1 .. n |-> "d"]
        sep == {<<>>, <<"-">>, <<".">>, <<" ">>}
        prefix == {<<>>} \cup ({<<"+">>} \odot {d(n) : n \in 1 .. 3} \odot sep)
        area == {d(3), <<"(">> \o d(3) \o <<")">>}
    IN  prefix \odot area \odot sep \odot {d(3)} \odot sep \odot {d(4)}

PhoneEnds(text, i) ==       \* of ten tokens at most
    {j \in (i .. i + 9) \cap DOMAIN text :
        /\ text[i] \in Runs \cup {"+", "("}
        /\ i = 1 \/ text[i - 1] \notin Runs \cup Words \cup Domains
        /\ text[j] \in Runs
        /\ Spelled(SubSeq(text, i, j)) \in PhoneForms}

IsOctet(token) ==
    /\ token \in Runs
    /\ Len(Digits[token]) <= 3
    /\ FoldLeft(LAMBDA n, d : 10 * n + d, 0, Digits[token]) <= 255

Ipv4Ends(text, i) ==
    {j \in {i + 6} \cap DOMAIN text :
        /\ \A k \in {i, i + 2, i + 4, i + 6} : IsOctet(text[k])
        /\ \A k \in {i + 1, i + 3, i + 5} : text[k] = "."}

Ends(kind, text, i) ==
    CASE kind = "[EMAIL]" -> EmailEnds(text, i)
      [] kind = "[SSN]" -> SsnEnds(text, i)
      [] kind = "[CREDIT_CARD]" -> CardEnds(text, i)
      [] kind = "[PHONE]" -> PhoneEnds(text, i)
      [] kind = "[IP_ADDRESS]" -> Ipv4Ends(text, i)
------------------------------------------------------------------------------
\* redact_cc leaves a number with a wrong check digit as it is.
Redacts(kind, match) == kind = "[CREDIT_CARD]" => PassesLuhn(DigitsOf(match))

\* Mutants, here and below: a bug that the definition after it could have.
Sub_SkipsNeighbour(kind, text) ==       \* the scan resumes two tokens too late
    LET from[i \in 1 .. Len(text) + 1] ==
            LET ends == Ends(kind, text, i)
                j == Max(ends)
                match == SubSeq(text, i, j)
                k == Min({j + 2, Len(text)})
            IN  IF i > Len(text) THEN <<>>
                ELSE IF ends = {} THEN <<text[i]>> \o from[i + 1]
                ELSE (IF Redacts(kind, match) THEN <<kind>> ELSE match)
                        \o SubSeq(text, j + 1, k) \o from[k + 1]
    IN  from[1]

\* pattern.sub: from[i] is what becomes of the text from token i on, when the scan
\* has come to it: the leftmost match, the longest one there, is replaced (or
\* left), and the scan goes on behind it.
Sub(kind, text) ==
    LET from[i \in 1 .. Len(text) + 1] ==
            LET ends == Ends(kind, text, i)
                j == Max(ends)
                match == SubSeq(text, i, j)
            IN  IF i > Len(text) THEN <<>>
                ELSE IF ends = {} THEN <<text[i]>> \o from[i + 1]
                ELSE (IF Redacts(kind, match) THEN <<kind>> ELSE match) \o from[j + 1]
    IN  from[1]

Passes_PhonesFirst == <<"[EMAIL]", "[SSN]", "[PHONE]", "[CREDIT_CARD]", "[IP_ADDRESS]">>

Passes == <<"[EMAIL]", "[SSN]", "[CREDIT_CARD]", "[PHONE]", "[IP_ADDRESS]">>

PlaceholderAssumption == (Runs \cup Words \cup Domains) \cap ToSet(Passes) = {}
ASSUME PlaceholderAssumption

\* The redacted text; has_redacted tells whether it differs from the text.
redact_pii(text) == FoldLeft(LAMBDA t, kind : Sub(kind, t), text, Passes)
==============================================================================
