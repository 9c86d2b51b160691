----------------------------- MODULE Guardrails -----------------------------
(***************************************************************************)
(* What chat_completions computes between its awaits, for one              *)
(* request after another in one process: the prompt version, the cache     *)
(* key, the redacted messages, the toxicity of the answer, and the         *)
(* evaluation in the background.  Of the earlier requests only the prompt  *)
(* registry remembers anything; each text is forgotten as soon as nothing  *)
(* below relates it to a later one.                                        *)
(***************************************************************************)
EXTENDS Redaction, Toxicity, CacheKey, PromptRegistry, Evaluation

CONSTANTS
    ConfigFiles,    \* prompts.yaml, well-formed or not
    Conversations,  \* message lists that clients may send
    Answers,        \* texts that the model may answer
    JudgeReplies,   \* replies of the judge, and <<>> for an error
    ComparedLength  \* conversations are compared up to this length of their texts

Text == Seq(STRING)

GuardrailsAssumption ==
    /\ ConfigFiles \subseteq ConfigFile
    /\ Conversations \subseteq Seq([role : Text, content : Text])
    /\ Answers \subseteq Text /\ JudgeReplies \subseteq Text
ASSUME GuardrailsAssumption

VARIABLES
    stage,          \* what the current request has come to
    file,           \* the config file on disk
    registry,
    version,        \* prompt_version
    messages,       \* messages_dicts
    prompt_hash,
    sent,           \* redacted_messages_dicts
    answer,         \* response_content
    toxicity,       \* toxicity_score and is_toxic
    verdict         \* what the judge replied, and the rows that the table got

vars == <<stage, file, registry, version, messages, prompt_hash, sent, answer, toxicity, verdict>>

Harmless == [score |-> 0, is_toxic |-> FALSE]
NoVerdict == [reply |-> <<>>, rows |-> {}]

Init ==
    /\ stage = "start"
    /\ file \in ConfigFiles
    /\ registry = EmptyRegistry
    /\ version = "none"
    /\ messages = <<>> /\ prompt_hash = <<>> /\ sent = <<>>
    /\ answer = <<>> /\ toxicity = Harmless
    /\ verdict = NoVerdict

\* KeyError and ValueError mean "v1"; anything else becomes a 500.
SelectVersion ==
    /\ stage = "start"
    /\ registry' = load(registry, file)
    /\ LET error == SelectionError(registry, file)
       IN  \/ error = "YAMLError" /\ UNCHANGED <<stage, version>>
           \/ error \in {"KeyError", "ValueError"} /\ version' = "v1" /\ stage' = "selected"
           \/ /\ error = "none"
              /\ version' \in select_version(registry, file)
              /\ stage' = "selected"
    /\ UNCHANGED <<file, messages, prompt_hash, sent, answer, toxicity, verdict>>

ComputeKey ==
    /\ stage = "selected"
    /\ messages' \in Conversations
    /\ prompt_hash' = hash_embedding_stub(messages')
    /\ stage' = "keyed"
    /\ UNCHANGED <<file, registry, version, sent, answer, toxicity, verdict>>

\* The cache has no answer under the key.
Redact ==
    /\ stage = "keyed"
    /\ sent' = [i \in DOMAIN messages |->
                 [messages[i] EXCEPT !.content = redact_pii(@)]]
    /\ stage' = "redacted"
    /\ UNCHANGED <<file, registry, version, messages, prompt_hash, answer, toxicity, verdict>>

\* await litellm.acompletion(...)
CallModel ==
    /\ stage = "redacted"
    /\ messages' = <<>> /\ prompt_hash' = <<>> /\ sent' = <<>>
    /\ stage' = "called"
    /\ UNCHANGED <<file, registry, version, answer, toxicity, verdict>>

Classify ==
    /\ stage = "called"
    /\ answer' \in Answers
    /\ toxicity' = [score |-> ToxicityScore(answer'), is_toxic |-> IsToxic(answer')]
    /\ stage' = "answered"
    /\ UNCHANGED <<file, registry, version, messages, prompt_hash, sent, verdict>>

\* await write_metrics(...), and the response is sent.
Respond ==
    /\ stage = "answered"
    /\ answer' = <<>> /\ toxicity' = Harmless
    /\ stage' = "replied"
    /\ UNCHANGED <<file, registry, version, messages, prompt_hash, sent, verdict>>

\* The background task.  The handler gives no schema, but the function takes one.
Evaluate ==
    /\ stage = "replied"
    /\ \E response \in Responses, schema \in Schemas, reply \in JudgeReplies :
         \E rows \in evaluate_and_record_response(response, schema, reply) :
           verdict' = [reply |-> reply, rows |-> rows]
    /\ stage' = "evaluated"
    /\ UNCHANGED <<file, registry, version, messages, prompt_hash, sent, answer, toxicity>>

\* The next request: after a reply from the cache, or when this one is done.
NextRequest ==
    /\ stage \in {"keyed", "evaluated"}
    /\ stage' = "start" /\ version' = "none"
    /\ messages' = <<>> /\ prompt_hash' = <<>>
    /\ verdict' = NoVerdict
    /\ UNCHANGED <<file, registry, sent, answer, toxicity>>

Next ==
    \/ SelectVersion
    \/ ComputeKey
    \/ Redact
    \/ CallModel
    \/ Classify
    \/ Respond
    \/ Evaluate
    \/ NextRequest

Spec == Init /\ [][Next]_vars
------------------------------------------------------------------------------
\* The versions that a request may name in its metrics.
VersionNames ==
    {"none", "v1"} \cup UNION {{v.version : v \in ToSet(e.versions)} : e \in ToSet(file.entries)}

\* The last clause is the cap of a sentence's score: weights add up beyond 1.
TypeOK ==
    /\ stage \in {"start", "selected", "keyed", "redacted", "called", "answered", "replied",
                  "evaluated"}
    /\ version \in VersionNames /\ registry.loaded \in BOOLEAN
    /\ Len(sent) \in {0, Len(messages)}
    /\ \A row \in verdict.rows : row.schema_valid \in {"valid", "invalid"}
    /\ toxicity \in [score : 0 .. 100, is_toxic : BOOLEAN]

Positive(versions) == {v.version : v \in {u \in ToSet(versions) : u.weight > 0}}

\* The traffic split is the file's, from the first request to the last: the
\* positive versions of the last "default" entry of a complete file, and "v1"
\* for everybody if the file cannot say, however often it is read again.
SplitFollowsFile ==
    stage = "selected" =>
        LET defaults == {i \in DOMAIN file.entries : file.entries[i].prompt_id = "default"}
            last == {i \in defaults : \A k \in defaults : k <= i}
            split == UNION {Positive(file.entries[i].versions) : i \in last}
            usable == file.status = "read" /\ FirstIncomplete(file) = 0 /\ split # {}
        IN  version \in IF usable THEN split ELSE {"v1"}

\* Messages without the separators of the key in the wrong place.
Separable(m) == /\ ~Contains(m.role, ":") /\ ~Contains(m.role, "|") /\ ~Contains(m.content, "|")
                /\ Len(m.content) <= ComparedLength

Comparable == {c \in Conversations : \A m \in ToSet(c) : Separable(m)}

\* "Context safety" of the cache key (README.md:156): no two conversations share
\* a key unless they are equal up to case and outer blanks, as long as no role
\* holds ":" and none of their texts the "|" that ends a message.  (With them they
\* can, as cache.py:34 does not escape them.)
SharedKeyMeansSameConversation ==
    LET normal(c) == [i \in DOMAIN c |-> <<Normalized(c[i].role), Normalized(c[i].content)>>]
    IN  stage = "keyed" /\ messages \in Comparable =>
            \A c \in Comparable : hash_embedding_stub(c) = prompt_hash => normal(c) = normal(messages)

\* What the provider and the embedding service get holds no e-mail address, SSN,
\* phone number or IPv4 address: no pass misses one, and none uncovers another.
\* The exception is a phone number that touches the phone number or the address
\* in front of it, whose last digit PHONE_REGEX takes for a part of its word.
NothingIdentifiableLeft ==
    stage = "redacted" =>
        \A m \in ToSet(sent), kind \in ToSet(Passes) \ {"[CREDIT_CARD]"} :
            \A i \in DOMAIN m.content :
                Ends(kind, m.content, i) # {} =>
                    /\ kind = "[PHONE]" /\ i > 1
                    /\ m.content[i - 1] \in {"[PHONE]", "[IP_ADDRESS]"}

\* The card numbers of a text that stand alone: no other digits are joined to
\* them by blanks or hyphens, and no SSN or e-mail address is read out of them.
LoneCards(text) ==
    LET joined(k, l) == {text[k], text[l]} \subseteq Runs
                        /\ AllIn(text, k, l, Runs \cup {" ", "-"})
        alone(i, j) == /\ \A k \in 1 .. i - 1 : ~joined(k, i)
                       /\ \A k \in j + 1 .. Len(text) : ~joined(j, k)
                       /\ \A k \in i .. j : SsnEnds(text, k) = {}
                       /\ \A k \in 1 .. j : \A e \in EmailEnds(text, k) : e < i
        valid(i) == {j \in CardEnds(text, i) : PassesLuhn(DigitsOf(SubSeq(text, i, j)))}
    IN  UNION {{<<i, j>> : j \in {k \in valid(i) : alone(i, k)}} : i \in DOMAIN text}

\* A card number that stands alone is redacted as a whole, whatever surrounds
\* it, and the text before and behind it is redacted as if it were not there.
LoneCardsRedacted ==
    stage = "redacted" =>
        \A m \in DOMAIN messages :
            LET text == messages[m].content
            IN  \A c \in LoneCards(text) :
                    sent[m].content = redact_pii(SubSeq(text, 1, c[1] - 1))
                        \o <<"[CREDIT_CARD]">> \o redact_pii(SubSeq(text, c[2] + 1, Len(text)))

\* One mistyped digit and a card number is no card number any more.
SlipsAreNotCards ==
    stage = "keyed" =>
        \A m \in ToSet(messages) :
            Len(m.content) \in CardEnds(m.content, 1) /\ PassesLuhn(DigitsOf(m.content)) =>
                LET digits == DigitsOf(m.content)
                IN  \A i \in DOMAIN digits : \A d \in 0 .. 9 \ {digits[i]} :
                        ~PassesLuhn([digits EXCEPT ![i] = d])

\* A term's full weight counts unless its sentence has an indicator or quote
\* characters on both sides of it (toxicity.py:93; "exclusively within quotes"
\* would be too much: an apostrophe is a quote character here, and one quoted
\* occurrence covers the others).
DiscountNeedsReason ==
    stage = "answered" =>
        \A s \in Sentences(answer) : \A term \in MatchedTerms(s) :
            \/ ToSet(s) \cap Indicators # {}
            \/ \E i, j, k \in DOMAIN s :
                 i < j /\ j < k /\ s[i] = Quote /\ s[k] = Quote
                 /\ s[j] \in {term} \cup Compounds[term]
            \/ toxicity.score >= Lexicon[term]

\* What precedes or follows a sentence makes it no milder.
NoSentenceHidesAnother ==
    stage = "answered" =>
        \A i \in DOMAIN answer : answer[i] = Stop =>
            /\ toxicity.score >= ToxicityScore(SubSeq(answer, 1, i))
            /\ toxicity.score >= ToxicityScore(SubSeq(answer, i + 1, Len(answer)))
            /\ ToxicityScore(SubSeq(answer, 1, i)) >= Threshold => toxicity.is_toxic

\* A score is the judge's own if the row does not say "fallback": it was read
\* from a verdict that stands alone or in a code fence.  (A verdict without a
\* score counts as 5.)
ScoreIsVerdictOrMarked ==
    LET own == {v \in DOMAIN Verdicts :
                  \/ verdict.reply = <<v>>
                  \/ \E f, g \in Fences : verdict.reply \in {<<f, v>>, <<f, v, g>>}}
    IN  \A row \in verdict.rows :
            IF own = {} THEN row.judge = [score |-> DefaultScore, rationale |-> "fallback"]
            ELSE /\ row.judge.rationale = "judge"
                 /\ \E v \in own : row.judge.score = Verdicts[v] \/ Verdicts[v] = Absent
=============================================================================
