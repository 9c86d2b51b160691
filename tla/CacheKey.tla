------------------------------ MODULE CacheKey ------------------------------
(***************************************************************************)
(* app/core/cache.py: hash_embedding_stub, the part of the cache key that  *)
(* depends on the messages.  Texts are sequences of tokens, separators     *)
(* included.  SHA-256 is taken to be injective: the hash of a text is the  *)
(* text.                                                                   *)
(***************************************************************************)
EXTENDS SequencesExt

CONSTANT Lower      \* for every token that str.lower changes, what it becomes

CacheKeyAssumption ==
    \A token \in DOMAIN Lower : Lower[token] \in STRING /\ Lower[token] \notin {":", "|"}
ASSUME CacheKeyAssumption

LowerCase(text) == [i \in DOMAIN text |-> IF text[i] \in DOMAIN Lower THEN Lower[text[i]]
                                          ELSE text[i]]

\* str.strip
Strip(text) ==
    LET first == SelectInSeq(text, LAMBDA token : token # " ")
        last == SelectLastInSeq(text, LAMBDA token : token # " ")
    IN  IF first = 0 THEN <<>> ELSE SubSeq(text, first, last)

Normalized(text) == LowerCase(Strip(text))

\* Mutants, here and below: a bug that the definition after it could have.
Rendered_NoBar(message) ==      \* f"{role}:{content}"
    Normalized(message.role) \o <<":">> \o Normalized(message.content)

Rendered(message) ==
    Normalized(message.role) \o <<":">> \o Normalized(message.content) \o <<"|">>

hash_embedding_stub(messages) == FlattenSeq([i \in DOMAIN messages |-> Rendered(messages[i])])
==============================================================================
