---------------------------- MODULE MCGuardrails ----------------------------
(* Bounded inputs of Guardrails for TLC. *)
EXTENDS Guardrails

MCDigits ==
    [n4111 |-> <<4, 1, 1, 1>>, n1111 |-> <<1, 1, 1, 1>>, n1112 |-> <<1, 1, 1, 2>>,
     n378 |-> <<3, 7, 8>>, n282 |-> <<2, 8, 2>>, n2463 |-> <<2, 4, 6, 3>>,
     n10005 |-> <<1, 0, 0, 0, 5>>,
     n4000000000006 |-> <<4, 0, 0, 0, 0, 0, 0, 0, 0, 0, 0, 0, 6>>,
     n123 |-> <<1, 2, 3>>, n456 |-> <<4, 5, 6>>, n7890 |-> <<7, 8, 9, 0>>,
     n45 |-> <<4, 5>>, n6789 |-> <<6, 7, 8, 9>>, n10 |-> <<1, 0>>,
     n192 |-> <<1, 9, 2>>, n168 |-> <<1, 6, 8>>, n255 |-> <<2, 5, 5>>, n256 |-> <<2, 5, 6>>,
     n1 |-> <<1>>]
MCWords == {"call", "ann"}
MCDomains == {"@mail.com"}

\* Things that texts are about: card numbers of three lengths, one of them with
\* a wrong check digit, phone numbers, an SSN, an address with a fault and one
\* without, an e-mail address, a word and small numbers.
Items ==
    {<<"n4111", " ", "n1111", " ", "n1111", " ", "n1111">>,
     <<"n4111", "-", "n1111", "-", "n1111", "-", "n1112">>,
     <<"n378", "-", "n282", "-", "n2463", " ", "n10005">>,
     <<"n4000000000006">>,
     <<"n123", "-", "n456", "-", "n7890">>,
     <<"+", "n1", " ", "(", "n123", ")", " ", "n456", "-", "n7890">>,
     <<"n123", "-", "n45", "-", "n6789">>,
     <<"n192", ".", "n168", ".", "n1", ".", "n255">>,
     <<"n192", ".", "n168", ".", "n1", ".", "n256">>,
     <<"ann", "@mail.com">>,
     <<"call">>,
     <<"n10">>}

\* Items that can touch what is in front of them.
Touching ==
    {<<"(", "n123", ")", " ", "n456", "-", "n7890">>,
     <<"+", "n1", " ", "n123", "-", "n456", "-", "n7890">>}

Texts ==
    Items \cup {a \o b : a \in Items, b \in Touching}
          \cup {a \o <<s>> \o b : a, b \in Items, s \in {" ", "-", ".", ","}}
          \cup {a \o <<" ">> \o b \o <<s>> \o c : a, b, c \in Items, s \in {" ", "-"}}

\* Short contents around the separators of the cache key.
Contents ==
    {<<>>, <<"a">>, <<"A">>, <<" ", "a", " ">>, <<"a", "user", ":", "b">>,
     <<"a", "|", "user", ":", "b">>, <<"b">>}
Message(role, content) == [role |-> <<role>>, content |-> content]
Short == {Message(role, content) : role \in {"user", "assistant"}, content \in Contents}

MCConversations ==
    {<<Message("user", text)>> : text \in Texts}
        \cup {<<m>> : m \in Short} \cup {<<m, n>> : m, n \in Short}
MCLower == [A |-> "a"]

MCLexicon == [idiot |-> 50, racist |-> 80, garbage |-> 20]
MCCompounds == [idiot |-> {"idiotic"}, racist |-> {}, garbage |-> {}]
MCIndicators == {"reported"}
MCAnswers == BoundedSeq({"idiot", "racist", "garbage", "idiotic", "reported", "'", ". "}, 5)

MCFences == {"fence"}
MCVerdicts == [good |-> 4, perfect |-> 5, unscored |-> 0]
MCJudgeReplies == BoundedSeq({"fence", "good", "perfect", "unscored", "prose"}, 3)

FileEntry(prompt_id, versions, complete) ==
    [prompt_id |-> prompt_id, versions |-> versions, complete |-> complete]
FileVersion(name, weight) == [version |-> name, weight |-> weight]
Shipped == <<FileVersion("v1", 8), FileVersion("v2", 2)>>
Other == <<FileVersion("v3", 10), FileVersion("v4", 0)>>
MCConfigFiles ==
    {[status |-> "missing", entries |-> <<>>],
     [status |-> "unparsable", entries |-> <<>>],
     [status |-> "read", entries |-> <<FileEntry("default", Shipped, TRUE)>>],
     [status |-> "read", entries |-> <<FileEntry("summarize", Shipped, TRUE)>>],
     [status |-> "read", entries |-> <<FileEntry("default", <<FileVersion("v4", 0)>>, TRUE)>>],
     [status |-> "read", entries |-> <<FileEntry("default", Shipped, TRUE),
                                       FileEntry("default", Other, TRUE)>>],
     [status |-> "read", entries |-> <<FileEntry("default", Other, TRUE),
                                       FileEntry("summarize", Shipped, FALSE)>>]}
==============================================================================
