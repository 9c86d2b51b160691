\* Bounded texts, files and replies through the synchronous code of a request.
CONSTANTS
    Digits <- MCDigits
    Words <- MCWords
    Domains <- MCDomains
    Lower <- MCLower
    Lexicon <- MCLexicon
    Compounds <- MCCompounds
    Indicators <- MCIndicators
    Fences <- MCFences
    Verdicts <- MCVerdicts
    ConfigFiles <- MCConfigFiles
    Conversations <- MCConversations
    Answers <- MCAnswers
    JudgeReplies <- MCJudgeReplies
    ComparedLength = 5
SPECIFICATION Spec
INVARIANTS
    TypeOK
    SplitFollowsFile
    SharedKeyMeansSameConversation
    NothingIdentifiableLeft
    LoneCardsRedacted
    SlipsAreNotCards
    DiscountNeedsReason
    NoSentenceHidesAnother
    ScoreIsVerdictOrMarked
