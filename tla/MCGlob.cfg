SPECIFICATION MCSpec
CONSTANTS
    Char = {"a", "b"}
    Star = "*"
    Quest = "?"
    MaxPattern = 4
    MaxValue = 4
    Filler = "a"
    WalkBounds = {4, 100}
    WalkPatterns <- MCWalkPatterns
    Operator <- MCOperator
    Key <- MCKey
    Text <- MCText
    Holder <- MCHolder
    Vocabulary <- MCVocabulary
    Carried <- MCCarried
    Replaced <- MCReplaced
    MaxParts = 4
    MaxBlocks = 2
INVARIANTS AnswerIsMeaning WalksAreHonest ConditionsAreReadAsTested
CHECK_DEADLOCK FALSE
