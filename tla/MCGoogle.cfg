SPECIFICATION Spec
CONSTANTS
    Value = {"a", "ab", "*"}
    Pattern <- MCPattern
    Language <- MCLanguage
    Reason = {"sub", "aud", "account"}
    Claim = {"sub", "aud", "account"}
    Caveat = {"sub", "aud", "account", "grant"}
    TermCap = 3
    NestingBound = 2
    Char = {"a", "b", "%"}
    Star = "*"
    Quest = "?"
    Spelling <- MCSpelling
    ConditionLimit = 30
    MappingLimit = 10
    ListCap = 2
    SubjectLimit = 1
    Aud = "aud"
    Account = "account"
    Arn = "sub"
    DefaultAudiences = {"a", "*"}
    AudienceCap = 2
    AudienceList <- MCAudienceList
    NotAString = "not a string"
    Mapping <- MCMapping
    Condition <- MCCondition
    Member <- MCMember
    Escaped = "%"
    Hidden <- MCHidden
    MaxOdd = 1
    Sample <- MCSample
    Alphabet <- MCAlphabet
    MaxText = 4
    Resolvers <- MCResolvers
    Document <- MCDocument
INVARIANTS NothingWrittenIsLost ConditionsAreReadAsTheyMean
PROPERTY KeepsThePromise
CHECK_DEADLOCK FALSE
