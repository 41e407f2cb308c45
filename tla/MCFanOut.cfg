SPECIFICATION MCSpec
CONSTANTS
    Char = {"a", "b"}
    Star = "*"
    Quest = "?"
    MaxPattern = 2
    MaxValue = 2
    Filler = "a"
    WalkBound = 5
    Value <- MCValue
    Pattern <- MCPattern
    Language <- MCLanguage
    Reason = {"unread"}
    Claim = {"sub", "aud"}
    Audience = "aud"
    Caveat = {"caveat"}
    ClaimOf <- MCClaimOf
    TermCap = 2
    Target = {"t1", "t2"}
    NoTarget = "no target"
    Issuer = {"i1", "i2"}
    NoIssuer = "no issuer"
    Record <- MCRecord
    Nameless = {"nameless"}
    Conclusive = {"ok"}
    Instance <- MCInstance
    NoInstance = NoInstance
    Statement <- MCStatement
    MaxGrants = 4
    SubjectChar = {"a", "r", ":", "/", "@", "*"}
    OwnerChar = {"a", "r"}
    Wildcard = {"*"}
    Tenancies <- MCTenancies
    OwnerNames <- MCOwnerNames
    Tails <- MCTails
    Foreign <- MCForeign
    Beside <- MCBeside
    MaxText = 5
INVARIANTS EstablishedMeansAdmitted SharedCounterpartiesAreLinked OwnersHoldEverySubject StartsAreWhoIsLetIn
PROPERTY LongerTextsPinNoLess
CHECK_DEADLOCK FALSE
