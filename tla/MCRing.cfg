SPECIFICATION MCSpec
CONSTANTS
    Value = {"a/x", "ab/x", "a*", "1", "2"}
    Pattern = {"a/*", "a*"}
    Language <- MCLanguage
    Reason = {"sub", "owner_id", "src"}
    Claim = {"sub", "owner_id", "src"}
    Caveat = {"sub", "owner_id", "src", "statement"}
    TermCap = 2
    Issuer = {"github", "repos", "untaught", "charless", "guests", "unverified", "unsurveyed",
              "tenant", "open", "unnamed", "saml", "service", "aws", "canonical",
              "*services", "*saml", "*both", "*all"}
    Condition <- MCCondition
    Hidden <- MCHidden
    MaxStatements = 1
    MaxConstructs = 2
    Facts <- MCFacts
    Reads <- MCReads
    RequestKey = {"src"}
    Declaration <- MCDeclaration
    Lower <- MCLower
    Holder = {"a", "ab", "guest"}
    HoldersOf <- MCHoldersOf
    Bears <- MCBears
    Account = {"a", "ab"}
    Is <- MCIs
    Caller <- MCCaller
    AccountId = {"1", "2"}
    Written <- MCWritten
    ActionText <- MCActionText
    MaxWritten = 4
INVARIANTS EveryCallerIsPlaced ExactPrincipalsAreDeployed NoGrantIsNearerThanItsHolders QuietAnyoneRingIsTrue ExactPlatformsAreSettled
PROPERTY KeepsThePromise
CHECK_DEADLOCK FALSE
