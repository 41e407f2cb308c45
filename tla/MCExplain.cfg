SPECIFICATION Spec
CONSTANTS
    Value = {"", "x"}
    Pattern = {}
    Language <- MCLanguage
    Reason = {"aud", "user_id"}
    Claim = {"aud", "user_id"}
    Caveat = {"aud", "user_id", "statement"}
    TermCap = 2
    Issuer = {"issuer", "other"}
    Condition <- MCCondition
    Hidden <- MCHidden
    MaxStatements = 2
    MaxConstructs = 2
    TokenClaim = {"azp", "aud"}
    TokenIssuer = {"issuer", "folded"}
    NotAString = "not a string"
    NoClaim = "no claim"
    KeyClaim <- MCKeyClaim
    EmptyText = ""
    Fold <- MCFold
INVARIANTS RefusalsAreTrue AdmissionsAreTrue ExactPoliciesAreAnswered
CHECK_DEADLOCK FALSE
