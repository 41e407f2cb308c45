SPECIFICATION Spec
CONSTANTS
    Char = {"a", "b"}
    Star = "*"
    Quest = "?"
    MaxPattern = 2
    MaxValue = 1
    Value <- MCValue
    Pattern <- MCPattern
    Language <- MCLanguage
    Reason = {"unread"}
    Claim = {"sub", "aud"}
    Caveat = {"caveat"}
    TermCap = 2
    Reg = {r1, r2}
    Readable <- MCReadable
    Hidden <- MCHidden
INVARIANTS TypeOK NothingUnreadNarrows ExactIsTheTruth CapIsKept
