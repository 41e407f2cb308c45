SPECIFICATION Spec
CONSTANTS
    Value = {"a", "a and b"}
    Pattern = {"*b"}
    Language <- MCLanguage
    Reason = {"sub", "aud", "repository_id", "repository_owner_id", "job_workflow_ref", "other"}
    Claim = {"sub", "aud", "repository_id", "repository_owner_id", "job_workflow_ref"}
    Caveat = {"sub", "aud", "repository_id", "repository_owner_id", "job_workflow_ref", "other"}
    TermCap = 3
    Sub = "sub"
    Aud = "aud"
    Workflow = "job_workflow_ref"
    RepositoryID = "repository_id"
    OwnerID = "repository_owner_id"
    Letters = {"eq", "matches", "like", "sub", "SUB", "aud", "other", "a", "b"}
    Lower <- MCLower
    Literal <- MCLiteral
    Globbed <- MCGlobbed
    ClauseCap = 3
    Issuer <- MCIssuer
    Empty = ""
    NotAString = "not a string"
    AudienceCap = 2
    AudienceList <- MCAudienceList
    Expression <- MCExpression
    Sample <- MCSample
    Pieces <- MCPieces
    Hidden <- MCHidden
    Document <- MCDocument
INVARIANTS NoCredentialVanishes ExpressionsAreReadAsWritten
PROPERTY KeepsThePromise
CHECK_DEADLOCK FALSE
