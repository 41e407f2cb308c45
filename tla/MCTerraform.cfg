SPECIFICATION Spec
CONSTANTS
    Key = {"[0]", "[1]"}
    Family = {"aws_iam_role", "other_iam_role"}
    ModuleDepthLimit = 1
    Who = {"a", "b"}
    Text <- MCText
    Pool <- MCPool
    Workspace <- MCWorkspace
    Rendering <- MCRendering
    Mute <- MCMute
    Marks <- MCMarks
    Ways <- MCWays
    DeposedType = {"aws_iam_role", "google_service_account_iam_binding"}
    BareType = {"aws_iam_role", "google_service_account_iam_binding"}
INVARIANTS AppliedTrustIsRead ExactGrantsAreDeployed RenderingsAreFresh TargetsAreNeverMerged
CHECK_DEADLOCK FALSE
