SPECIFICATION Spec
CONSTANTS
    Roles = {1, 2, 3, 4}
    Undecodable = {3}
    PageSize = 2
    MaxPages = 2
    MaxBundleRoles = 3
    Errors <- MCErrors
    Late <- MCLate
    MaxChanges = 2
INVARIANTS MissingRolesAreSaid EngineReadsTheBundle NoOneIsNamed
PROPERTY EveryRunEnds
