CONSTANTS
    A = "a"
    B = "b"
    I = "i"
    Names = {"a", "b", "i"}
    Schemas = {"public"}
    DefaultSchema = "public"
    Quoted = {}
    CannotEstimate = CannotEstimate
    Nothing = Nothing
    MaxStatements = 3
    Statements <- IfNotExistsStatements
    Snapshots <- MCSnapshots
SPECIFICATION Spec
INVARIANT
    LiveAelNeverSafe
CHECK_DEADLOCK FALSE
