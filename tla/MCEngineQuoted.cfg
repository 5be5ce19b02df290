CONSTANTS
    A = "a"
    B = "b"
    I = "i"
    Names = {"a", "b", "i"}
    Schemas = {"public"}
    DefaultSchema = "public"
    Quoted = {"a"}
    CannotEstimate = CannotEstimate
    Nothing = Nothing
    MaxStatements = 3
    Statements <- QuotedStatements
    Snapshots <- MCSnapshots
SPECIFICATION Spec
INVARIANT
    ContentionSeen
CHECK_DEADLOCK FALSE
