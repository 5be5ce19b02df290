CONSTANTS
    A = "a"
    B = "b"
    I = "i"
    Names = {"a", "b", "i"}
    Schemas = {"public"}
    DefaultSchema = "public"
    Quoted = {}
    CannotEstimate = CannotEstimate
    Nothing = Nothing
    MaxStatements = 3
    Statements <- PlainStatements
    Snapshots <- MCSnapshots
SPECIFICATION Spec
INVARIANTS
    TypeOK
    FileFactsSound
    LiveAelNeverSafe
    BaselineOwnsItsTargets
    OfflineUnsafeIsProven
    UndecidedNeverCleared
    NoDoubleEscalation
    ContentionSeen
    ForbiddenInTransaction
    LongRunUnderLocks
CHECK_DEADLOCK FALSE
