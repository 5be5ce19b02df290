CONSTANTS
    MaxStatements = 6
SPECIFICATION Spec
INVARIANTS
    TypeOK
    EveryStatementOnce
    WarningsAreReal
PROPERTY
    GroupsFollowSession
CHECK_DEADLOCK FALSE
