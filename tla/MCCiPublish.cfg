CONSTANTS
    Configs <- MCConfigs
    Verdicts = {"no_migrations", "requires_approval", "block"}
    MaxPushes = 3
    MaxOthers = 2
    MaxId = 3
    PageSize = 2
    MaxPages = 2
    Alone = TRUE
SPECIFICATION Spec
INVARIANTS
    TypeOK
    OneComment
    NewestVerdictStands
    RedWhenItMatters
PROPERTY
    RunsEnd
CHECK_DEADLOCK FALSE
