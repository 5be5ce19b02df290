CONSTANTS
    Configs <- MCConfigs
    Verdicts = {"no_migrations", "requires_approval", "block"}
    MaxPushes = 2
    MaxOthers = 1
    MaxId = 3
    PageSize = 2
    MaxPages = 2
    Alone = FALSE
SPECIFICATION Spec
INVARIANT
    NewestVerdictStands
CHECK_DEADLOCK FALSE
