CONSTANTS
    Merged = {1, 2}
    Change = {3, 4, 5}
    Needs <- MCNeeds
    LooksAt <- MCLooksAt
    Tolerant = {3, 5}
    Repositories <- Fetched
    ReplayLimit = 3
SPECIFICATION Spec
INVARIANTS
    TypeOK
    PreStateExact
    AppliedOnce
    MissingNeverWrong
PROPERTY
    EveryFileAnswered
CHECK_DEADLOCK FALSE
