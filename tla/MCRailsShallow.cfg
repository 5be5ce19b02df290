CONSTANTS
    Merged = {1, 2}
    Change = {3, 4, 5}
    Needs <- MCNeeds
    LooksAt <- MCLooksAt
    Tolerant = {3, 5}
    Repositories <- Shallow
    ReplayLimit = 3
SPECIFICATION Spec
INVARIANT
    MissingNeverWrong
CHECK_DEADLOCK FALSE
