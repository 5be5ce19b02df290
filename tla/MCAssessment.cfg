CONSTANTS
    Missing = Missing
    Tables <- MCTables
    Subcommands <- MCSubcommands
    InnerKinds <- MCInnerKinds
    Expressions <- MCExpressions
    Builtins <- MCBuiltins
    Provolatile <- MCProvolatile
    Versions = {11, 18}
    MaxRows = 2
SPECIFICATION Spec
INVARIANTS
    TypeOK
    FastPathProven
    MissingFactNeverLightens
    UndoLosesNothing
    ProbesSuffice
CHECK_DEADLOCK FALSE
