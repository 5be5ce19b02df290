CONSTANTS
    Relations <- MCRelations
    Partitioned <- MCPartitioned
    Sessions <- MCSessions
    Servers <- MCServers
    MaxEvents = 2
SPECIFICATION Spec
INVARIANTS
    TypeOK
    StableFactsTrue
    OneRelation
    WaitersTrue
    FailuresStayLocal
PROPERTIES
    CaptureEnds
\* The capture ends.
CHECK_DEADLOCK FALSE
