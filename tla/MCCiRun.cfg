CONSTANTS
    Files <- MCFiles
    Judged <- MCJudged
    Jobs <- MCJobs
    PageSize = 2
    MaxPages = 2
    MaxRuns = 2
    MaxEvents = 2
SPECIFICATION Spec
INVARIANTS
    TypeOK
    EveryMigrationAccounted
    EvidenceBehindReports
    ToolErrorIsNoVerdict
PROPERTIES
    RunEnds
\* After MaxRuns runs there is none to start.
CHECK_DEADLOCK FALSE
