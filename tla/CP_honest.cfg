\* Two tasks write and publish while an auditor verifies; one failover.
CONSTANTS
    t1 = t1
    t2 = t2
    Tasks <- TwoTasks
    MaxCalls = 4
    MaxFailovers = 1
    MaxLeaves = 7
    Resuming = FALSE
SYMMETRY Symmetry
SPECIFICATION Spec
INVARIANTS
    TypeOK
    HeadsAgree
    NoFalseAlarms
    LossIsReported
    ReportsStand
    InclusionProofsAreExact
CHECK_DEADLOCK FALSE
