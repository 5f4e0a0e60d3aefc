CONSTANTS
    t1 = t1
    t2 = t2
    t3 = t3
    Tasks <- ThreeTasks
    PolicyInForce <- TwoPersons
    Identities <- MCIdentities
    Requester = "drew"
    WindowCloses = 1
    Skew = 1
    Ballots <- AllBallots
    Envelopes <- Approvals
    Idempotency = TRUE
    Raising <- None
    Crashes = FALSE
    MaxTime = 1
    MaxCalls = 4
SPECIFICATION Spec
SYMMETRY SymmetryThree
INVARIANTS
    OutcomesAnnounced
    AcksAreRecorded
    OneDecisionPerKey
CHECK_DEADLOCK FALSE
