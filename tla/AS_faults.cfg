CONSTANTS
    t1 = t1
    t2 = t2
    t3 = t3
    Tasks <- TwoTasks
    PolicyInForce <- OnePerson
    Identities <- MCIdentities
    Requester = "drew"
    WindowCloses = 1
    Skew = 1
    Ballots <- None
    Envelopes <- Mixed
    Idempotency = TRUE
    Raising <- AnyCall
    Crashes = TRUE
    MaxTime = 1
    MaxCalls = 4
SPECIFICATION Spec
SYMMETRY SymmetryTwo
INVARIANTS
    TypeOK
    OneHolderPerKey
    DecisionsBind
    StatusesJustified
    GateSound
CHECK_DEADLOCK FALSE
