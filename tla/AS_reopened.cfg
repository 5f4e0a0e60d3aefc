CONSTANTS
    t1 = t1
    t2 = t2
    t3 = t3
    Tasks <- OneTask
    PolicyInForce <- TwoPersons
    Identities <- MCIdentities
    Requester = "drew"
    WindowCloses = 1
    Skew = 1
    Ballots <- None
    Envelopes <- Relenting
    Idempotency = TRUE
    Raising <- None
    Crashes = FALSE
    MaxTime = 1
    MaxCalls = 3
SPECIFICATION Spec
INVARIANTS
    HonestLogVerifies
CHECK_DEADLOCK FALSE
