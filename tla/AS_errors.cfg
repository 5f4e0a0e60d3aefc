CONSTANTS
    t1 = t1
    t2 = t2
    t3 = t3
    Tasks <- TwoTasks
    PolicyInForce <- TwoPersons
    Identities <- MCIdentities
    Requester = "drew"
    WindowCloses = 1
    Skew = 1
    Ballots <- OneBallot
    Envelopes <- Opposed
    Idempotency = TRUE
    Raising <- WorkOfADecision
    Crashes = FALSE
    MaxTime = 1
    MaxCalls = 3
SPECIFICATION FairSpec
INVARIANTS
    NoWedgedKey
PROPERTIES
    CallsEnd
CHECK_DEADLOCK FALSE
