CONSTANTS
    w1 = w1
    w2 = w2
    w3 = w3
    Writers <- MCWriters
    PayloadCount = 2
    Attempts = 2
    MaxEntries = 2
SPECIFICATION FairSpec
INVARIANTS
    TypeOK
    ChainIntact
    ReturnedIsRecorded
    ExhaustionMeansContention
PROPERTIES
    ImplementsLedger
    CallsEnd
CHECK_DEADLOCK FALSE
