\* A caller and a host that publishes keys; the issuer's key rotates once.
CONSTANTS
    t1 = t1
    host = host
    casey = casey
    Callers <- OneTask
    Publishers <- TheHost
    Refs <- TwoRefs
    SchemeOf <- VaultAndGcp
    RefFor <- KeyPerPurpose
    Specs <- OnlyIssuer
    Approvers <- OneApprover
    People <- OwnKey
    Log = "releases"
    Roster <- OnRoster
    SignerTTL = 1
    PubkeyTTL = 1
    Durable = TRUE
    MaxVersion = 2
    MaxTime = 1
    MaxRevocations = 1
    MaxDecisions = 1
SPECIFICATION Spec
INVARIANTS
    TypeOK
    RotationIsSafe
    InvalidateTakes
PROPERTIES
    CallsCatchUp
