\* Both keys in Vault; a checkpoint is signed around a rotation.
CONSTANTS
    t1 = t1
    host = host
    casey = casey
    Callers <- OneTask
    Publishers <- TheHost
    Refs <- TwoRefs
    SchemeOf <- BothVault
    RefFor <- KeyPerPurpose
    Specs <- IssuerAndLog
    Approvers <- OneApprover
    People <- OwnKey
    Log = "releases"
    Roster <- OnRoster
    SignerTTL = 1
    PubkeyTTL = 1
    Durable = TRUE
    MaxVersion = 2
    MaxTime = 1
    MaxRevocations = 0
    MaxDecisions = 1
SPECIFICATION Spec
INVARIANTS
    LabelsAreTrue
