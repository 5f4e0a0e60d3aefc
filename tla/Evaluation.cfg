CONSTANTS
    Approvers <- MCApprovers
    Policies <- MCPolicies
    Identities <- MCIdentities
    Requester = "drew"
    WindowCloses = 2
    Skew = 1
    Notations <- MCNotations
    MaxTime = 3
    MaxDecisions = 3
SPECIFICATION Spec
INVARIANTS
    VoicesAreTheLoops
    OrderOnlyBreaksTies
PROPERTIES
    TimeOnlyExpires
    ResubmissionIdempotent
    OutcomeChangesHaveACause
CHECK_DEADLOCK FALSE
