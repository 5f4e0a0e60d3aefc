\* One person's approval decides; casey approves while riley rejects.
CONSTANTS
    t1 = t1
    t2 = t2
    Tasks <- TwoTasks
    Requests <- OneRequest
    Stamps <- Noon
    PolicyOfAll <- OnePerson
    Replacement <- AnyOfThem
    Identities <- MCIdentities
    Requester = "drew"
    Ballots <- Opposed
    Wanted <- Pending
    Limit = 1
    MayFail = FALSE
    MayReplace = FALSE
    MaxCalls = 3
SYMMETRY Symmetry
SPECIFICATION Spec
INVARIANTS
    QuietViewsAgree
CHECK_DEADLOCK FALSE
