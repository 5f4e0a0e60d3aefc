\* Two tasks create, decide and rebuild two requests, whose policy may be
\* replaced; pages of one row.
CONSTANTS
    t1 = t1
    t2 = t2
    Tasks <- TwoTasks
    Requests <- TwoRequests
    Stamps <- TwoStamps
    PolicyOfAll <- TwoPersons
    Replacement <- AnyOfThem
    Identities <- MCIdentities
    Requester = "drew"
    Ballots <- Approvals
    Wanted <- Pending
    Limit = 1
    MayFail = TRUE
    MayReplace = TRUE
    MaxCalls = 4
SYMMETRY Symmetry
SPECIFICATION Spec
INVARIANTS
    TypeOK
    NobodyAskedTwice
    QuietViewsAreComplete
    PagesExact
CHECK_DEADLOCK FALSE
