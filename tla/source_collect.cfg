CONSTANTS
    LastID = 5
    PageLimit = 2
    Limit = 2
    MaxServiceRun = 1
    MaxTitle = 2
    MaxField = 3
    MaxURL = 2
    Ellipsis = 3
    Rules = 3
    Raws <- MCRaws
    Messages <- MCMessages
    Pages <- MCPages
    NoRaw = NoRaw
SPECIFICATION SourceSpec
INVARIANTS ReturnsOldest AcceptedIsClassified FittingIsAccepted CandidatesAreComplete
PROPERTY LoopEnds
CHECK_DEADLOCK FALSE
