\* A transient failure of the accepted write, then the same id submitted again.
CONSTANTS
    i1 = i1
    i2 = i2
    h1 = h1
    h2 = h2
    None = None
    Ids <- MCIds
    Handlers <- MCHandlers
    ReplyTypes = {"TransactionSuccess"}
    Persistence = "mongo"
    MaxDocs = 0
    ReadErrors = FALSE
    WriteErrors = TRUE
    RetryLimit = 1
    MaxRequests = 2
    MaxExtraReplies = 0
    MaxCrashes = 0
INIT Init
NEXT Next
SYMMETRY Symmetry
INVARIANT AdmitOnce
CHECK_DEADLOCK FALSE
