\* Document-store persistence without failures or restarts: concurrent and
\* repeated submissions of the same ids, replies racing the accepted write.
CONSTANTS
    i1 = i1
    i2 = i2
    h1 = h1
    h2 = h2
    None = None
    Ids <- MCIds
    Handlers <- MCHandlers
    ReplyTypes = {"TransactionSuccess", "Error"}
    Persistence = "mongo"
    MaxDocs = 0
    ReadErrors = TRUE
    WriteErrors = FALSE
    RetryLimit = 1
    MaxRequests = 5
    MaxExtraReplies = 1
    MaxCrashes = 0
INIT Init
NEXT Next
SYMMETRY Symmetry
INVARIANT AdmitOnce
CHECK_DEADLOCK FALSE
