\* A transient GetReceipt failure in the redelivery-prevented branch.
CONSTANTS
    i1 = i1
    i2 = i2
    h1 = h1
    h2 = h2
    None = None
    Ids <- MCIds
    Handlers <- MCHandlers
    ReplyTypes = {"TransactionSuccess"}
    Persistence = "mongo"
    MaxDocs = 0
    ReadErrors = TRUE
    WriteErrors = FALSE
    RetryLimit = 1
    MaxRequests = 2
    MaxExtraReplies = 1
    MaxCrashes = 0
INIT Init
NEXT Next
SYMMETRY Symmetry
PROPERTY RedeliveryKeepsTerminal
CHECK_DEADLOCK FALSE
