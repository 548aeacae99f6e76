\* Document-store persistence, transient write failures, a panic or restart,
\* redelivery-prevented and malformed replies; no symmetry (liveness).
CONSTANTS
    i1 = i1
    i2 = i2
    h1 = h1
    h2 = h2
    None = None
    Ids <- MCIds
    Handlers <- MCHandlers
    ReplyTypes = {"TransactionSuccess", "TransactionFailure"}
    Persistence = "mongo"
    MaxDocs = 0
    ReadErrors = FALSE
    WriteErrors = TRUE
    RetryLimit = 1
    MaxRequests = 3
    MaxExtraReplies = 1
    MaxCrashes = 1
SPECIFICATION Spec
INVARIANT TypeOK
PROPERTY ReceiptLifecycle ReceiptEventuallyTerminal
CHECK_DEADLOCK FALSE
