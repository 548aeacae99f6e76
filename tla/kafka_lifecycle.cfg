\* connectMongoDB with and without a URL, Start with failing steps, two
\* produced messages, three replies of which two share a requestId and one is
\* dropped, failing inserts, shutdown.
CONSTANTS
    i1 = i1
    i2 = i2
    r1 = r1
    r2 = r2
    r3 = r3
    q1 = q1
    q2 = q2
    NoId = NoId
    None = None
    Ids <- MCIds
    Requests <- MCRequests
    ReplyId <- MCReplyId
    BusReplies <- MCBusReplies
    StartErrors = TRUE
    FileErrors = TRUE
    InsertErrors = TRUE
    MongoURLSet = {TRUE, FALSE}
SPECIFICATION Spec
INVARIANT TypeOK
INVARIANT ReturnedAfterLoops
INVARIANT AllProducedReported
PROPERTY ShutdownTerminates
CHECK_DEADLOCK FALSE
