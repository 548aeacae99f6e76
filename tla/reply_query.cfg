\* The in-memory store with and without persistence configured: writes up
\* to eviction at MaxDocs, every class of query parameters, single replies.
CONSTANTS
    i1 = i1
    i2 = i2
    None = None
    Ids = {i1, i2}
    MaxDocs = 2
    QueryLimit = 2
    Nums <- MCNums
    StoreEnabled = {TRUE, FALSE}
    MaxWrites = 3
SPECIFICATION Spec
INVARIANT TypeOK EvictionKeepsNewest PageIsRequestedWindow ReplyIsNewest
