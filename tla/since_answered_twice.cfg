\* getReplies and getReply with a store configured.
CONSTANTS
    i1 = i1
    i2 = i2
    None = None
    Ids = {i1, i2}
    MaxDocs = 2
    QueryLimit = 2
    Nums <- MCNums
    StoreEnabled = {TRUE}
    MaxWrites = 1
SPECIFICATION Spec
INVARIANT OneResponse
