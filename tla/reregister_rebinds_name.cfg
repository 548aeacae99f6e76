\* An address registered again under a new name frees its old name at restart.
CONSTANTS
    n1 = n1
    n2 = n2
    k1 = k1
    k2 = k2
    NoName = NoName
    None = None
    Addrs = {1, 2, 3}
    AbiIds = {1}
    Names <- MCNames
    Callers <- MCCallers
    LegacyFiles <- MCLegacy
    WriteErrors = FALSE
    ReadErrors = FALSE
    Reregister = TRUE
    MaxCrashes = 2
INIT Init
NEXT Next
SYMMETRY Symmetry
INVARIANT NameNeverRebound
CHECK_DEADLOCK FALSE
