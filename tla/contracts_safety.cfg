\* Fresh addresses as deployments produce them, write and read failures, two restarts.
CONSTANTS
    n1 = n1
    n2 = n2
    k1 = k1
    k2 = k2
    NoName = NoName
    None = None
    Addrs = {1, 2, 3}
    AbiIds = {1}
    Names <- MCNames
    Callers <- MCCallers
    LegacyFiles <- MCLegacy
    WriteErrors = TRUE
    ReadErrors = TRUE
    Reregister = FALSE
    MaxCrashes = 2
INIT Init
NEXT Next
SYMMETRY Symmetry
INVARIANT TypeOK
INVARIANT IndexAgreesWithRegistrations
CHECK_DEADLOCK FALSE
