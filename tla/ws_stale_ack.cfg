\* A stale ack completes a later batch: attemptBatch cannot tell acks apart.
CONSTANTS
    s1 = s1
    s2 = s2
    c1 = c1
    c2 = c2
    None = None
    Streams <- MCStreams
    Conns <- MCConns
    MaxBatch = 2
    MaxInterrupts = 1
INIT Init
NEXT Next
SYMMETRY Symmetry
INVARIANT AdvanceOnlyAfterAck
CHECK_DEADLOCK FALSE
