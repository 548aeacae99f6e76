\* Two streams, two connections, disconnects, an interrupt and server shutdown on one topic.
CONSTANTS
    s1 = s1
    s2 = s2
    c1 = c1
    c2 = c2
    None = None
    Streams <- MCStreams
    Conns <- MCConns
    MaxBatch = 1
    MaxInterrupts = 1
SPECIFICATION Spec
INVARIANT TypeOK
PROPERTY WaiterReleasedOnDisconnect
CHECK_DEADLOCK FALSE
