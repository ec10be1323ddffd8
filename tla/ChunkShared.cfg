SPECIFICATION Spec
CONSTANTS
    c1 = c1
    c2 = c2
    Conns <- TwoConns
    Kinds <- TwoChunk
    MaxRequests = 1
    Pipelined <- NoKinds
    Hangups = FALSE
    MaxBuffer = 40
    MaxHeader = 6
INVARIANT TransferComplete
