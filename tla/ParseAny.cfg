SPECIFICATION Spec
CONSTANTS
    c1 = c1
    c2 = c2
    Conns <- OneConn
    Kinds <- AllKinds
    Pipelined <- PlainKinds
    MaxRequests = 3
    Hangups = TRUE
    MaxBuffer = 26
    MaxHeader = 3
INVARIANTS
    TypeOK
    
    RefusalDeserved
    NothingStuck
CHECK_DEADLOCK FALSE
