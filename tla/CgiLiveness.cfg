SPECIFICATION FairSpec
CONSTANTS
    c1 = c1
    Clients <- OneClient
    Scripts <- AllScripts
    PipeCap = 2
    DrainReads = 2
    ReadCap = 3
    MaxEvents = 10
    StartResults <- AllStarts
    RetryResults <- NoStart
    ClientActs <- AllActs
INVARIANT NoProcessLeft
PROPERTIES
    
    ServerReturns
    ZombiesReaped
    
