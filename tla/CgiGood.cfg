SPECIFICATION Spec
CONSTANTS
    c1 = c1
    Clients <- OneClient
    Scripts <- GoodScripts
    PipeCap = 2
    DrainReads = 2
    ReadCap = 3
    MaxEvents = 10
    StartResults <- OneStart
    RetryResults <- NoStart
    ClientActs <- NoActs
INVARIANT GoodScriptDelivered
