SPECIFICATION FairSpec
CONSTANTS
    p1 = p1
    p2 = p2
    q1 = q1
    q2 = q2
    NoConn = NoConn
    NoRun = NoRun
    Free = Free
    Leaked = Leaked
    Peers <- TwoPeers
    Runs <- OneRun
    MaxFd = 5
    MaxLeft = 1
    Methods <- PostOnly
    Inputs <- CgiInput
    AddFails = TRUE
PROPERTY GoneReleased
