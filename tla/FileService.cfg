SPECIFICATION Spec
CONSTANTS
    Names <- AllNames
    Empty <- EmptyName
    Begins <- Prefixes
    Configs <- Sites
    Requests <- All
    StartFiles <- Files0
    StartDirs <- Dirs0
    Unreadable <- Closed
    Unwritable <- Locked
    Insecure <- Bad
    Touched <- Foreign
    Sizes <- Lengths
    Large = 3
    Buffered = 3
    Word = 32
    MaxAlloc = 16
    MaxJobs = 3
    MaxOutside = 1
    MaxStamp = 1
INVARIANTS
    TypeOK
    AnswerFaithful
    Permitted
    StoredWhole
    EndsOnly
 
CHECK_DEADLOCK FALSE
