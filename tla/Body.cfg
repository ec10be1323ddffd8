SPECIFICATION FairSpec
CONSTANTS
    MaxBody = 8
    MaxOutput = 6
    Cap = 3
    Habits <- AllHabits
INVARIANTS
    TypeOK
    WholeBody
    NeverStuck
PROPERTY ServerReturns
CHECK_DEADLOCK FALSE
