SPECIFICATION FairSpec
CONSTANTS
    c1 = c1
    c2 = c2
    l1 = l1
    l2 = l2
    Clients <- TwoClients
    Listeners <- TwoListeners
    Stubborn = FALSE
INVARIANTS
    TypeOK
    
 
CHECK_DEADLOCK FALSE
