SPECIFICATION FairSpec
CONSTANTS
    Queues = {"q1", "q2"}
    MaxRequests = 3
    MaxVersion = 2
    MaxFailures = 1
    NamesPersist = TRUE
INVARIANTS
    TypeOK
    QueueIsServed
    OneWindowWithoutFailures
    
    

    
CHECK_DEADLOCK FALSE
