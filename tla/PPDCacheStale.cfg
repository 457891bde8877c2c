SPECIFICATION Spec
CONSTANTS
    Queues = {"q1", "q2"}
    MaxRequests = 2
    MaxVersion = 2
    MaxFailures = 0
    NamesPersist = TRUE
INVARIANTS
    FileIsUpToDate
CHECK_DEADLOCK FALSE
