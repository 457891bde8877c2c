SPECIFICATION FairSpec
CONSTANTS
    Timeout = 1
    MaxId = 2
    MaxCalls = 4
    FlagValues = {TRUE, FALSE}
INVARIANTS
    TypeOK
    
    PathSupportsInterface
    UndisturbedCallGetsItsDialog
PROPERTIES
    EveryCallAnswered
    ImplementsPrintingService
CHECK_DEADLOCK FALSE
