SPECIFICATION FairSpec
CONSTANTS
    Timeout = 1
    MaxId = 2
    MaxRequests = 3
    MaxHeld = 2
    MaxStops = 2
    Devices = {"d1"}
    DirectUris = {"usb", "raw"}
    ShortUris = {"short"}
    FullUris = {"dnssd1", "dnssd2"}
    NamelessUris = {"raw", "short"}
INVARIANTS
    TypeOK
    HoldsBalance
    NamesAccounted
PROPERTIES
    GroupingEndsIfLoopReturns
CHECK_DEADLOCK FALSE
