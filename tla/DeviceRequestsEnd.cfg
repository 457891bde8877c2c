SPECIFICATION FairSpec
CONSTANTS
    Timeout = 1
    MaxId = 2
    MaxRequests = 2
    MaxHeld = 0
    MaxStops = 1
    Devices = {"d1", "d2"}
    DirectUris = {"usb", "raw"}
    ShortUris = {"short"}
    FullUris = {"dnssd1"}
    NamelessUris = {"raw", "short"}
PROPERTIES
    GroupingEnds
CHECK_DEADLOCK FALSE
