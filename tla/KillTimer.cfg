SPECIFICATION FairSpec
CONSTANTS
    Timeout = 10
    MaxId = 4
    MaxHolds = 6
    KillFuncs = {"NULL", "gtk_main_quit"}
INVARIANTS
    TypeOK
    OneSourceIffIdle
PROPERTIES
    FullGracePeriod
    IdleIsNoticed
    ImplementsIdleMonitor
CHECK_DEADLOCK FALSE
