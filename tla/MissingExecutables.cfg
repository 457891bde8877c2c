SPECIFICATION Spec
CONSTANTS
    PPDs <- MCPPDs
    Commands <- MCCommands
    Executables <- MCExecutables
    MaxCalls = 2
    NoCommandLine = NoCommandLine
    Unsafe = Unsafe
    Malformed = Malformed
    NoPath = NoPath
    Found = Found
    Uninitialised = Uninitialised
INVARIANTS
    TypeOK
    
    EmptyReportMeansComplete
CHECK_DEADLOCK FALSE
