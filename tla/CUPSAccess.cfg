SPECIFICATION Spec
CONSTANTS
    MaxNodes = 3
    Hosts = {"localhost"}
    Ports = {0, 80}
    PrinterAnswers <- MCPrinterAnswers
    DeviceAnswers <- MCDeviceAnswers
INVARIANTS
    TypeOK
    CacheIsComplete
    EndsOnlyIfDisturbed
    
    TablesAreRecords

    
CHECK_DEADLOCK FALSE
