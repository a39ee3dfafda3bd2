SPECIFICATION Spec
CONSTANTS
    Processes <- MCProcesses
    HeadOf <- RustOnly
INVARIANTS
    OneInstance
    DeviceIdStable
CHECK_DEADLOCK FALSE
