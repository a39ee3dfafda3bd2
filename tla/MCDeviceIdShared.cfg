SPECIFICATION Spec
CONSTANTS
    Processes <- MCProcesses
    HeadOf <- BothHeads
INVARIANTS
    DeviceIdStable
CHECK_DEADLOCK FALSE
