SPECIFICATION Spec
CONSTANTS
    Inputs <- AllInputs
    MAX_PAYLOAD_BYTES = 16
    MAX_JSON_DEPTH = 2
INVARIANTS
    DepthVerdict
    AcceptedHasKeys
CHECK_DEADLOCK FALSE
