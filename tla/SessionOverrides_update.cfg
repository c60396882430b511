SPECIFICATION Spec
CONSTANTS
    MaxTick = 3
    MaxFiles = 3
    NoTick = 9
    None = None
INVARIANTS TypeOK InForce TextOfMessage
CHECK_DEADLOCK FALSE
