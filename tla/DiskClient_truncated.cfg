SPECIFICATION Spec
CONSTANTS
    Count = 3
    FirstTick = 5
    Truncated = TRUE
PROPERTIES NextReadsSample
