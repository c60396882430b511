SPECIFICATION DisplaySpec
CONSTANTS
    NumCars = 1
    DriverLists <- MCDriverLists
    MaxTime = 2
    MaxSessions = 1
    None = None
    FlagWords <- MCFlagWords
    Heights = {0, 1}
CHECK_DEADLOCK FALSE
INVARIANT FlagsShown
