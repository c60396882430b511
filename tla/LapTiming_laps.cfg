SPECIFICATION Spec
CONSTANTS
    NumCars = 2
    DriverLists <- MCDriverLists
    MaxTime = 5
    MaxSessions = 2
    None = None
INVARIANTS TypeOK LapsTrue TableOfConnection
