SPECIFICATION FairSpec
CONSTANTS
    c1 = c1
    c2 = c2
    c3 = c3
    Controllers <- MCControllers
    Stopper = c1
    Free = Free
INVARIANTS TypeOK NoFault RunningIsAlive
PROPERTIES StopStops StopReturns
