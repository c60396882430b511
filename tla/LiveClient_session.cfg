SPECIFICATION FairSpec
CONSTANTS
    Layouts <- MCLayouts
    MaxRuns = 2
    MaxCount = 3
    None = None
INVARIANTS TypeOK FrameOfRun SessionOfRun
PROPERTIES SessionCurrent
