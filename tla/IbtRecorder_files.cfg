SPECIFICATION Spec
CONSTANTS
    Layouts = {short, long}
    Frames <- MCFrames
    InCarOnly = TRUE
    MaxRuns = 2
    MaxSamples = 2
    MaxFiles = 2
    None = None
SYMMETRY Lengths
INVARIANTS TypeOK FilesDescribed OneRun Converted
