SPECIFICATION FairSpec
CONSTANTS
    NumBuf = 3
    IntMax = 9
    CommTimeout = 1
    MaxLag = 3
    MaxFrames = 4
INVARIANT TypeOK
PROPERTIES NoTornFrame InOrder Freshest FeedSpec CatchesUp CrashNoticed
