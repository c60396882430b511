SPECIFICATION FairSpec
CONSTANTS
    Count = 3
    FirstTick = 5
    Truncated = TRUE
INVARIANTS TypeOK 
PROPERTIES PlaysBack FindsFirst RunInOrder LoopsEnd
