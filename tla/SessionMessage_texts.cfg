SPECIFICATION MessageSpec
CONSTANTS
    Holders <- MCHolders
    Documents <- MCDocuments
    Updates <- MCUpdates
    MaxVersion = 2
    NoMessage = NoMessage
INVARIANTS MessageSays FailsOnlyOnNeeded CountOfMessage
