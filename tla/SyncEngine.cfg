CONSTANTS
    empty = empty
    short = short
    long = long
    NoMessage = NoMessage
    Message <- MCMessage
    Length <- MCLength
    High <- MCHigh
    Limit = 7
    MaxMessages = 3
    MaxEdits = 2
    MaxFaults = 1
SPECIFICATION EngineFairSpec
INVARIANTS
    CursorNeverAhead
    SkippedIsExtracted
    NoSecondExtraction
PROPERTY AllArrives
