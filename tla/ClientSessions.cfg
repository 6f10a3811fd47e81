CONSTANTS
    Call = {c1, c2, c3}
    MaxRequests = 2
    MaxDeletes = 2
    MaxFaults = 2
SPECIFICATION SessionsSpec
INVARIANTS
    CountMatches
    NoPhantomUpload
CHECK_DEADLOCK FALSE
