CONSTANTS
    MaxFailures = 3
    MaxExtra = 1
SPECIFICATION FairSpec
INVARIANT PauseIsLifted
