CONSTANTS
    Request = {r1, r2, r3}
    Op = {k1}
    MaxConcurrent = 1
SPECIFICATION TimerSpec
INVARIANTS
    WorkIsBounded
    DatabaseOutlivesWork
PROPERTIES
    AbandonedSlotsReturn
    ShutdownEnds
CHECK_DEADLOCK FALSE
