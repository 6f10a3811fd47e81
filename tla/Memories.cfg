CONSTANTS
    Memory = {m1, m2}
    Conflict = {c1}
    Request = {r1, r2}
    None = None
    Text = {1, 2}
    Role = {2, 4}
    MaxMemories = {1, 2}
    MaxBytes = {2}
    Total = 2
    MaxVersions = 4
SPECIFICATION Spec
SYMMETRY Symmetry
INVARIANTS
    ImportTellsTheTruth
PROPERTIES
    QuotaHolds
    HistoryIsKept
    WritesNeedTheRole
    DecidedOnce
CHECK_DEADLOCK FALSE
