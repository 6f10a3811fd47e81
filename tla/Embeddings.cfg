SPECIFICATION LiveSpec
CONSTANTS
    m1 = m1
    m2 = m2
    r1 = r1
    r2 = r2
    Memory = {m1, m2}
    Request = {r1, r2}
    NoRequest = NoRequest
    MaxEdits = 1
    MaxTrash = 1
    MaxAborts = 1
INVARIANT VectorIsCurrent
PROPERTIES NewestClaimWins PendingSettles
CHECK_DEADLOCK FALSE
