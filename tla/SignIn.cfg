CONSTANTS
    Request = {r1, r2}
    Attempt = {a1}
    None = None
    EnvProvider = {}
    MaxSaves = 3
SPECIFICATION Spec
SYMMETRY Symmetry
INVARIANTS
    AttemptIsSingleUse
    SavedIsInForce
CHECK_DEADLOCK FALSE
