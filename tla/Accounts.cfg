CONSTANTS
    User = {a, b}
    Admin = a
    Request = {r1, r2}
    Session = {s1, s2}
    None = None
    Threshold = 2
    MaxVersions = 2
    MaxGuesses = 2
SPECIFICATION Spec
SYMMETRY Symmetry
INVARIANTS
    OldPasswordIsDead
    EveryGuessCounts
PROPERTIES
    AnotherAdminRemains
CHECK_DEADLOCK FALSE
