CONSTANTS
    RequireAuth = TRUE
    Loads = {r1, r2}
    MaxVersion = 2
    MaxListFaults = 2
SPECIFICATION ListSpec
INVARIANTS ListTypeOK ListCurrent
