SPECIFICATION Spec
CONSTANTS
    Helpers = {h1, h2, h3}
    Clients = {c1, c2}
    None = None
    MaxCrashes = 0
SYMMETRY Symmetry
CHECK_DEADLOCK FALSE
INVARIANTS
    NeverTwice
