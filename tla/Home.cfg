SPECIFICATION Spec
CONSTANTS
    Calls = {c1, c2}
    Members = {"owner", "a", "b"}
    Owner = "owner"
    Messages = {"pause", "resume", "revoke", "claimA", "claimB", "releaseA", "hold"}
    Said <- MCSaid
    NoOne = NoOne
    MaxLen = 3
SYMMETRY Symmetric
INVARIANTS
    OnePlace
    
    
    PausedTakesControlOnly
    
