SPECIFICATION FairSpec
CONSTANTS
    MaxSeq = 4
    Batch = 2
    MaxCuts = 1
INVARIANTS
    CopyIsPrefix

    
    
CHECK_DEADLOCK FALSE
