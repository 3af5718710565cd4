SPECIFICATION FairSpec
CONSTANTS
    Readers = {a}
    Others = {b}
    MaxAttempts = 2
    MaxSeq = 3
    MaxReplays = 1
INVARIANTS
    BookmarkSkipsNothing
    TakenStaysTaken
    
PROPERTIES
    KeepsPromise
    OwedIsSettled
