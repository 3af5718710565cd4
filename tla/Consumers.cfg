SPECIFICATION ConsumersSpec
CONSTANTS
    Readers = {me}
    Others = {them}
    Me = me
    Them = them
    Kinds = {"next", "exec", "deliver", "slack", "teams", "buzz"}
    MaxAttempts = 2
    MaxSeq = 2
    MaxReplays = 0
    OwnIds = 2
    MaxHuman = 1
    MaxTeams = 1
    MaxStops = 1
    MaxTokens = 2
INVARIANTS
    AckedReachedOutside
    LinkSkipsNothing

    
CHECK_DEADLOCK FALSE
