SPECIFICATION TellingSpec
CONSTANTS
    a = a
    b = b
    Readers = {a}
    Others = {b}
    MaxAttempts = 2
    MaxSeq = 2
    MaxReplays = 1
    MaxNews = 2
    Quiet = 1
    MaxGather = 2
    MinGap = 2
    RenudgeSteps <- RenudgeAfter
    HourlyCap = 2
    Hour = 7
    Backoff <- Retries
    TickWait = 2
    ExecTimeout = 1
INVARIANTS
    NudgesAreSpaced
    SleepsOnlyOnSeen
PROPERTIES
    EveryMessageIsTold
    KeepsReminding
    NewMessageEndsWait
CHECK_DEADLOCK FALSE
