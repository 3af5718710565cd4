SPECIFICATION MCSpec
CONSTANTS
    Messages = {1, 2}
    Senders = {1, 2}
    SenderOf <- MCSenderOf
    UnknownMin = 2
    NoOne = NoOne
    Flush = Flush
    MaxOrphans = 1
    MaxRetries = 1
INVARIANTS
    PlacedOnce
    AccountedForOnce
    DeliveredIsReplicated

    
