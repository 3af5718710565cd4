SPECIFICATION KeepFairSpec
CONSTANTS
    owner = owner
    worker = worker
    away = away
    here = here
    Members = {owner, worker}
    Home = owner
    Messages = {away, here}
    From <- MCFrom
    To <- MCTo
    Everyone = Everyone
    Blobs = {file}
    BlobOf <- MCBlobOf
    KeepDays = 1
    MaxDays = 2
    MaxLost = 1
PROPERTIES
    UnreadStays
    
CHECK_DEADLOCK FALSE
