SPECIFICATION FairSpec
CONSTANTS
    one = one
    two = two
    three = three
    same = same
    other = other
    c1 = c1
    c2 = c2
    Uploads = {one, two, three}
    Files = {same, other}
    FileOf <- MCFileOf
    Size <- MCSize
    RoomBytes = 2
    Calls = {c1, c2}
    MaxFaults = 1

    
    
PROPERTIES
    UploadEnds
CHECK_DEADLOCK FALSE
