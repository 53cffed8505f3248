CONSTANTS
    Msgs = {m1, m2}
    Modes = {"sequential", "concurrent", "pool"}
    Pressures = {"block", "nak", "term"}
    Tunings = {"fixed", "circuit"}
    BatchSize = 2
    MinFetchBatch = 1
    MaxFetchBatch = 2
    OpenOnLevel = 4
    Workers = 2
    Capacity = 2
    MaxFaults = 1
    MaxOthers = 2
SPECIFICATION FairSpec
INVARIANTS
    
    NakedWhileHandled
 
CHECK_DEADLOCK FALSE
