CONSTANTS
    Msgs = {m1, m2}
    Corruptible = {m2}
    Callbacks = {k1}
    Workers = {w1}
    Capacity = 1
    Modes = {"block", "nak", "drop", "inline"}
    MaxDeliver = 1
    MaxFaults = 1
    None = None
SPECIFICATION FairSpec
INVARIANTS
    SettledIsAccounted
    
PROPERTY EventuallySettled
CHECK_DEADLOCK FALSE
