CONSTANTS
    Workers = {w1, w2, w3}
    MaxFaults = 2
    MaxExpiries = 1
SPECIFICATION FairSpec
INVARIANTS
    AckedWasHandled
    ExclusiveOwner
    DuplicatesArePaidFor
PROPERTY EventuallyAcked
CHECK_DEADLOCK FALSE
