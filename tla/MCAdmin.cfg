\* Streams of up to five sequence numbers with every pattern of gaps; two operations of
\* two clients with a failed request and a call left behind; five names of which two come
\* or go during a listing; a message that is dead-lettered and redriven, with a failed
\* call and a duplicate window that passes; two requests and two responders.
SPECIFICATION Spec
SYMMETRY Symmetry
CONSTANTS
    Sides = {"replay", "provision", "listing", "journey", "exchange"}
    Jobs = {"first", "last", "range", "redrive"}
    MaxSeq = 5
    MaxPrevWalk = 3
    MaxMessages = 2
    Matching = {1, 3, 4, 5}
    MaxDeletes = 2
    Admins = {a1, a2}
    Operations = {"reset", "ensure", "setup", "multi"}
    Replicas = {0, 2}
    MaxOperations = 2
    MaxFaults = 1
    MaxAbandoned = 1
    Names = {1, 2, 3, 4, 5}
    Limits = {0, 1, 2}
    MaxChanges = 2
    Modes = {"off", "auto"}
    CallerSets = {"", "gzip", "zstd"}
    MaxDeliver = 1
    MaxDeliveries = 2
    MaxCopies = 2
    MaxJourneyFaults = 1
    MaxExpiries = 1
    Requests = {q1, q2}
    Responders = {r1, r2}
INVARIANTS
    SearchIsRight
    WalksSkipNothing
    
    SetupOwnsItsSubscription
    
    
    NothingIsLost
    
 
CHECK_DEADLOCK FALSE
