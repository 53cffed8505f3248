\* The search alone, on streams with gaps that lose nothing meanwhile.
SPECIFICATION Spec
CONSTANTS
    Sides = {"replay"}
    Jobs = {"first", "last"}
    MaxSeq = 4
    MaxPrevWalk = 4
    MaxMessages = 2
    Matching = {}
    MaxDeletes = 0
    Admins = {a1}
    Operations = {"reset"}
    Replicas = {0}
    MaxOperations = 1
    MaxFaults = 0
    MaxAbandoned = 0
    Names = {}
    Limits = {0}
    MaxChanges = 0
    Modes = {"off"}
    CallerSets = {""}
    MaxDeliver = 1
    MaxDeliveries = 1
    MaxCopies = 1
    MaxJourneyFaults = 0
    MaxExpiries = 0
    Requests = {q1}
    Responders = {r1}
INVARIANT SearchIsBounded
CHECK_DEADLOCK FALSE
