\* The job-worker configuration: BackpressureNak with a dead-letter wrapper,
\* no fault, and an AckWait that never expires early or late.
CONSTANTS
    Msgs = {m1, m2}
    Corruptible = {}
    Callbacks = {k1}
    Workers = {w1}
    Capacity = 1
    Modes = {"nak"}
    MaxDeliver = 1
    MaxFaults = 0
    None = None
SPECIFICATION Spec
INVARIANT NHandlerAttempts
CHECK_DEADLOCK FALSE
