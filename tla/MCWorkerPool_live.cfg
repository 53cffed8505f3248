\* A sender with no buffer to hide in, two workers that wait on each other's
\* counters, two stoppers.
CONSTANTS
    Calls = {c1}
    Workers = {w1, w2}
    Stoppers = {s1, s2}
    BufLen = 0
    Nil = Nil
SPECIFICATION FairSpec
PROPERTIES
    StopReturns
    
CHECK_DEADLOCK FALSE
