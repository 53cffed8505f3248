CONSTANTS
    Calls = {c1}
    Workers = {w1}
    Stoppers = {s1}
    BufLen = 1
    Nil = Nil
SPECIFICATION ParentSpec
INVARIANT NoSendAfterStop
CHECK_DEADLOCK FALSE
