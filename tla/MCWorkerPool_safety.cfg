\* Two workers, two publishers, one buffer slot, two stoppers: a full buffer,
\* a blocked sender and a stop all meet.
CONSTANTS
    Calls = {c1, c2}
    Workers = {w1, w2}
    Stoppers = {s1, s2}
    BufLen = 1
    Nil = Nil
SPECIFICATION Spec
SYMMETRY Symmetry
PROPERTY ImplementsContract
CHECK_DEADLOCK FALSE
