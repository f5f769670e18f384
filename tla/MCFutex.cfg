SPECIFICATION Spec
CONSTANTS
    Waiters = {w1, w2}
    Callers = {c1}
    k1 = k1
    k2 = k2
    Futexes = {k1, k2}
    hash <- TwoBuckets
    Values = {v1, v2}
    Bits = {1, 2}
    Bitsets = {{1, 2}, {1}}
    WakeCounts = {1}
    RequeueCounts = {1}
    Interrupts = {}
    MaxStale = 1
    MaxKicks = 1
    NoThread = NoThread
    NoValue = NoValue
SYMMETRY Symmetry
INVARIANTS TypeOK NoLostWakeup WaitersAreFindable
