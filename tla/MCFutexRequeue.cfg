SPECIFICATION TeamSpec
CONSTANTS
    Waiters = {w1, w2, w3}
    Callers = {c1, c2}
    k1 = k1
    k2 = k2
    Futexes = {k1, k2}
    hash <- TwoBuckets
    Values = {v1}
    Bits = {1, 2}
    Bitsets = {{1, 2}}
    WakeCounts = {1}
    RequeueCounts = {0, 1}
    Interrupts = {}
    MaxStale = 1
    MaxKicks = 1
    NoThread = NoThread
    NoValue = NoValue
SYMMETRY WaiterSymmetry
INVARIANT NoCircularWait
PROPERTY RequeueIsBounded
