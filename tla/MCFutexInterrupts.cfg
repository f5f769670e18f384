SPECIFICATION FairSpec
CONSTANTS
    Waiters = {w1}
    Callers = {c1}
    k1 = k1
    k2 = k2
    Futexes = {k1, k2}
    hash <- OneBucket
    Values = {v1}
    Bits = {1, 2}
    Bitsets = {{1, 2}}
    WakeCounts = {1}
    RequeueCounts = {1}
    Interrupts = {"timeout", "signal"}
    MaxStale = 1
    MaxKicks = 2
    NoThread = NoThread
    NoValue = NoValue
INVARIANTS InterruptsAreSeen OkIffWoken
PROPERTY WaiterReturns
