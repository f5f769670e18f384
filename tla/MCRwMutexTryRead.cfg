SPECIFICATION Spec
CONSTANTS
    Threads = {t1, t2, t3}
    MaxReader = 4
    TryModes = {"read"}
    NoThread = NoThread
INVARIANT NoLostWakeup
