SPECIFICATION Spec
CONSTANTS
    Threads = {t1, t2, t3}
    MaxReader = 4
    TryModes = {"read", "write", "upread"}
    NoThread = NoThread
INVARIANTS TypeOK Exclusion WordIsAccountedFor
