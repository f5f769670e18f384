SPECIFICATION FairSpec
CONSTANTS
    Threads = {t1, t2, t3}
    MaxReader = 4
    TryModes = {}
    NoThread = NoThread
INVARIANTS NoLostWakeup ReadersSleepForWriters
PROPERTY CallerIsServed
