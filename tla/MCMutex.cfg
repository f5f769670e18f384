SPECIFICATION FairSpec
CONSTANTS
    Threads = {t1, t2, t3}
    WakersPerThread = 2
    Wakers <- MCWakers
    task <- MCTask
    NoThread = NoThread
    NoWaker = NoWaker
INVARIANTS TypeOK Exclusion NoLostWakeup WakeupInv
PROPERTIES ImplementsAbstractMutex LockerIsServed
