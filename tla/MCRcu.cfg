SPECIFICATION FairSpec
CONSTANTS
    CPUs = {c1, c2}
    Tasks = {t1, t2}
    Slots = {s1, s2}
    Objects = {o1, o2}
    Null = Null
    NoGuard = NoGuard
    Unread = Unread
    Consumed = Consumed
INVARIANTS TypeOK NoUseAfterFree DroppedOnce NoStrandedCallbacks RcuInv
PROPERTY DropsHappen
