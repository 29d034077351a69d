CONSTANTS
    t1 = t1
    t2 = t2
    x = x
    y = y
    v1 = v1
    v2 = v2
    Threads = {t1, t2}
    Addrs = {x, y}
    Vals = {v1, v2}
    Locks = {x, y}
    LockOf <- MCLockPerWord
    StoresTo <- MCEverybody
    Again = {x, y}
    RdSetSize = 1
    MaxClock = 2
    MaxReads <- MCNoReads
    MaxWrites = 2
    NoThread = NoThread
    NoVal = NoVal
    NoAddr = NoAddr
SYMMETRY Symmetry
SPECIFICATION TL2Spec
INVARIANT NobodyElsesLock
