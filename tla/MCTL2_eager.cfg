CONSTANTS
    t1 = t1
    t2 = t2
    x = x
    y = y
    v1 = v1
    v2 = v2
    Threads = {t1, t2}
    Addrs = {x, y}
    Vals = {v1, v2}
    Locks = {x, y}
    LockOf <- MCLockPerWord
    StoresTo <- MCOneWriter
    Again = {y}
    RdSetSize = 1
    MaxClock = 2
    MaxReads <- MCReads
    MaxWrites = 2
    NoThread = NoThread
    NoVal = NoVal
    NoAddr = NoAddr
SYMMETRY Symmetry
SPECIFICATION MCSpec
INVARIANTS TL2TypeOK LockedByEntries FreeWordsCommitted NobodyElsesLock
PROPERTIES FreeLoadsSnapshot TL2Atomic
