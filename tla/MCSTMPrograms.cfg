CONSTANTS
    t1 = t1
    t2 = t2
    x = x
    y = y
    h = h
    u = u
    v = v
    Threads = {t1, t2}
    Addrs = {x, y, h}
    Heap = {h}
    Vals = {u, v}
    Locks = {x, y, h}
    LockOf <- MCLockPerWord
    MaxTx = 2
    MaxDepth = 2
    NoEntry = NoEntry
    NoVal = NoVal
    NoAddr = NoAddr
    NoThread = NoThread
SYMMETRY Symmetry
SPECIFICATION MCSpec
INVARIANTS HTypeOK QuiescentMemoryKept
PROPERTIES GuardedReadsCurrent
