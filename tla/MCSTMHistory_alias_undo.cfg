CONSTANTS
    t1 = t1
    t2 = t2
    x = x
    y = y
    h = h
    Threads = {t1, t2}
    Addrs = {x, y}
    Heap = {}
    Vals = {0, 1}
    Locks = {x}
    LockOf <- MCOneLock
    MaxTx = 2
    MaxDepth = 1
    NoEntry = NoEntry
    NoVal = NoVal
    NoAddr = NoAddr
    NoThread = NoThread
SYMMETRY Symmetry
SPECIFICATION HSpec
INVARIANT QuiescentMemoryCommitted
