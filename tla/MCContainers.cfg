CONSTANTS
    Items = {1, 2}
    Null = Null
    Junk = Junk
    InitCapacities = {0, 3}
    MaxItems = 3
    HeapKeys = {1, 2, 3}
    NoKey = NoKey
    HeapCapacities = {0, 3}
    MaxHeap = 6
    Pairs <- MCPairs
    Nil = Nil
    ListPairs <- MCListPairs
    ListNil = ListNil
    ListNodes = {1, 2, 3, 4}
    ListHead = ListHead
    TreeNodes = {1, 2, 3, 4, 5, 6, 7, 8, 9}
    PoolThreads = {1}
    InitCapacity = 24
    GrowthFactor = 2
    Requests = {1, 9, 70}
    MaxBlocks = 2
    Keys = {0, 1, 2, 3, 4, 5, 6, 7}
    HashA <- MCHashA
    HashB <- MCHashB
    NumHashes = 3
    Size = 11
    WordSize = 16
VIEW MCView
SPECIFICATION MCSpec
INVARIANTS QueueTypeOK HeapValid BlocksWithinCapacity ChunksApart ListWellFormed TreeBalanced TreeKeepsNodes BitsOfWriteSet LookupExact
PROPERTIES QueueIsFifo HeapIsPriorityQueue ListIsMap TreeIsMap
