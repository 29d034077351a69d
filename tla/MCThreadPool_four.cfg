CONSTANTS
    N = 4
    MaxStarts = 2
    SpuriousAt = {"pairWait"}
SPECIFICATION FairSpec
INVARIANTS TypeOK EverybodyRan
PROPERTIES IsBarrier PoolEnds
