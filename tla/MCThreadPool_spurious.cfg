CONSTANTS
    N = 2
    MaxStarts = 2
    SpuriousAt = {"pairWait", "allWait"}
SPECIFICATION Spec
PROPERTY IsBarrier
