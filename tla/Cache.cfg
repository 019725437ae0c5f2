SPECIFICATION Spec
CONSTANTS
    k1 = k1
    k2 = k2
    Keys = {k1, k2}
    Objects = {o1, o2}
    Accessors = {a1, a2}
    NumBuckets = 2
    BucketOf <- MCBucketOf
    GClockInit = 2
    Quotas = {0, 1}
    Sizes = {1, 2}
    MaxBytes = 2
    MaxRefs = 1
    Word = 8
    Hand = Hand
    None = None
INVARIANTS HandReady UniqueKeys
SYMMETRY Symmetry
PROPERTIES PinsRespected PassesCountDown EvictionProgresses
