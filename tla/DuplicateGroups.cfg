SPECIFICATION FairSpec
CONSTANT N = 5
INVARIANTS LinksAscend ClassesExact MarkedIsRecognised
PROPERTY MarkReturns
