SPECIFICATION Spec
CONSTANTS
    NodeCount = 5
    MaxEdges = 3
    MaxComplex = 0
    Graphs <- MCCuts
    Budgets = {40}
    Cards <- MCCards
    Enumeration <- Enumerate
INVARIANT EveryCut
