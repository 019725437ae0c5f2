SPECIFICATION Spec
CONSTANTS
    NodeCount = 4
    MaxEdges = 4
    MaxComplex = 1
    Graphs <- MCGraphs
    Budgets = {3, 5}
    Cards <- MCCards
    Enumeration <- Enumerate
INVARIANTS IndexExact PairsExact BudgetExact StepsUndone StepsAgree FitsMinimally
