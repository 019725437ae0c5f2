SPECIFICATION Spec
CONSTANTS
    Keys = {k1, k2, ctas}
    CtasKeys = {ctas}
    Orders = {"query", "greedy", "exhaustive2"}
    Exhaustive = {"exhaustive2"}
    Greedy = "greedy"
    MaxDepth = 3
    MaxFetch = 2
    MaxInval = 2
    None = None
    Dead = Dead
INVARIANT JoinOrderRestored
