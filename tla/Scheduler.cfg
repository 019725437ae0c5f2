SPECIFICATION FairSpec
CONSTANTS
    q1 = q1
    q2 = q2
    Jobs = {j1, j2, j3}
    Queues = {q1, q2}
    None = None
    Level <- MCLevel
    MaxSuspends = 2
INVARIANTS RefsExact UniqueExecution NothingStranded ContendedOnlyInCycle
PROPERTIES ReleasedInOrder RunTerminates
CHECK_DEADLOCK FALSE
