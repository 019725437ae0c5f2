SPECIFICATION FairSearchSpec
CONSTANTS
    Ops <- FilterOps
    Arity <- MCArity
    Sem <- MCSem
    Columns <- MCColumns
    BucketOf <- MCBucketOf
    Query <- FilterQuery
    MaxGroups = 5
    MaxGExprs = 7
    MaxStages = 2
    MaxResults = 1
INVARIANTS SearchTypeOK ExploredThroughout StageComplete StateBefore NoMutualWait Extractable
PROPERTY StageEnds
