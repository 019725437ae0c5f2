SPECIFICATION FairSpec
CONSTANTS
    Ops <- FilterOps
    Arity <- MCArity
    Sem <- MCSem
    Columns <- MCColumns
    BucketOf <- MCBucketOf
    Query <- FilterQuery
    MaxGroups = 6
    MaxGExprs = 8
    MaxStages = 2
INVARIANTS SameMeaning CountsExact TableCurrent MergeComplete NoAlternativeLost
PROPERTY MergeTerminates
