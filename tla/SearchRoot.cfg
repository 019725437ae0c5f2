SPECIFICATION SearchSpec
CONSTANTS
    Ops <- JoinOps
    Arity <- MCArity
    Sem <- MCSem
    Columns <- MCColumns
    BucketOf <- MCBucketOf
    Query <- JoinQuery
    MaxGroups = 5
    MaxGExprs = 7
    MaxStages = 1
    MaxResults = 1
INVARIANT RootOptimized
