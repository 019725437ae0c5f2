SPECIFICATION SearchSpec
CONSTANTS
    Ops <- FilterOps
    Arity <- MCArity
    Sem <- MCSem
    Columns <- MCColumns
    BucketOf <- MCBucketOf
    Query <- FilterQuery
    MaxGroups = 6
    MaxGExprs = 8
    MaxStages = 1
    MaxResults = 2
INVARIANT NoJobLeft
