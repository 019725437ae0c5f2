SPECIFICATION FairSpec
CONSTANTS NumObjs = 4
          MaxExtra = 2
PROPERTIES PoolSpec RetrieveReturns
