CONSTANTS
    Tables <- MCTables
    TableOf <- MCTableOf
    FILE_POOL_SIZE = 3
    INDEX_POOL_SIZE = 2
    tot_num = 10
    MaxCrashes = 2
SPECIFICATION Spec
INVARIANTS
    CatalogueInv
    CreatedTablesSurvive
    StartsAgain
PROPERTY FailedIndexLeavesNothing
