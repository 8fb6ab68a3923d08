CONSTANTS
 Keys = {1,2,3,4,5,6,7,8}
 Rids = {0}
 Order = 3
 Readers = {r1}
 Ranges <- MCRanges
 Files <- MCFiles
 LoadsAppend = TRUE
 MaxPages = 8
 MaxOverlap = 1
SPECIFICATION Spec
CHECK_DEADLOCK FALSE
INVARIANTS TreeInv SearchFindsChain ReadsAreRight
PROPERTY MapSpec
