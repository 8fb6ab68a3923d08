CONSTANTS
    r1 = r1
    r2 = r2
    r3 = r3
    k1 = k1
    k2 = k2
    Txns = {1, 2}
    Rids = {r1}
    Loaded = {r1}
    KeyOf <- OneLoaded
    Keys = {k1, k2}
    NoRid = NoRid
    Kinds = {"update", "delete", "read"}
    MaxStatements = 2
    MaxRows = 1
    INT32_MAX = 99
    MaxIterations = 1000
SPECIFICATION FairSpec
INVARIANTS TypeOK SlotAgreesWithChain EndedLeavesNothing
PROPERTIES WritersReadCommitted LockClient ThreadsReturn
CHECK_DEADLOCK FALSE
