CONSTANTS
    r1 = r1
    r2 = r2
    r3 = r3
    k1 = k1
    k2 = k2
    Txns = {1, 2, 3}
    Rids = {r1, r2, r3}
    Loaded = {}
    KeyOf <- NoneLoaded
    Keys = {k1, k2}
    NoRid = NoRid
    Kinds = {"insert"}
    MaxStatements = 1
    MaxRows = 1
    INT32_MAX = 99
    MaxIterations = 1000
SPECIFICATION Spec
INVARIANTS AbortedIsUndone IndexLeadsToRecords
CHECK_DEADLOCK FALSE
SYMMETRY SlotsAndKeys
