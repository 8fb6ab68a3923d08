CONSTANTS
    Txns = {t1, t2}
    RecordIds = {r1}
    TableIds = {tab}
    MaxQueue = 3
SPECIFICATION Spec
SYMMETRY TxnSymmetry
INVARIANTS TypeOK GrantsCompatible EndedHoldsNoRecordLock
PROPERTY TwoPhase
CHECK_DEADLOCK FALSE
