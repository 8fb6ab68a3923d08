SPECIFICATION Spec
CONSTANTS
    Txns = {0, 1}
    Kinds = {"insert", "update", "abort", "drop"}
    LoadedRows = 1
    MaxWrites = 3
    SlotsPerPage = 2
    MaxPages = 2
    MaxStarts = 2
    NoRow = NoRow
INVARIANTS RecoveryInv CommittedIsRedone UnfinishedIsUndone
PROPERTY RecoveryEnds
CHECK_DEADLOCK FALSE
