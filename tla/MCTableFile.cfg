CONSTANTS
    SlotsPerPage = 2
    NoRow = 0
    Sessions = {"s1", "s2"}
    Scanners = {"r1"}
    BatchSize = 2
    MaxLines = 4
    MaxRows = 5
    MaxPages = 3
    FillsPages = FALSE
SPECIFICATION Spec
INVARIANTS TableInv ScanIsExact
PROPERTIES RowsStay LoadCompletes
CHECK_DEADLOCK FALSE
