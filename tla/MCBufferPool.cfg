CONSTANTS
    Clients = {c1, c2}
    Pages = {0, 1, 2, 3}
    InFile = {0, 1}
    pool_size = 2
    Data = {zero, one}
    Zero = zero
    NoPage = NoPage
    Absent = Absent
SPECIFICATION Spec
SYMMETRY ClientSymmetry
INVARIANTS PoolInv
PROPERTY KeepsPages
CHECK_DEADLOCK FALSE
