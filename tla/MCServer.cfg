CONSTANTS
    c1 = c1
    c2 = c2
    Clients = {c1, c2}
    NoClient = NoClient
    MaxRequests <- MCMaxRequests
SPECIFICATION Spec
INVARIANTS
    ServerInv
PROPERTIES
    EndsOnce
    EveryoneIsServed
CHECK_DEADLOCK FALSE
