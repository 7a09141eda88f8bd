CONSTANTS
    Nodes = {0, 1, 2, 3}
    NoNode = NoNode
    Distance <- RingDistance
    Parent <- RingParent
    InitialCredit <- Credits
    Amounts = {2}
    Modulus = 16
    MaxCalls = 2
SPECIFICATION Spec
INVARIANTS
    TypeOK
    AcceptsAllNeighbours
    NoEarlyClose
PROPERTIES
    ReturnsConnected
    ImplementsProtocol
    ReturnsUnlessRefused
CHECK_DEADLOCK FALSE
