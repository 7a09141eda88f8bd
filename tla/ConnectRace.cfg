CONSTANTS
    Nodes = {0, 1, 2, 3}
    NoNode = NoNode
    Distance <- RingDistance
    Parent <- RingParent
    InitialCredit <- Credits
    Amounts = {2}
    Modulus = 16
    MaxCalls = 1
SPECIFICATION Spec
PROPERTIES
    MessagesArrive
CHECK_DEADLOCK FALSE
