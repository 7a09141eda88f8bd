CONSTANTS
    Nodes = {0, 1, 2, 3}
    NoNode = NoNode
    Distance <- RingDistance
    Parent <- RingParent
    InitialCredit <- Credits
    Amounts = {0, 2, 3}
    Modulus = 16
    MaxCalls = 2
SPECIFICATION Spec
INVARIANTS
    SuccessIsTrue
