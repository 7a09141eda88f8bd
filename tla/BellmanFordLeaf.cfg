CONSTANTS
    Nodes = {0, 1, 2, 3}
    Source = 0
    Weight <- Leaf
    Infinity = 100
    NoNode = NoNode
SPECIFICATION Spec
PROPERTIES
    Termination
CHECK_DEADLOCK FALSE
