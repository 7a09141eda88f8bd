CONSTANTS
    Nodes = {0, 1, 2, 3}
    Source = 0
    Weight <- Diamond
    Infinity = 100
    NoNode = NoNode
SPECIFICATION Spec
INVARIANTS
    FinishedIsCorrect
PROPERTIES
    Convergence
CHECK_DEADLOCK FALSE
