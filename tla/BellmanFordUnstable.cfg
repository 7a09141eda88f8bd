CONSTANTS
    Nodes = {0, 1, 2, 3}
    Source = 0
    Weight <- Complete4
    Infinity = 100
    NoNode = NoNode
SPECIFICATION Spec
INVARIANTS
    StableWhenFinished
CHECK_DEADLOCK FALSE
