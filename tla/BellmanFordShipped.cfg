CONSTANTS
    Source = 3
    NoNode = NoNode
SPECIFICATION OrderedSpec
PROPERTIES
    Termination
CHECK_DEADLOCK FALSE
