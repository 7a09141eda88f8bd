CONSTANTS
    Nodes = {0, 1, 2, 3, 4}
    Source = 0
    Weight <- Ring5
    Infinity = 100
    NoNode = NoNode
SPECIFICATION Spec
INVARIANTS
    TypeOK
    ParentsDescend
    QuiescentIsShortest
    StableWhenFinished
    NothingAfterFinished
    SourceLedger
    AckDebtCovered
    CleanReturn
PROPERTIES
    EstimatesImprove
    Termination
