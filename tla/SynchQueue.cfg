CONSTANTS
    Messages = {a, b}
    MaxReads = 2
    MaxCalls = 2
SPECIFICATION Spec
INVARIANTS
    TypeOK
    ListExclusive
    FrontExists
PROPERTIES
    FreshQueue
    ImplementsFifo
    NoLostWakeup
