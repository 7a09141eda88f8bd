CONSTANTS
    Nodes = {0, 1, 2, 3}
    Weight <- Matr4
    Infinity = 100
    NoNode = NoNode
    Users = {"Lenti", "Stark"}
    Passwords <- PasswordFile
    Owner <- Owners
    InitialCredit <- Credits
    Amounts = {0, 2}
    MaxTransactions = 2
    Modulus = 32
SPECIFICATION CalculationSpec
INVARIANTS
    TypeOK
    KeptPathsAreRight
    WalkArrives
    CoverIsCurrent
    LogExplainsAccounts
PROPERTIES
    ImplementsSession
    TransactionCompletes
CHECK_DEADLOCK FALSE
