CONSTANTS
    Nodes = {0, 1, 2}
    Weight <- Triangle
    Infinity = 3
    NoNode = NoNode
    Users = {"Lenti", "Stark"}
    Passwords <- PasswordFile
    Owner <- Owners
    InitialCredit <- Credits
    Amounts = {2}
    MaxTransactions = 1
    Modulus = 16
SPECIFICATION CalculationSpec
INVARIANTS
    WalkArrives
CHECK_DEADLOCK FALSE
