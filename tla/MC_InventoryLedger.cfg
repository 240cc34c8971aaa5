CONSTANTS
    c1 = c1
    c2 = c2
    Null = Null
    Channel <- MCChannel
    AtRest <- MCAtRest
    Request <- MCRequest
    Call = {p1, p2}
    MaxAttempts = 2
    MaxCalls = 3
SPECIFICATION Spec
SYMMETRY Symmetry
INVARIANTS
    TypeOK
    LedgerKeepsRules
    OnHandAccounted
    FanOutExplained
    GiveUpMeansContention
PROPERTIES
    SaleNeverRefused
    ImplementsAtomicLedger
CHECK_DEADLOCK FALSE
