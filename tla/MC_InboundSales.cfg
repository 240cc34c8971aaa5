SPECIFICATION FairSpec
CONSTANTS
    a = a
    b = b
    w = w
    f = f
    Sale = {a, b}
    Webhook = {w}
    File = {f}
    SalesIn <- MCSalesIn
    InitialOnHand = 1
    MaxAttempts = 2
    MaxStalls = 1
    Concurrency = 2
    MaxTroubles = 2
INVARIANTS TypeOK AppliedTwiceIsExplained ProcessedIsAccountedFor
PROPERTY Settles
CHECK_DEADLOCK FALSE
