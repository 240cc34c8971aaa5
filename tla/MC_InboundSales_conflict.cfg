SPECIFICATION Spec
CONSTANTS
    a = a
    b = b
    w = w
    f = f
    Sale = {a, b}
    Webhook = {w}
    File = {f}
    SalesIn <- MCSalesIn
    InitialOnHand = 1
    MaxAttempts = 2
    MaxStalls = 1
    Concurrency = 1
    MaxTroubles = 0
INVARIANT AppliedOnce
CHECK_DEADLOCK FALSE
