CONSTANTS
    Channel = {c1, c2, c3}
    Null = Null
    MaxOnHand = 5
    MaxReserve = 2
    MaxSale = 4
    Caps = {Null, 0, 2}
SPECIFICATION Spec
INVARIANTS
    SaleRestoresRules
    TrimsLikeTheLoop
    SaleNeverRaisesListing
    ConflictsAccountForEverything
CHECK_DEADLOCK FALSE
