CONSTANTS
    r1 = r1
    r2 = r2
    c1 = c1
    c2 = c2
    Null = Null
    Field = {"f", "g"}
    Ref = {c1, c2}
    User = {"ann", "bea"}
    Request = {r1, r2}
    MaxRequests = 3
    MaxMishaps = 1
    MaxPassword = 2
    Item = {"nm", "lp"}
    Single = {"nm", "lp"}
    CardOf <- OneCard
    MaxAtOnce = 2
    MaxRuns = 2
    MaxConfirms = 1
    Subjects = {"accounts", "channels", "listings"}
SPECIFICATION AllSpec
SYMMETRY Symmetry
INVARIANTS
    AllTypeOK
    AccountsHold
    ChannelIsWhole
    SavesKeepSettings
PROPERTY
    ListingsAreOwned
CHECK_DEADLOCK FALSE
