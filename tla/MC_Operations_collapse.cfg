CONSTANTS
    None = None
    r1 = r1
    r2 = r2
    i1 = i1
    i2 = i2
    c1 = c1
    c2 = c2
    Null = Null
    Op = {"quantity", "price"}
    Value = {i1, i2}
    Caller = {r1, r2}
    MaxAttempts = 2
    MaxStalls = 1
    AutoCorrect = TRUE
    MaxEdits = 2
    MaxTroubles = 1
    MediaPage = 2
    Subjects = {"sync"}
    Channel = {c1, c2}
    MaxQuantity = 2
    MaxPushes = 2
    Stock = 1
    MaxSales = 1
    MaxRuns = 2
    MaxTouches = 1
    Sku = {"s"}
    CustomerOrder = {r1, r2}
    Price = {1}
    MaxPut = 3
    MaxFiles = 2
    MaxFileEdits = 1
    Issuer = {c1, c2}
    Person = {"sam"}
    Replica = {"api"}
    SettingsJob = {r1, r2}
    Browser = {"tab"}
    MaxLogins = 1
    Host = {c1, c2}
    NoticeTask = {r1, r2}
    MaxNotices = 1
    Card = {c1, c2}
    Figure = {1000, 1500}
    Policy <- OffOrOn
    MaxChanges = 1
    MaxBulkRuns = 1
    Variant = {c1, c2}
    Picture = {i1}
    Batch = {r1, r2}
    MaxContentEdits = 1
    MaxSaves = 2
    MaxMishaps = 1
SPECIFICATION AllSpec
SYMMETRY Symmetry
INVARIANT
    CollapsingIsSafe
CHECK_DEADLOCK FALSE
