CONSTANTS
    Null = Null
    None = None
    i1 = i1
    i2 = i2
    r1 = r1
    r2 = r2
    Sweep = {"nightly"}
    Figure = {1000, 1500}
    Policy <- OffOrOn
    MaxChanges = 2
    MaxReviews = 1
    MaxMishaps = 1
    Source = {"sweep"}
    Swept = {"sweep"}
    MaxStock = 1
    MaxEdits = 3
    Subjects = {"flags", "sellout"}
SPECIFICATION AllSpec
INVARIANTS
    AllTypeOK
    SweepsAreSound
PROPERTY
    AlertsAndDraftsFollow
CHECK_DEADLOCK FALSE
