CONSTANTS
    Null = Null
    None = None
    r1 = r1
    r2 = r2
    i1 = i1
    i2 = i2
    i3 = i3
    Item = {i1, i2, i3}
    ExternalRef = {"a", "b"}
    Candidate = {{"a"}, {"b"}, {"a", "b"}}
    Condition = {"NM"}
    SkuId = {"s", "t"}
    Caller = {r1, r2}
    MaxCalls = 3
    MaxMerges = 1
    MaxMishaps = 1
    Subjects = {"sources"}
SPECIFICATION AllSpec
SYMMETRY Symmetry
INVARIANT
    OffersCanBeConfirmed
CHECK_DEADLOCK FALSE
