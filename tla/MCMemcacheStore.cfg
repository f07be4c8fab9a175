SPECIFICATION MemcacheSpec
CONSTANTS
    Browsers = {b1, b2}
    Requests = {r1, r2, r3}
    Ids = {i1, i2}
    Keys = {k1, k2}
    NoId = NoId
    StoreOpt = StoreOpt
SYMMETRY Symmetry
CHECK_DEADLOCK FALSE
INVARIANTS
    IdsNotShared
    CookieNamesEntity
PROPERTIES
    ReadsLastSave
    ImplementsPrivate
