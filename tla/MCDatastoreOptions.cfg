SPECIFICATION Spec
CONSTANTS
    Browsers = {b1, b2}
    Requests = {r1, r2, r3}
    Ids = {i1, i2, i3}
    Keys = {k1, k2}
    NoId = NoId
    StoreOpt = StoreOpt
SYMMETRY Symmetry
CHECK_DEADLOCK FALSE
INVARIANT OwnOptions
