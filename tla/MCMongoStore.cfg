SPECIFICATION Spec
CONSTANTS
    Browsers = {b1, b2}
    Requests = {r1, r2, r3}
    Ids = {i1, i2}
    Keys = {k1}
    NoId = NoId
    StoreOpt = StoreOpt
    MaxAge = 0
    MaxTime = 1
SYMMETRY Symmetry
CHECK_DEADLOCK FALSE

    
PROPERTIES
    
    ImplementsPrivate
