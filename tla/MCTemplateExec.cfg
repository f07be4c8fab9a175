SPECIFICATION Spec
CONSTANTS
    Order <- OneTwo
    Programs <- ScopesAndFills
CHECK_DEADLOCK FALSE
INVARIANTS
    ResolvesAsWritten
    FillersOfThisFill
    OnlyRecursionIsDeep
