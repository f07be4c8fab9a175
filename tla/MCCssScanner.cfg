SPECIFICATION Spec
CONSTANTS
    Inputs <- MCInputs
    matchLen <- findLen
INVARIANTS
    NothingSkipped
    PositionsRight
    
