SPECIFICATION Spec
CONSTANTS
    Inputs <- StructureAndPipelines
    VarNames = {"x"}
    DefNames = {"a"}
CHECK_DEADLOCK FALSE
INVARIANTS
    LookaheadInOrder
    ErrorInsideDefinitionFails
PROPERTIES
    EnclosingScopesKept
    Returns
    LexerEnds
