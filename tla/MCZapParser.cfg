SPECIFICATION ZapSpec
CONSTANTS
    Inputs <- StructureAndPipelines
    VarNames = {"$x"}
    DefNames = {"source"}
    TopName = "source"
INVARIANTS
    LookaheadInOrder
    ReadToTheEnd
PROPERTY
    ReturnsUnlessSkipped
CHECK_DEADLOCK FALSE
