SPECIFICATION Spec
CONSTANTS
    Programs <- AnyProgram
    MaxDepth = 5
CHECK_DEADLOCK FALSE
INVARIANTS
    NeverPanics
    ActionsFit
    EndsInText
    CommentsLeftOut
    EditsDoNotDependOnOrder
