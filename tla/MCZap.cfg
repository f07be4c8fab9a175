SPECIFICATION Spec
CONSTANTS
    Names = {t1, t2, t3}
    NoParent = NoParent
    Texts <- Texts12
    MaxZaps = 3
    Empty <- IsEmpty
    NilElse <- nilElse
    Replaced <- replaceBlocks
    Inlined <- inlineBlocks
SYMMETRY Symmetry
INVARIANTS
    RendersAsInherited
    NoBlocksWritten
PROPERTY
    FailsIffBroken
CHECK_DEADLOCK FALSE
