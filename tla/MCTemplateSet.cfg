SPECIFICATION Spec
CONSTANTS
    Sets = {s1, s2}
    BaseNames = {"a", "b"}
    MaxMangle = 1
    UserFuncs = {"f"}
    Builtins = {"len"}
    EscFuncs = {"esc"}
    Delimiters = {"default", "other"}
    DefaultDelims = "default"
    Texts <- MCTexts
    Unreadable = Unreadable
    MaxFiles = 1
    NoNode = NoNode
SYMMETRY Symmetry
INVARIANTS
    
    EscapedCallsResolve
    
PROPERTIES
    OthersUntouched
    NeverRedefined
