SPECIFICATION Spec
CONSTANTS
    Messages <- MCMessages
    Headers <- MCHeaders
    PluralForms = 201
    OpenForms = 211
    ClosedForms = 212
    MaxMessages = 3
INVARIANTS
    OnlyExactMessages
    
    StringsTile
CHECK_DEADLOCK FALSE
