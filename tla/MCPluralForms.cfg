SPECIFICATION Spec
CONSTANTS
    Start <- NothingAndTable
    Lexemes <- Syntax
    MaxLen = 7
    MinN <- MinusTwoHundred
    MaxN = 330
INVARIANTS
    ParsesAsWritten
    IndexInRange
    TableAgrees
CHECK_DEADLOCK FALSE
