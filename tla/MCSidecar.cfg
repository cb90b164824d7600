SPECIFICATION FairSpec
CONSTANTS
    Files = {a, b}
    a = a
    b = b
    Setups <- MCSetups
    MaxSaves = 2
    MaxCalls = 3
CHECK_DEADLOCK FALSE
INVARIANTS
    OneMessage
    WarmKnowsDisk
PROPERTIES
    AnswerCurrent
    CallReturns
