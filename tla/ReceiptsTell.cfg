SPECIFICATION Spec
CONSTANTS
    MaxWindow = 8
    Keep = 2
    FoldAge = 2
    Soft = 6
    Hard = 8
    Large = 4
    MaxMessages = 12
    MaxTurns = 2
    ExitCodes = {0}
    NoCode = nocode
CHECK_DEADLOCK FALSE
INVARIANTS ReceiptTellsTheRun
