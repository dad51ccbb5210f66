SPECIFICATION FairSpec
CONSTANTS
    MaxSteps = 2
    MaxCalls = 2
INVARIANTS PairedHistory StopIsHonoured
PROPERTIES QuietAfterEnd Terminates RefinesProtocol
CHECK_DEADLOCK FALSE
