SPECIFICATION Spec
CONSTANTS
    Jobs = {j1}
    Workers = {w1}
    Cancellers = {c1}
    MaxCrashes = 0
    None = None
PROPERTIES TerminalIsFinal
