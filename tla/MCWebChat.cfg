SPECIFICATION Spec
CONSTANTS
    Streams = {s1, s2}
    MaxConvs = 2
    MaxReloads = 1
    MaxDetours = 2
    None = None
SYMMETRY Symmetry
VIEW View
INVARIANTS MemoryMatchesFile SessionIsListed NoCrossTalk ModelRestored BusyIsHeld
PROPERTIES AnswersStay
CHECK_DEADLOCK FALSE
