SPECIFICATION Spec
CONSTANTS
    Streams = {s1, s2}
    MaxConvs = 2
    MaxReloads = 1
    MaxDetours = 2
    None = None
INVARIANTS ResultGoesHome
CHECK_DEADLOCK FALSE
