SPECIFICATION Spec
CONSTANTS
    Top = a
    Inner = {b, c}
    Contents = {v1}
    Absent = absent
    Dir = dir
    NoBlob = noblob
    MaxStep = 2
    MaxEntries = 3
    KeepSteps = 1
CHECK_DEADLOCK FALSE
INVARIANTS UndoComesToItsEnd
