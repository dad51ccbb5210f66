SPECIFICATION Spec
CONSTANTS
    Top = a
    Inner = {b, c}
    Contents = {v1, v2}
    Absent = absent
    Dir = dir
    NoBlob = noblob
    MaxStep = 2
    MaxEntries = 2
    KeepSteps = 1
    Names = {1, 2}
    MaxWorkers = 2
    MaxRuns = 2
    Convs = {c1, c2}
    Procs = {web, cli}
    MaxOps = 3
    MaxDeaths = 1
    Messages = {t1, t2}
    NoText = notext
    MaxTurns = 3
    Requests = {t1, t2}
    MaxChoices = 2
    None = none
    Python = {f}
    Other = {g}
    Grammars = {web}
    Nothing = nothing
    MaxEdits = 1
    MaxFaults = 1
    Ids = {core, mine}
    Core = {core}
    Default = core
    Unknown = unknown
    MaxChanges = 2
    MaxTime = 3
    MaxProposals = 2
    MaxApplies = 2
CONSTRAINT UndoMatters
CHECK_DEADLOCK FALSE
INVARIANTS UndoRestores MainIsWhole ListShowsTheFiles PlanModeEnds SavedIsUsed AnswersAreCurrent
PROPERTIES FailuresKeepTheirTree OnlyTheLastTurnGoes
