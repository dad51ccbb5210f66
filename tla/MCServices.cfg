SPECIFICATION AllSpec
CONSTANTS
    Calls = {c1, c2}
    PortKinds = {"web", "telegram", "qq", "none"}
    MaxClicks = 3
    Callers = {p, q}
    Models = {1, 2}
    AutoModel = auto
    None = none
    MaxAttempts = 2
    MaxWindow = 6
    Keep = 2
    FoldAge = 2
    Soft = 6
    Hard = 8
    Large = 4
    ExitCodes = {0}
    NoCode = nocode
    MaxMessages = 17
    MaxTurns = 2
    Children = {c1, c2}
    Servers = {1, 2}
    Remote = {x, y}
    PageRequests = {t1, t2}
    Projects = {p1}
    MaxRuns = 3
    Nobody = nobody
    MaxBlocks = 3
CHECK_DEADLOCK FALSE
INVARIANTS NobodyRunsUnasked FirstAnswerCounts RequestIsHonoured OneReply SentIsWhole OnlyTruncationForgets NameIsOneTool NothingIsLeftBehind
PROPERTIES AnswerSettles
