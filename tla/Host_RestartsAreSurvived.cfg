CONSTANTS
    \* Two relays, two runtime directories, a crash.
    Relays = {"r1", "r2"}
    RunDirs = {"d1", "d2"}
    MaxServices = 3
    MaxCrashes = 1
    \* An output channel that two events fill.
    BackendKinds = {"claude", "codex", "gemini"}
    Capacity = 2
    MaxInputs = 3
    MaxTexts = 3
    \* Two workers, handles in capitals, of the lead and of nobody.
    Workers = {"a", "b"}
    Handles = {"A", "b", "lead", "ghost"}
    Lower <- MCLower
    MaxText = 2
    MaxPosts = 2
    \* A skill of two files, three commands, one of them interrupted.
    SkillFiles = {"f1", "f2"}
    MaxCommands = 3
    MaxBreaks = 1
    \* A second lead in the same directory, two codex workers that share theirs.
    Leads = {"l1", "l2"}
    Owner = "l1"
    Claudes = {"w"}
    Codexes = {"x", "y"}
    MaxSessions = 2
    MaxHooks = 2
    MaxLines = 5
    PaneItems = 3
    \* Two workers, two messages, responses of one event, one lost connection.
    FeedWorkers = {1, 2}
    Limit = 1
    MaxMsgs = 2
    MaxNow = 2
    MaxDrops = 1
    \* Four process numbers for four processes: a number is used again.
    Pids = {1, 2, 3, 4}
    MaxDepth = 3
    MaxSeconds = 1
    MaxSpawns = 4
    \* A relay and a worker.
    Clients = {"r", "w"}
    Raw = {"r"}
    Paths <- MCPaths
    MaxRequests = 4
    MaxRestarts = 1
    Tools = {"t"}
    MaxItems = 0
    Keys = {"l"}
    LeadKey = "l"
    NoKey = "none"
    MaxAsked = 0
INIT Init
NEXT Next
INVARIANT RestartsAreSurvived
CHECK_DEADLOCK FALSE
