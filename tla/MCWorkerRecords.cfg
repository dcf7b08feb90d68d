SPECIFICATION Spec
CONSTANTS
    None = None
    Failed = Failed
    LeaseWorkers = {w1, w2, w3}
    LeaseProcesses = {p1}
    RelaunchWorkers = {w1, w2}
    RelaunchProcesses = {p1, p2}
    HandoffWorkers = 3
    HandoffProcesses = 3
    Cookies = {session, guest}
    ToolCalls = {c1, c2}
    LoungeAgents = {editor}
    LoungeSessions = 2
    LoungeRevisions = 1
    LoungePolls = 1
    AgentBrowsers = {chrome, firefox}
    AgentDefault = chrome
    AgentOps = 5
    AgentEnds = 2
    Tabs = {tabA, tabB}
    FirstTab = tabA
    RiskDocuments = 3
    RiskCalls = 2
    RiskWorkers = 3
    GateDocuments = 2
    GateCalls = 4
    GateWorkers = 1
    Files = {d1, d2, d3}
    RetainedDownloads = 1
    DownloadWorkers = 3
    EventPages = {g1, g2}
    EventDocuments = 2
    EventWorkers = 1
    RereadPages = {g1}
    RereadDocuments = 3
    RereadWorkers = 3
CHECK_DEADLOCK FALSE
INVARIANTS OneWaitListens LossesAreTold
PROPERTIES LeaseIsRespected HandoffStaysPrivate ContextFollows UnsavedFilesAreTold JournalsAreKept
