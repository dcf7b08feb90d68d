-------------------------- MODULE MCWorkerRecords ---------------------------
\* What outlives a command, in memory, in files and over workers: each behaviour
\* is one of the modules below on its own, "part" says which; they share no
\* state, or (lease and handoff) one has the other's operations as single steps.
EXTENDS Naturals
CONSTANTS
    None, Failed,
    LeaseWorkers, LeaseProcesses,       \* workers over one lease, and browser processes
    RelaunchWorkers, RelaunchProcesses, \* fewer of the first and more of the second
    HandoffWorkers, HandoffProcesses,   \* how many come, one after another
    Cookies,                            \* keys of an origin's storage
    ToolCalls, LoungeAgents, LoungeSessions, LoungeRevisions, LoungePolls, \* one connection
    AgentBrowsers, AgentDefault, AgentOps, AgentEnds,    \* operations of an agent
    Tabs, FirstTab, RiskDocuments, RiskCalls, RiskWorkers, \* tabs, over workers
    GateDocuments, GateCalls, GateWorkers,                 \* and fewer with more commands
    Files, RetainedDownloads, DownloadWorkers,             \* downloads, over workers
    EventPages, EventDocuments, EventWorkers,              \* pages of one worker
    RereadPages, RereadDocuments, RereadWorkers            \* and fewer over workers

VARIABLES part, file, browser, used, native, awaiting, alive, pc, goal, seen, active, mut,
          drives, signalled, lease, record, launched, worker, born, mem, doing, private, asked,
          calls, queue, joined, lastNotice, waiting, closed, sessions, notice, mail, told,
          stored, host, op, ops, ends, tab, next, retained, disk, jobs, up, workers, sequence,
          obj, kept, capture, chain, writing, broken, cursor, since, doc, tails, origin, found,
          events, writes, owed, fresh, flow, jar, stale, limited, at, reading, truth, loaded,
          report
vars == <<part, file, browser, used, native, awaiting, alive, pc, goal, seen, active, mut,
    drives, signalled, lease, record, launched, worker, born, mem, doing, private, asked, calls,
    queue, joined, lastNotice, waiting, closed, sessions, notice, mail, told, stored, host, op,
    ops, ends, tab, next, retained, disk, jobs, up, workers, sequence, obj, kept, capture, chain,
    writing, broken, cursor, since, doc, tails, origin, found, events, writes, owed, fresh, flow,
    jar, stale, limited, at, reading, truth, loaded, report>>

\* The variables that one module alone has, and what they are while it does not run.
profileLease == <<used, native, awaiting, alive, pc, goal, seen, mut, drives, signalled>>
NoProfileLease == used = None /\ native = None /\ awaiting = None /\ alive = None /\ pc = None
    /\ goal = None /\ seen = None /\ mut = None /\ drives = None /\ signalled = None
handoff == <<lease, launched, born, mem, doing>>
NoHandoff == lease = None /\ launched = None /\ born = None /\ mem = None /\ doing = None
loungeConnection == <<queue, joined, lastNotice, waiting, closed, sessions, notice, mail, told>>
NoLoungeConnection == queue = None /\ joined = None /\ lastNotice = None /\ waiting = None
    /\ closed = None /\ sessions = None /\ notice = None /\ mail = None /\ told = None
agentContext == <<stored, host, ops, ends>>
NoAgentContext == stored = None /\ host = None /\ ops = None /\ ends = None
pageRisk == <<tab, retained, disk, jobs>>
NoPageRisk == tab = None /\ retained = None /\ disk = None /\ jobs = None
downloadJournal == <<obj, kept, capture, chain, broken, since>>
NoDownloadJournal == obj = None /\ kept = None /\ capture = None /\ chain = None
    /\ broken = None /\ since = None
pageEvents == <<doc, tails, origin, found, events, writes, owed, fresh>>
NoPageEvents == doc = None /\ tails = None /\ origin = None /\ found = None /\ events = None
    /\ writes = None /\ owed = None /\ fresh = None
storageContinuity == <<flow, jar, stale, limited, at, reading, truth, loaded, report>>
NoStorageContinuity == flow = None /\ jar = None /\ stale = None /\ limited = None /\ at = None
    /\ reading = None /\ truth = None /\ loaded = None /\ report = None

-----------------------------------------------------------------------------
\* Workers over one lease file that may race, and a browser that is launched again.
Lease == INSTANCE ProfileLease WITH Workers <- LeaseWorkers, Processes <- LeaseProcesses
LeaseBegins ==
    /\ part = "lease" /\ Lease!Init
    /\ NoHandoff /\ NoLoungeConnection
    /\ NoAgentContext /\ NoPageRisk /\ NoDownloadJournal /\ NoPageEvents /\ NoStorageContinuity
    /\ record = None /\ worker = None /\ private = None /\ asked = None /\ calls = None
    /\ op = None /\ next = None /\ up = None /\ workers = None /\ sequence = None
    /\ writing = None /\ cursor = None
AloneProfileLease == UNCHANGED <<part, handoff, loungeConnection, agentContext, pageRisk,
    downloadJournal, pageEvents, storageContinuity, record, worker, private, asked, calls, op,
    next, up, workers, sequence, writing, cursor>>
LeaseSteps == part = "lease" /\ Lease!Next /\ AloneProfileLease

Relaunch == INSTANCE ProfileLease WITH Workers <- RelaunchWorkers,
    Processes <- RelaunchProcesses
RelaunchBegins ==
    /\ part = "relaunch" /\ Relaunch!Init
    /\ NoHandoff
    /\ NoLoungeConnection /\ NoAgentContext /\ NoPageRisk /\ NoDownloadJournal /\ NoPageEvents
    /\ NoStorageContinuity /\ record = None /\ worker = None /\ private = None /\ asked = None
    /\ calls = None /\ op = None /\ next = None /\ up = None /\ workers = None
    /\ sequence = None /\ writing = None /\ cursor = None
RelaunchSteps == part = "relaunch" /\ Relaunch!Next /\ AloneProfileLease

-----------------------------------------------------------------------------
\* Workers, one after another, and browser processes.
Private == INSTANCE Handoff WITH MaxWorkers <- HandoffWorkers, MaxProcesses <- HandoffProcesses
PrivateBegins ==
    /\ part = "handoff" /\ Private!Init
    /\ NoProfileLease
    /\ NoLoungeConnection /\ NoAgentContext /\ NoPageRisk /\ NoDownloadJournal /\ NoPageEvents
    /\ NoStorageContinuity /\ file = None /\ active = None /\ calls = None /\ op = None
    /\ next = None /\ up = None /\ workers = None /\ sequence = None /\ writing = None
    /\ cursor = None
AloneHandoff == UNCHANGED <<part, profileLease, loungeConnection, agentContext, pageRisk,
    downloadJournal, pageEvents, storageContinuity, file, active, calls, op, next, up, workers,
    sequence, writing, cursor>>
PrivateSteps == part = "handoff" /\ Private!Next /\ AloneHandoff

-----------------------------------------------------------------------------
\* Tool calls of one connection.
Connection == INSTANCE LoungeConnection WITH Calls <- ToolCalls, Agents <- LoungeAgents,
    MaxSessions <- LoungeSessions, MaxRevisions <- LoungeRevisions, MaxPolls <- LoungePolls
ConnectionBegins ==
    /\ part = "connection" /\ Connection!Init
    /\ NoProfileLease
    /\ NoHandoff /\ NoAgentContext /\ NoPageRisk /\ NoDownloadJournal /\ NoPageEvents
    /\ NoStorageContinuity /\ file = None /\ browser = None /\ active = None /\ record = None
    /\ worker = None /\ private = None /\ asked = None /\ op = None /\ next = None /\ up = None
    /\ workers = None /\ sequence = None /\ writing = None /\ cursor = None
AloneLoungeConnection == UNCHANGED <<part, profileLease, handoff, agentContext, pageRisk,
    downloadJournal, pageEvents, storageContinuity, file, browser, active, record, worker,
    private, asked, op, next, up, workers, sequence, writing, cursor>>
ConnectionSteps == part = "connection" /\ Connection!Next /\ AloneLoungeConnection

-----------------------------------------------------------------------------
\* Operations of a bound agent.
Agent == INSTANCE AgentContext WITH Browsers <- AgentBrowsers, Default <- AgentDefault,
    MaxOps <- AgentOps, MaxEnds <- AgentEnds
AgentBegins ==
    /\ part = "agent" /\ Agent!Init
    /\ NoProfileLease /\ NoHandoff
    /\ NoLoungeConnection /\ NoPageRisk /\ NoDownloadJournal /\ NoPageEvents
    /\ NoStorageContinuity /\ file = None /\ browser = None /\ active = None /\ record = None
    /\ asked = None /\ calls = None /\ next = None /\ up = None /\ workers = None
    /\ sequence = None /\ writing = None /\ cursor = None
AloneAgentContext == UNCHANGED <<part, profileLease, handoff, loungeConnection, pageRisk,
    downloadJournal, pageEvents, storageContinuity, file, browser, active, record, asked, calls,
    next, up, workers, sequence, writing, cursor>>
AgentSteps == part = "agent" /\ Agent!Next /\ AloneAgentContext

-----------------------------------------------------------------------------
\* Tabs over workers, with questions unanswered and failed writes; and more commands with none.
Risk == INSTANCE PageRisk WITH Pages <- Tabs, First <- FirstTab, MaxDocuments <- RiskDocuments,
    MaxCalls <- RiskCalls, MaxWorkers <- RiskWorkers, MayFail <- TRUE
RiskBegins ==
    /\ part = "risk" /\ Risk!Init
    /\ NoProfileLease /\ NoHandoff
    /\ NoLoungeConnection /\ NoAgentContext /\ NoDownloadJournal /\ NoPageEvents
    /\ NoStorageContinuity /\ file = None /\ browser = None /\ worker = None /\ private = None
    /\ asked = None /\ sequence = None /\ writing = None /\ cursor = None
AlonePageRisk == UNCHANGED <<part, profileLease, handoff, loungeConnection, agentContext,
    downloadJournal, pageEvents, storageContinuity, file, browser, worker, private, asked,
    sequence, writing, cursor>>
RiskSteps == part = "risk" /\ Risk!Next /\ AlonePageRisk

Gate == INSTANCE PageRisk WITH Pages <- Tabs, First <- FirstTab, MaxDocuments <- GateDocuments,
    MaxCalls <- GateCalls, MaxWorkers <- GateWorkers, MayFail <- FALSE
GateBegins ==
    /\ part = "gate" /\ Gate!Init
    /\ NoProfileLease /\ NoHandoff
    /\ NoLoungeConnection /\ NoAgentContext /\ NoDownloadJournal /\ NoPageEvents
    /\ NoStorageContinuity /\ file = None /\ browser = None /\ worker = None /\ private = None
    /\ asked = None /\ sequence = None /\ writing = None /\ cursor = None
GateSteps == part = "gate" /\ Gate!Next /\ AlonePageRisk

-----------------------------------------------------------------------------
\* Downloads with records for one, and three workers.
Download == INSTANCE DownloadJournal WITH Downloads <- Files, Retained <- RetainedDownloads,
    MaxWorkers <- DownloadWorkers, MayFail <- FALSE
DownloadBegins ==
    /\ part = "downloads" /\ Download!Init
    /\ NoProfileLease /\ NoHandoff
    /\ NoLoungeConnection /\ NoAgentContext /\ NoPageRisk /\ NoPageEvents /\ NoStorageContinuity
    /\ browser = None /\ active = None /\ record = None /\ worker = None /\ private = None
    /\ asked = None /\ calls = None /\ op = None /\ next = None
AloneDownloadJournal == UNCHANGED <<part, profileLease, handoff, loungeConnection, agentContext,
    pageRisk, pageEvents, storageContinuity, browser, active, record, worker, private, asked,
    calls, op, next>>
DownloadSteps == part = "downloads" /\ Download!Next /\ AloneDownloadJournal

-----------------------------------------------------------------------------
\* Pages of one worker, and a page over three workers.
Events == INSTANCE PageEvents WITH Pages <- EventPages, MaxDocuments <- EventDocuments,
    MaxWorkers <- EventWorkers, MayFail <- TRUE
EventsBegins ==
    /\ part = "events" /\ Events!Init
    /\ NoProfileLease /\ NoHandoff
    /\ NoLoungeConnection /\ NoAgentContext /\ NoPageRisk /\ NoDownloadJournal
    /\ NoStorageContinuity /\ browser = None /\ active = None /\ record = None /\ worker = None
    /\ private = None /\ calls = None /\ op = None
AlonePageEvents == UNCHANGED <<part, profileLease, handoff, loungeConnection, agentContext,
    pageRisk, downloadJournal, storageContinuity, browser, active, record, worker, private,
    calls, op>>
EventsSteps == part = "events" /\ Events!Next /\ AlonePageEvents

Reread == INSTANCE PageEvents WITH Pages <- RereadPages, MaxDocuments <- RereadDocuments,
    MaxWorkers <- RereadWorkers, MayFail <- TRUE
RereadBegins ==
    /\ part = "reread" /\ Reread!Init
    /\ NoProfileLease /\ NoHandoff
    /\ NoLoungeConnection /\ NoAgentContext /\ NoPageRisk /\ NoDownloadJournal
    /\ NoStorageContinuity /\ browser = None /\ active = None /\ record = None /\ worker = None
    /\ private = None /\ calls = None /\ op = None
RereadSteps == part = "reread" /\ Reread!Next /\ AlonePageEvents

-----------------------------------------------------------------------------
\* A login handoff of an origin with some cookies.
Storage == INSTANCE StorageContinuity WITH Keys <- Cookies
StorageBegins ==
    /\ part = "storage" /\ Storage!Init
    /\ NoProfileLease /\ NoHandoff
    /\ NoLoungeConnection /\ NoAgentContext /\ NoPageRisk /\ NoDownloadJournal /\ NoPageEvents
    /\ file = None /\ browser = None /\ active = None /\ record = None /\ worker = None
    /\ private = None /\ asked = None /\ calls = None /\ op = None /\ next = None /\ up = None
    /\ workers = None /\ sequence = None /\ writing = None /\ cursor = None
AloneStorageContinuity == UNCHANGED <<part, profileLease, handoff, loungeConnection,
    agentContext, pageRisk, downloadJournal, pageEvents, file, browser, active, record, worker,
    private, asked, calls, op, next, up, workers, sequence, writing, cursor>>
StorageSteps == part = "storage" /\ Storage!Next /\ AloneStorageContinuity

-----------------------------------------------------------------------------
Init == LeaseBegins \/ RelaunchBegins \/ PrivateBegins \/ ConnectionBegins \/ AgentBegins
    \/ RiskBegins \/ GateBegins \/ DownloadBegins \/ EventsBegins \/ RereadBegins
    \/ StorageBegins
Next == LeaseSteps \/ RelaunchSteps \/ PrivateSteps \/ ConnectionSteps \/ AgentSteps
    \/ RiskSteps \/ GateSteps \/ DownloadSteps \/ EventsSteps \/ RereadSteps \/ StorageSteps
Spec == Init /\ [][Next]_vars

-----------------------------------------------------------------------------
\* Each part has its type invariant in its property, too.

\* No browser that a living worker drives or a human uses is signalled, however
\* stale the inspection, and no heartbeat writes a released lease again
\* (profile-ownership/controller.ts, lifecycle/ownership.ts).
LeaseIsRespected ==
    /\ [](part = "lease" => Lease!TypeOK /\ Lease!NotRecreated)
    /\ [](part = "relaunch" => Relaunch!TypeOK /\ Relaunch!NotRecreated)
    /\ [][/\ part = "lease" => Lease!OnlyOrphansSignalled
         /\ part = "relaunch" => Relaunch!OnlyOrphansSignalled]_vars

\* From the request to the resume, over crashes and restarts, no worker is
\* connected to the human's browser or asks it to close, and what a worker
\* drives is what its lease names (handoff/*.ts).
HandoffStaysPrivate ==
    /\ [](part = "handoff" => Private!TypeOK /\ Private!PrivateStaysPrivate /\ Private!DrivesWhatItOwns)
    /\ [][part = "handoff" => Private!HumanIsNotInterrupted]_vars

\* Two waits never run side by side on one connection, and no session of it is
\* left listening after its wait (lounge-service.ts).
OneWaitListens ==
    part = "connection" => Connection!TypeOK /\ Connection!OneWait /\ Connection!WakeableOnlyWhileWaiting

\* The context file keeps up with the selected browser, and taking it up never
\* ends a worker that drives one (supervisor/agent-context.ts).
ContextFollows ==
    /\ [](part = "agent" => Agent!TypeOK /\ Agent!StoredFollows)
    /\ [][part = "agent" => Agent!LiveBrowserStays]_vars

\* No command leaves files selected since the last acknowledgement that its worker
\* knows of behind, and a worker that attaches has told of the documents that
\* replaced the recorded one (page-state-risk-manager.ts, native-attach.ts).
UnsavedFilesAreTold ==
    /\ [](part = "gate" => Gate!TypeOK /\ Gate!GateHolds)
    /\ [](part = "risk" => Risk!TypeOK /\ Risk!GateHolds)
    /\ [][part = "risk" => Risk!ReplacementTold]_vars

\* Downloads keep one number each and never go back, over workers too, and none
\* is in progress that is not being captured (download-manager.ts); every
\* replaced document gets into the journal of page events, which is on disk
\* whenever no write waits (page-events.ts).
JournalsAreKept ==
    /\ [](part = "downloads" => Download!TypeOK /\ Download!NumberedOnce /\ Download!InProgressIsCaptured)
    /\ [][part = "downloads" => Download!NeverBackwards]_vars
    /\ [](part = "events" => Events!TypeOK /\ Events!ReplacementRecorded /\ Events!SettledIsWritten)
    /\ [](part = "reread" => Reread!TypeOK /\ Reread!ReplacementRecorded /\ Reread!SettledIsWritten)

\* A login's cookies that are called preserved are there, and those that went
\* are told, and put down to the right moment (profile-binding/storage.ts).
LossesAreTold == part = "storage" => Storage!TypeOK /\ Storage!ReattachmentIsTold
=============================================================================
