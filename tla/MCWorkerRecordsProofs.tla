------------------------ MODULE MCWorkerRecordsProofs ------------------------
(***************************************************************************)
(* The properties of MCWorkerRecords whose modules are proved about, for   *)
(* every value of its constants: a behaviour of it is one of a module on   *)
(* its own, so what holds of the module holds of its part.                 *)
(***************************************************************************)
EXTENDS MCWorkerRecords, TLAPS

Leases == INSTANCE WorkerRecordsProofs WITH
    Workers <- LeaseWorkers, Processes <- LeaseProcesses, Keys <- Cookies, Calls <- ToolCalls,
    Agents <- LoungeAgents, MaxSessions <- LoungeSessions, MaxRevisions <- LoungeRevisions,
    MaxPolls <- LoungePolls,
    Browsers <- AgentBrowsers, Default <- AgentDefault, MaxOps <- AgentOps, MaxEnds <- AgentEnds,
    Pages <- Tabs, First <- FirstTab, MaxDocuments <- RiskDocuments, MaxCalls <- RiskCalls,
    MaxWorkers <- RiskWorkers, MayFail <- TRUE, MayNotAnswer <- TRUE,
    Downloads <- Files, Retained <- RetainedDownloads
Relaunches == INSTANCE WorkerRecordsProofs WITH
    Workers <- RelaunchWorkers, Processes <- RelaunchProcesses, Keys <- Cookies, Calls <- ToolCalls,
    Agents <- LoungeAgents, MaxSessions <- LoungeSessions, MaxRevisions <- LoungeRevisions,
    MaxPolls <- LoungePolls,
    Browsers <- AgentBrowsers, Default <- AgentDefault, MaxOps <- AgentOps, MaxEnds <- AgentEnds,
    Pages <- Tabs, First <- FirstTab, MaxDocuments <- GateDocuments, MaxCalls <- GateCalls,
    MaxWorkers <- GateWorkers, MayFail <- FALSE, MayNotAnswer <- TRUE,
    Downloads <- Files, Retained <- RetainedDownloads, EventPages <- RereadPages,
    EventDocuments <- RereadDocuments, EventWorkers <- RereadWorkers
Handoffs == INSTANCE HandoffProofs WITH
    MaxWorkers <- HandoffWorkers, MaxProcesses <- HandoffProcesses

-----------------------------------------------------------------------------
\* The lease's module here and where it is proved about are the same.
LEMMA SameLease ==
    /\ Lease!Init => Leases!Lease!Init
    /\ Lease!Next => Leases!Lease!Next
    /\ Lease!vars = Leases!Lease!vars
    /\ Leases!Lease!TypeOK /\ Leases!Lease!NotRecreated => Lease!TypeOK /\ Lease!NotRecreated
    /\ Leases!Lease!OnlyOrphansSignalled \/ UNCHANGED Leases!Lease!vars => Lease!OnlyOrphansSignalled
<1>1. Lease!Init => Leases!Lease!Init
  BY DEF
       Lease!Init, Leases!Lease!Init
<1>2. Lease!Next => Leases!Lease!Next
  BY DEF
       Lease!worker, Leases!Lease!worker, Lease!world, Leases!Lease!world, Lease!Removal,
       Leases!Lease!Removal, Lease!Write, Leases!Lease!Write, Lease!At, Leases!Lease!At,
       Lease!Goto, Leases!Lease!Goto, Lease!Owns, Leases!Lease!Owns, Lease!Foreign,
       Leases!Lease!Foreign, Lease!IsLeaseOf, Leases!Lease!IsLeaseOf, Lease!Unlocked,
       Leases!Lease!Unlocked, Lease!Matched, Leases!Lease!Matched, Lease!Inspection,
       Leases!Lease!Inspection, Lease!Decide, Leases!Lease!Decide, Lease!Adoptable,
       Leases!Lease!Adoptable, Lease!Terminable, Leases!Lease!Terminable, Lease!Attachable,
       Leases!Lease!Attachable, Lease!OwnsNative, Leases!Lease!OwnsNative, Lease!Prepare,
       Leases!Lease!Prepare, Lease!PrepareAdoption, Leases!Lease!PrepareAdoption, Lease!Signal,
       Leases!Lease!Signal, Lease!Terminated, Leases!Lease!Terminated, Lease!RemoveInspected,
       Leases!Lease!RemoveInspected, Lease!RemoveOrphan, Leases!Lease!RemoveOrphan,
       Lease!RemoveAdopted, Leases!Lease!RemoveAdopted, Lease!NewLease, Leases!Lease!NewLease,
       Lease!Link, Leases!Lease!Link, Lease!Claim, Leases!Lease!Claim, Lease!ClaimAdopted,
       Leases!Lease!ClaimAdopted, Lease!ClaimNativeIfNeeded, Leases!Lease!ClaimNativeIfNeeded,
       Lease!Launch, Leases!Lease!Launch, Lease!LaunchFails, Leases!Lease!LaunchFails,
       Lease!Establish, Leases!Lease!Establish, Lease!ReadOwn, Leases!Lease!ReadOwn,
       Lease!Heartbeat, Leases!Lease!Heartbeat, Lease!UpdatePhase, Leases!Lease!UpdatePhase,
       Lease!Finish, Leases!Lease!Finish, Lease!RequestClose, Leases!Lease!RequestClose,
       Lease!HandOffInPlace, Leases!Lease!HandOffInPlace, Lease!Resume, Leases!Lease!Resume,
       Lease!Exited, Leases!Lease!Exited, Lease!ProfileUnlocked, Leases!Lease!ProfileUnlocked,
       Lease!Release, Leases!Lease!Release, Lease!Detach, Leases!Lease!Detach, Lease!Crash,
       Leases!Lease!Crash, Lease!BrowserExits, Leases!Lease!BrowserExits, Lease!WorkerStep,
       Leases!Lease!WorkerStep, Lease!Next, Leases!Lease!Next
<1>3. Lease!vars = Leases!Lease!vars
  BY DEF Lease!vars, Leases!Lease!vars
<1>4. Leases!Lease!TypeOK /\ Leases!Lease!NotRecreated => Lease!TypeOK /\ Lease!NotRecreated
  BY DEF
       Lease!Modes, Leases!Lease!Modes, Lease!Phases, Leases!Lease!Phases, Lease!Leases,
       Leases!Lease!Leases, Lease!Removal, Leases!Lease!Removal, Lease!Write,
       Leases!Lease!Write, Lease!Owns, Leases!Lease!Owns, Lease!TypeOK, Leases!Lease!TypeOK,
       Lease!NotRecreated, Leases!Lease!NotRecreated
<1>5. Leases!Lease!OnlyOrphansSignalled \/ UNCHANGED Leases!Lease!vars => Lease!OnlyOrphansSignalled
  BY DEF
       Lease!vars, Leases!Lease!vars, Lease!OnlyOrphansSignalled,
       Leases!Lease!OnlyOrphansSignalled
<1> QED BY <1>1, <1>2, <1>3, <1>4, <1>5

\* So are the lease's with fewer workers,
LEMMA SameRelaunch ==
    /\ Relaunch!Init => Relaunches!Lease!Init
    /\ Relaunch!Next => Relaunches!Lease!Next
    /\ Relaunch!vars = Relaunches!Lease!vars
    /\ Relaunches!Lease!TypeOK /\ Relaunches!Lease!NotRecreated => Relaunch!TypeOK /\ Relaunch!NotRecreated
    /\ Relaunches!Lease!OnlyOrphansSignalled \/ UNCHANGED Relaunches!Lease!vars => Relaunch!OnlyOrphansSignalled
<1>1. Relaunch!Init => Relaunches!Lease!Init
  BY DEF
       Relaunch!Init, Relaunches!Lease!Init
<1>2. Relaunch!Next => Relaunches!Lease!Next
  BY DEF
       Relaunch!worker, Relaunches!Lease!worker, Relaunch!world, Relaunches!Lease!world,
       Relaunch!Removal, Relaunches!Lease!Removal, Relaunch!Write, Relaunches!Lease!Write,
       Relaunch!At, Relaunches!Lease!At, Relaunch!Goto, Relaunches!Lease!Goto, Relaunch!Owns,
       Relaunches!Lease!Owns, Relaunch!Foreign, Relaunches!Lease!Foreign, Relaunch!IsLeaseOf,
       Relaunches!Lease!IsLeaseOf, Relaunch!Unlocked, Relaunches!Lease!Unlocked,
       Relaunch!Matched, Relaunches!Lease!Matched, Relaunch!Inspection,
       Relaunches!Lease!Inspection, Relaunch!Decide, Relaunches!Lease!Decide,
       Relaunch!Adoptable, Relaunches!Lease!Adoptable, Relaunch!Terminable,
       Relaunches!Lease!Terminable, Relaunch!Attachable, Relaunches!Lease!Attachable,
       Relaunch!OwnsNative, Relaunches!Lease!OwnsNative, Relaunch!Prepare,
       Relaunches!Lease!Prepare, Relaunch!PrepareAdoption, Relaunches!Lease!PrepareAdoption,
       Relaunch!Signal, Relaunches!Lease!Signal, Relaunch!Terminated,
       Relaunches!Lease!Terminated, Relaunch!RemoveInspected, Relaunches!Lease!RemoveInspected,
       Relaunch!RemoveOrphan, Relaunches!Lease!RemoveOrphan, Relaunch!RemoveAdopted,
       Relaunches!Lease!RemoveAdopted, Relaunch!NewLease, Relaunches!Lease!NewLease,
       Relaunch!Link, Relaunches!Lease!Link, Relaunch!Claim, Relaunches!Lease!Claim,
       Relaunch!ClaimAdopted, Relaunches!Lease!ClaimAdopted, Relaunch!ClaimNativeIfNeeded,
       Relaunches!Lease!ClaimNativeIfNeeded, Relaunch!Launch, Relaunches!Lease!Launch,
       Relaunch!LaunchFails, Relaunches!Lease!LaunchFails, Relaunch!Establish,
       Relaunches!Lease!Establish, Relaunch!ReadOwn, Relaunches!Lease!ReadOwn,
       Relaunch!Heartbeat, Relaunches!Lease!Heartbeat, Relaunch!UpdatePhase,
       Relaunches!Lease!UpdatePhase, Relaunch!Finish, Relaunches!Lease!Finish,
       Relaunch!RequestClose, Relaunches!Lease!RequestClose, Relaunch!HandOffInPlace,
       Relaunches!Lease!HandOffInPlace, Relaunch!Resume, Relaunches!Lease!Resume,
       Relaunch!Exited, Relaunches!Lease!Exited, Relaunch!ProfileUnlocked,
       Relaunches!Lease!ProfileUnlocked, Relaunch!Release, Relaunches!Lease!Release,
       Relaunch!Detach, Relaunches!Lease!Detach, Relaunch!Crash, Relaunches!Lease!Crash,
       Relaunch!BrowserExits, Relaunches!Lease!BrowserExits, Relaunch!WorkerStep,
       Relaunches!Lease!WorkerStep, Relaunch!Next, Relaunches!Lease!Next
<1>3. Relaunch!vars = Relaunches!Lease!vars
  BY DEF Relaunch!vars, Relaunches!Lease!vars
<1>4. Relaunches!Lease!TypeOK /\ Relaunches!Lease!NotRecreated => Relaunch!TypeOK /\ Relaunch!NotRecreated
  BY DEF
       Relaunch!Modes, Relaunches!Lease!Modes, Relaunch!Phases, Relaunches!Lease!Phases,
       Relaunch!Leases, Relaunches!Lease!Leases, Relaunch!Removal, Relaunches!Lease!Removal,
       Relaunch!Write, Relaunches!Lease!Write, Relaunch!Owns, Relaunches!Lease!Owns,
       Relaunch!TypeOK, Relaunches!Lease!TypeOK, Relaunch!NotRecreated,
       Relaunches!Lease!NotRecreated
<1>5. Relaunches!Lease!OnlyOrphansSignalled \/ UNCHANGED Relaunches!Lease!vars => Relaunch!OnlyOrphansSignalled
  BY DEF
       Relaunch!vars, Relaunches!Lease!vars, Relaunch!OnlyOrphansSignalled,
       Relaunches!Lease!OnlyOrphansSignalled
<1> QED BY <1>1, <1>2, <1>3, <1>4, <1>5

\* the handoff's,
LEMMA SameHandoff ==
    /\ Private!Init => Handoffs!Init
    /\ Private!Next => Handoffs!Next
    /\ Private!vars = Handoffs!vars
    /\ Handoffs!TypeOK /\ Handoffs!PrivateStaysPrivate /\ Handoffs!DrivesWhatItOwns => Private!TypeOK /\ Private!PrivateStaysPrivate /\ Private!DrivesWhatItOwns
    /\ Handoffs!HumanIsNotInterrupted \/ UNCHANGED Handoffs!vars => Private!HumanIsNotInterrupted
<1>1. Private!Init => Handoffs!Init
  BY DEF
       Private!Blank, Handoffs!Blank, Private!Idle, Handoffs!Idle, Private!Init, Handoffs!Init
<1>2. Private!Next => Handoffs!Next
  BY DEF
       Private!Blank, Handoffs!Blank, Private!Idle, Handoffs!Idle, Private!Step, Handoffs!Step,
       Private!At, Handoffs!At, Private!Running, Handoffs!Running, Private!Unlocked,
       Handoffs!Unlocked, Private!Awaiting, Handoffs!Awaiting, Private!Matched,
       Handoffs!Matched, Private!Inspection, Handoffs!Inspection, Private!NewLease,
       Handoffs!NewLease, Private!Phase, Handoffs!Phase, Private!Released, Handoffs!Released,
       Private!durable, Handoffs!durable, Private!history, Handoffs!history, Private!Fail,
       Handoffs!Fail, Private!Refuse, Handoffs!Refuse, Private!Start, Handoffs!Start,
       Private!Proceed, Handoffs!Proceed, Private!MayContinue, Handoffs!MayContinue,
       Private!Terminable, Handoffs!Terminable, Private!Prepare, Handoffs!Prepare,
       Private!Terminated, Handoffs!Terminated, Private!AwaitsUser, Handoffs!AwaitsUser,
       Private!ReadRecord, Handoffs!ReadRecord, Private!Launch, Handoffs!Launch,
       Private!LaunchFails, Handoffs!LaunchFails, Private!Attach, Handoffs!Attach,
       Private!AttachFails, Handoffs!AttachFails, Private!Establish, Handoffs!Establish,
       Private!Unobserved, Handoffs!Unobserved, Private!Request, Handoffs!Request,
       Private!Continue, Handoffs!Continue, Private!StillPending, Handoffs!StillPending,
       Private!SameProcess, Handoffs!SameProcess, Private!DetachNative, Handoffs!DetachNative,
       Private!RecordAwaiting, Handoffs!RecordAwaiting, Private!ReleaseExited,
       Handoffs!ReleaseExited, Private!ClaimHuman, Handoffs!ClaimHuman, Private!LaunchHuman,
       Handoffs!LaunchHuman, Private!LaunchHumanFails, Handoffs!LaunchHumanFails,
       Private!RecordHuman, Handoffs!RecordHuman, Private!Complete, Handoffs!Complete,
       Private!Transition, Handoffs!Transition, Private!Permits, Handoffs!Permits,
       Private!Proves, Handoffs!Proves, Private!OwnerShowsHandoff, Handoffs!OwnerShowsHandoff,
       Private!CanRestore, Handoffs!CanRestore, Private!Restore, Handoffs!Restore,
       Private!ResumeGone, Handoffs!ResumeGone, Private!Adopt, Handoffs!Adopt,
       Private!RecordControlled, Handoffs!RecordControlled, Private!ResumeExited,
       Handoffs!ResumeExited, Private!ResumeLocked, Handoffs!ResumeLocked, Private!Resumed,
       Handoffs!Resumed, Private!ResumeFails, Handoffs!ResumeFails, Private!Verify,
       Handoffs!Verify, Private!StopRefused, Handoffs!StopRefused, Private!CloseOwned,
       Handoffs!CloseOwned, Private!Stop, Handoffs!Stop, Private!StopFinishes,
       Handoffs!StopFinishes, Private!DetachForWorkerShutdown, Handoffs!DetachForWorkerShutdown,
       Private!Crash, Handoffs!Crash, Private!Restart, Handoffs!Restart, Private!BrowserExits,
       Handoffs!BrowserExits, Private!Next, Handoffs!Next
<1>3. Private!vars = Handoffs!vars
  BY DEF Private!vars, Handoffs!vars
<1>4. Handoffs!TypeOK /\ Handoffs!PrivateStaysPrivate /\ Handoffs!DrivesWhatItOwns => Private!TypeOK /\ Private!PrivateStaysPrivate /\ Private!DrivesWhatItOwns
  BY DEF
       Private!Ids, Handoffs!Ids, Private!Leases, Handoffs!Leases, Private!At, Handoffs!At,
       Private!TypeOK, Handoffs!TypeOK, Private!PrivateStaysPrivate,
       Handoffs!PrivateStaysPrivate, Private!DrivesWhatItOwns, Handoffs!DrivesWhatItOwns
<1>5. Handoffs!HumanIsNotInterrupted \/ UNCHANGED Handoffs!vars => Private!HumanIsNotInterrupted
  BY DEF
       Private!vars, Handoffs!vars, Private!Running, Handoffs!Running,
       Private!HumanIsNotInterrupted, Handoffs!HumanIsNotInterrupted
<1> QED BY <1>1, <1>2, <1>3, <1>4, <1>5

\* that of the cookies,
LEMMA SameStorage ==
    /\ Storage!Init => Leases!Storage!Init
    /\ Storage!Next => Leases!Storage!Next
    /\ Storage!vars = Leases!Storage!vars
    /\ Leases!Storage!TypeOK /\ Leases!Storage!ReattachmentIsTold => Storage!TypeOK /\ Storage!ReattachmentIsTold
<1>1. Storage!Init => Leases!Storage!Init
  BY DEF
       Storage!Flows, Leases!Storage!Flows, Storage!Moments, Leases!Storage!Moments,
       Storage!After, Leases!Storage!After, Storage!Init, Leases!Storage!Init
<1>2. Storage!Next => Leases!Storage!Next
  BY DEF
       Storage!Moments, Leases!Storage!Moments, Storage!After, Leases!Storage!After,
       Storage!Offline, Leases!Storage!Offline, Storage!Live, Leases!Storage!Live,
       Storage!Reads, Leases!Storage!Reads, Storage!ReadBefore, Leases!Storage!ReadBefore,
       Storage!ReadHuman, Leases!Storage!ReadHuman, Storage!ReadStart, Leases!Storage!ReadStart,
       Storage!ReadLoad, Leases!Storage!ReadLoad, Storage!Login, Leases!Storage!Login,
       Storage!ControlledStart, Leases!Storage!ControlledStart, Storage!SiteChanges,
       Leases!Storage!SiteChanges, Storage!Human, Leases!Storage!Human, Storage!Before,
       Leases!Storage!Before, Storage!Known, Leases!Storage!Known, Storage!HumanAdded,
       Leases!Storage!HumanAdded, Storage!Comparable, Leases!Storage!Comparable,
       Storage!AddedLost, Leases!Storage!AddedLost, Storage!AllLost, Leases!Storage!AllLost,
       Storage!ControlledStartLoss, Leases!Storage!ControlledStartLoss, Storage!TargetLoadLoss,
       Leases!Storage!TargetLoadLoss, Storage!Preserved, Leases!Storage!Preserved,
       Storage!State, Leases!Storage!State, Storage!LossBoundary, Leases!Storage!LossBoundary,
       Storage!AuthNotPersisted, Leases!Storage!AuthNotPersisted, Storage!Told,
       Leases!Storage!Told, Storage!Compare, Leases!Storage!Compare, Storage!Next,
       Leases!Storage!Next
<1>3. Storage!vars = Leases!Storage!vars
  BY DEF Storage!vars, Leases!Storage!vars
<1>4. Leases!Storage!TypeOK /\ Leases!Storage!ReattachmentIsTold => Storage!TypeOK /\ Storage!ReattachmentIsTold
  BY DEF
       Storage!Moments, Leases!Storage!Moments, Storage!Before, Leases!Storage!Before,
       Storage!Known, Leases!Storage!Known, Storage!TypeOK, Leases!Storage!TypeOK,
       Storage!TheirKeys, Leases!Storage!TheirKeys, Storage!ReattachmentIsTold,
       Leases!Storage!ReattachmentIsTold
<1> QED BY <1>1, <1>2, <1>3, <1>4

\* and the connection's, whose sets are finite alike.
LEMMA SameConnection ==
    /\ Connection!Init => Leases!Connection!Init
    /\ Connection!Next => Leases!Connection!Next
    /\ Connection!vars = Leases!Connection!vars
    /\ Leases!Connection!TypeOK /\ Leases!Connection!OneWait /\ Leases!Connection!WakeableOnlyWhileWaiting
       => Connection!TypeOK /\ Connection!OneWait /\ Connection!WakeableOnlyWhileWaiting
<1>1. Connection!Init => Leases!Connection!Init
  BY DEF
       Connection!Free, Leases!Connection!Free, Connection!Init, Leases!Connection!Init
<1>2. Connection!Next => Leases!Connection!Next
  BY DEF
       Connection!store, Leases!Connection!store, Connection!service, Leases!Connection!service,
       Connection!Free, Leases!Connection!Free, Connection!WaitSteps,
       Leases!Connection!WaitSteps, Connection!Request, Leases!Connection!Request,
       Connection!Return, Leases!Connection!Return, Connection!Answer, Leases!Connection!Answer,
       Connection!Replied, Leases!Connection!Replied, Connection!Open, Leases!Connection!Open,
       Connection!Reply, Leases!Connection!Reply, Connection!SetState,
       Leases!Connection!SetState, Connection!Presence, Leases!Connection!Presence,
       Connection!Execute, Leases!Connection!Execute, Connection!Pending,
       Leases!Connection!Pending, Connection!Disconnect, Leases!Connection!Disconnect,
       Connection!Join, Leases!Connection!Join, Connection!Joined, Leases!Connection!Joined,
       Connection!Ask, Leases!Connection!Ask, Connection!Status, Leases!Connection!Status,
       Connection!Pin, Leases!Connection!Pin, Connection!NoticeKnown,
       Leases!Connection!NoticeKnown, Connection!CallFails, Leases!Connection!CallFails,
       Connection!Close, Leases!Connection!Close, Connection!CloseStore,
       Leases!Connection!CloseStore, Connection!Closed, Leases!Connection!Closed,
       Connection!StartWait, Leases!Connection!StartWait, Connection!Listening,
       Leases!Connection!Listening, Connection!Claimed, Leases!Connection!Claimed,
       Connection!Expired, Leases!Connection!Expired, Connection!NoticeChanged,
       Leases!Connection!NoticeChanged, Connection!Looked, Leases!Connection!Looked,
       Connection!Paused, Leases!Connection!Paused, Connection!Aborted,
       Leases!Connection!Aborted, Connection!WaitFailed, Leases!Connection!WaitFailed,
       Connection!GiveUp, Leases!Connection!GiveUp, Connection!GaveUp, Leases!Connection!GaveUp,
       Connection!Delivered, Leases!Connection!Delivered, Connection!Cancel,
       Leases!Connection!Cancel, Connection!OtherPins, Leases!Connection!OtherPins,
       Connection!OtherSends, Leases!Connection!OtherSends, Connection!Superseded,
       Leases!Connection!Superseded, Connection!Continue, Leases!Connection!Continue,
       Connection!Next, Leases!Connection!Next
<1>3. Connection!vars = Leases!Connection!vars
  BY DEF Connection!vars, Leases!Connection!vars, Connection!service,
       Leases!Connection!service, Connection!store, Leases!Connection!store
<1>4. \A S : Connection!Cardinality(S) = Leases!Connection!Cardinality(S)
  BY Zenon DEF Connection!Cardinality, Leases!Connection!Cardinality
<1>5. Connection!WaitSteps = Leases!Connection!WaitSteps
  BY DEF Connection!WaitSteps, Leases!Connection!WaitSteps
<1>6. Leases!Connection!OneWait <=> Connection!OneWait
  BY <1>4, <1>5 DEF Connection!OneWait, Leases!Connection!OneWait
<1>7. Leases!Connection!TypeOK => Connection!TypeOK
  BY <1>4, <1>5, Zenon DEF Connection!Revisions, Leases!Connection!Revisions, Connection!Ids,
     Leases!Connection!Ids, Connection!TypeOK, Leases!Connection!TypeOK
<1>8. Leases!Connection!WakeableOnlyWhileWaiting => Connection!WakeableOnlyWhileWaiting
  BY DEF Connection!WakeableOnlyWhileWaiting, Leases!Connection!WakeableOnlyWhileWaiting
<1> QED BY <1>1, <1>2, <1>3, <1>6, <1>7, <1>8

\* So are what the supervisor remembers of an agent,
LEMMA SameAgent ==
    /\ Agent!Init => Leases!Agent!Init
    /\ Agent!Next => Leases!Agent!Next
    /\ Agent!vars = Leases!Agent!vars
    /\ Leases!Agent!TypeOK /\ Leases!Agent!StoredFollows
       => Agent!TypeOK /\ Agent!StoredFollows
    /\ Leases!Agent!LiveBrowserStays \/ UNCHANGED Leases!Agent!vars => Agent!LiveBrowserStays
<1>1. Agent!Init => Leases!Agent!Init
  BY DEF
       Agent!Idle, Leases!Agent!Idle, Agent!FreshHost, Leases!Agent!FreshHost,
       Agent!Init, Leases!Agent!Init
<1>2. Agent!Next => Leases!Agent!Next
  BY DEF
       Agent!Policies, Leases!Agent!Policies, Agent!Commands, Leases!Agent!Commands,
       Agent!Idle, Leases!Agent!Idle, Agent!FreshHost, Leases!Agent!FreshHost,
       Agent!NewWorker, Leases!Agent!NewWorker, Agent!Live, Leases!Agent!Live, Agent!At,
       Leases!Agent!At, Agent!Go, Leases!Agent!Go, Agent!Written, Leases!Agent!Written,
       Agent!RestoredBrowser, Leases!Agent!RestoredBrowser, Agent!RestoredPolicy,
       Leases!Agent!RestoredPolicy, Agent!Bind, Leases!Agent!Bind, Agent!Persisted,
       Leases!Agent!Persisted, Agent!Begin, Leases!Agent!Begin, Agent!Switches,
       Leases!Agent!Switches, Agent!Take, Leases!Agent!Take, Agent!Permitted,
       Leases!Agent!Permitted, Agent!Retune, Leases!Agent!Retune, Agent!Persist,
       Leases!Agent!Persist, Agent!EnsureWorker, Leases!Agent!EnsureWorker,
       Agent!Started, Leases!Agent!Started, Agent!Answered, Leases!Agent!Answered,
       Agent!Report, Leases!Agent!Report, Agent!AuthReport, Leases!Agent!AuthReport,
       Agent!RequestFails, Leases!Agent!RequestFails, Agent!Start, Leases!Agent!Start,
       Agent!Simple, Leases!Agent!Simple, Agent!RequestLoginHandoff,
       Leases!Agent!RequestLoginHandoff, Agent!ResumeAfterLogin,
       Leases!Agent!ResumeAfterLogin, Agent!Refused, Leases!Agent!Refused, Agent!Note,
       Leases!Agent!Note, Agent!WorkerDies, Leases!Agent!WorkerDies, Agent!HostRestarts,
       Leases!Agent!HostRestarts, Agent!Next, Leases!Agent!Next
<1>3. Agent!vars = Leases!Agent!vars
  BY DEF Agent!vars, Leases!Agent!vars
<1>4. Leases!Agent!TypeOK /\ Leases!Agent!StoredFollows
      => Agent!TypeOK /\ Agent!StoredFollows
  BY DEF
       Agent!Policies, Leases!Agent!Policies, Agent!At, Leases!Agent!At, Agent!TypeOK,
       Leases!Agent!TypeOK, Agent!StoredFollows, Leases!Agent!StoredFollows
<1>5. Leases!Agent!LiveBrowserStays \/ UNCHANGED Leases!Agent!vars => Agent!LiveBrowserStays
  BY DEF
       Agent!vars, Leases!Agent!vars, Agent!Live, Leases!Agent!Live, Agent!At,
       Leases!Agent!At, Agent!Go, Leases!Agent!Go, Agent!Switches,
       Leases!Agent!Switches, Agent!Take, Leases!Agent!Take, Agent!LiveBrowserStays,
       Leases!Agent!LiveBrowserStays
<1> QED BY <1>1, <1>2, <1>3, <1>4, <1>5

\* and the tabs, over workers
LEMMA SameRisk ==
    /\ Risk!Init => Leases!Risk!Init
    /\ Risk!Next => Leases!Risk!Next
    /\ Risk!vars = Leases!Risk!vars
    /\ Leases!Risk!TypeOK /\ Leases!Risk!GateHolds
       => Risk!TypeOK /\ Risk!GateHolds
    /\ Leases!Risk!ReplacementTold \/ UNCHANGED Leases!Risk!vars => Risk!ReplacementTold
<1>1. Risk!Init => Leases!Risk!Init
  BY DEF
       Risk!Clean, Leases!Risk!Clean, Risk!Init, Leases!Risk!Init
<1>2. Risk!Next => Leases!Risk!Next
  BY DEF
       Risk!Open, Leases!Risk!Open, Risk!Job, Leases!Risk!Job, Risk!Mine,
       Leases!Risk!Mine, Risk!Become, Leases!Risk!Become, Risk!Risk, Leases!Risk!Risk,
       Risk!JobIds, Leases!Risk!JobIds, Risk!RiskRecord, Leases!Risk!RiskRecord,
       Risk!SelectedRecord, Leases!Risk!SelectedRecord, Risk!JobCompute,
       Leases!Risk!JobCompute, Risk!JobWrite, Leases!Risk!JobWrite, Risk!Lost,
       Leases!Risk!Lost, Risk!Renewed, Leases!Risk!Renewed, Risk!Navigated,
       Leases!Risk!Navigated, Risk!Closed, Leases!Risk!Closed, Risk!PageNavigates,
       Leases!Risk!PageNavigates, Risk!PageCloses, Leases!Risk!PageCloses, Risk!At,
       Leases!Risk!At, Risk!Begin, Leases!Risk!Begin, Risk!BeginOnSelected,
       Leases!Risk!BeginOnSelected, Risk!BeginClose, Leases!Risk!BeginClose,
       Risk!SelectTab, Leases!Risk!SelectTab, Risk!OpenNewTab, Leases!Risk!OpenNewTab,
       Risk!Noted, Leases!Risk!Noted, Risk!NoteFileSelection,
       Leases!Risk!NoteFileSelection, Risk!SetInputFiles, Leases!Risk!SetInputFiles,
       Risk!Note, Leases!Risk!Note, Risk!Permitted, Leases!Risk!Permitted,
       Risk!Preflight, Leases!Risk!Preflight, Risk!Dispatch, Leases!Risk!Dispatch,
       Risk!Reconcile, Leases!Risk!Reconcile, Risk!Select, Leases!Risk!Select, Risk!End,
       Leases!Risk!End, Risk!WorkerLost, Leases!Risk!WorkerLost, Risk!Attach,
       Leases!Risk!Attach, Risk!Continuity, Leases!Risk!Continuity, Risk!AttachSelected,
       Leases!Risk!AttachSelected, Risk!AttachIds, Leases!Risk!AttachIds, Risk!Restore,
       Leases!Risk!Restore, Risk!Next, Leases!Risk!Next, Risk!Cardinality,
       Leases!Risk!Cardinality
<1>3. Risk!vars = Leases!Risk!vars
  BY DEF Risk!vars, Leases!Risk!vars
<1>4. Leases!Risk!TypeOK /\ Leases!Risk!GateHolds
      => Risk!TypeOK /\ Risk!GateHolds
  BY DEF
       Risk!Open, Leases!Risk!Open, Risk!Mine, Leases!Risk!Mine, Risk!At,
       Leases!Risk!At, Risk!TypeOK, Leases!Risk!TypeOK, Risk!GateHolds,
       Leases!Risk!GateHolds
<1>5. Leases!Risk!ReplacementTold \/ UNCHANGED Leases!Risk!vars => Risk!ReplacementTold
  BY DEF
       Risk!vars, Leases!Risk!vars, Risk!Mine, Leases!Risk!Mine, Risk!At,
       Leases!Risk!At, Risk!ReplacementTold, Leases!Risk!ReplacementTold
<1> QED BY <1>1, <1>2, <1>3, <1>4, <1>5

\* and of fewer.
LEMMA SameGate ==
    /\ Gate!Init => Relaunches!Risk!Init
    /\ Gate!Next => Relaunches!Risk!Next
    /\ Gate!vars = Relaunches!Risk!vars
    /\ Relaunches!Risk!TypeOK /\ Relaunches!Risk!GateHolds
       => Gate!TypeOK /\ Gate!GateHolds
    /\ Relaunches!Risk!ReplacementTold \/ UNCHANGED Relaunches!Risk!vars => Gate!ReplacementTold
<1>1. Gate!Init => Relaunches!Risk!Init
  BY DEF
       Gate!Clean, Relaunches!Risk!Clean, Gate!Init, Relaunches!Risk!Init
<1>2. Gate!Next => Relaunches!Risk!Next
  BY DEF
       Gate!Open, Relaunches!Risk!Open, Gate!Job, Relaunches!Risk!Job, Gate!Mine,
       Relaunches!Risk!Mine, Gate!Become, Relaunches!Risk!Become, Gate!Risk,
       Relaunches!Risk!Risk, Gate!JobIds, Relaunches!Risk!JobIds, Gate!RiskRecord,
       Relaunches!Risk!RiskRecord, Gate!SelectedRecord, Relaunches!Risk!SelectedRecord,
       Gate!JobCompute, Relaunches!Risk!JobCompute, Gate!JobWrite,
       Relaunches!Risk!JobWrite, Gate!Lost, Relaunches!Risk!Lost, Gate!Renewed,
       Relaunches!Risk!Renewed, Gate!Navigated, Relaunches!Risk!Navigated, Gate!Closed,
       Relaunches!Risk!Closed, Gate!PageNavigates, Relaunches!Risk!PageNavigates,
       Gate!PageCloses, Relaunches!Risk!PageCloses, Gate!At, Relaunches!Risk!At,
       Gate!Begin, Relaunches!Risk!Begin, Gate!BeginOnSelected,
       Relaunches!Risk!BeginOnSelected, Gate!BeginClose, Relaunches!Risk!BeginClose,
       Gate!SelectTab, Relaunches!Risk!SelectTab, Gate!OpenNewTab,
       Relaunches!Risk!OpenNewTab, Gate!Noted, Relaunches!Risk!Noted,
       Gate!NoteFileSelection, Relaunches!Risk!NoteFileSelection, Gate!SetInputFiles,
       Relaunches!Risk!SetInputFiles, Gate!Note, Relaunches!Risk!Note, Gate!Permitted,
       Relaunches!Risk!Permitted, Gate!Preflight, Relaunches!Risk!Preflight,
       Gate!Dispatch, Relaunches!Risk!Dispatch, Gate!Reconcile,
       Relaunches!Risk!Reconcile, Gate!Select, Relaunches!Risk!Select, Gate!End,
       Relaunches!Risk!End, Gate!WorkerLost, Relaunches!Risk!WorkerLost, Gate!Attach,
       Relaunches!Risk!Attach, Gate!Continuity, Relaunches!Risk!Continuity,
       Gate!AttachSelected, Relaunches!Risk!AttachSelected, Gate!AttachIds,
       Relaunches!Risk!AttachIds, Gate!Restore, Relaunches!Risk!Restore, Gate!Next,
       Relaunches!Risk!Next, Gate!Cardinality, Relaunches!Risk!Cardinality
<1>3. Gate!vars = Relaunches!Risk!vars
  BY DEF Gate!vars, Relaunches!Risk!vars
<1>4. Relaunches!Risk!TypeOK /\ Relaunches!Risk!GateHolds
      => Gate!TypeOK /\ Gate!GateHolds
  BY DEF
       Gate!Open, Relaunches!Risk!Open, Gate!Mine, Relaunches!Risk!Mine, Gate!At,
       Relaunches!Risk!At, Gate!TypeOK, Relaunches!Risk!TypeOK, Gate!GateHolds,
       Relaunches!Risk!GateHolds
<1>5. Relaunches!Risk!ReplacementTold \/ UNCHANGED Relaunches!Risk!vars => Gate!ReplacementTold
  BY DEF
       Gate!vars, Relaunches!Risk!vars, Gate!Mine, Relaunches!Risk!Mine, Gate!At,
       Relaunches!Risk!At, Gate!ReplacementTold, Relaunches!Risk!ReplacementTold
<1> QED BY <1>1, <1>2, <1>3, <1>4, <1>5

\* So are the journals of downloads
LEMMA SameDownload ==
    /\ Download!Init => Leases!Download!Init
    /\ Download!Next => Leases!Download!Next
    /\ Download!vars = Leases!Download!vars
    /\ Leases!Download!TypeOK /\ Leases!Download!NumberedOnce /\ Leases!Download!InProgressIsCaptured
       => Download!TypeOK /\ Download!NumberedOnce /\ Download!InProgressIsCaptured
    /\ Leases!Download!NeverBackwards => Download!NeverBackwards
<1>1. Download!Init => Leases!Download!Init
  BY DEF
       Download!Init, Leases!Download!Init
<1>2. Download!Next => Leases!Download!Next
  BY DEF
       Download!agent, Leases!Download!agent, Download!Trimmed, Leases!Download!Trimmed,
       Download!Persist, Leases!Download!Persist, Download!NextNumber,
       Leases!Download!NextNumber, Download!Capture, Leases!Download!Capture,
       Download!Save, Leases!Download!Save, Download!Take, Leases!Download!Take,
       Download!WriteStarts, Leases!Download!WriteStarts, Download!Landed,
       Leases!Download!Landed, Download!WriteEnds, Leases!Download!WriteEnds,
       Download!WorkerLost, Leases!Download!WorkerLost, Download!Interrupted,
       Leases!Download!Interrupted, Download!Restored, Leases!Download!Restored,
       Download!Restore, Leases!Download!Restore, Download!List, Leases!Download!List,
       Download!Next, Leases!Download!Next, Download!Cardinality,
       Leases!Download!Cardinality, Download!Max, Leases!Download!Max
<1>3. Download!vars = Leases!Download!vars
  BY DEF Download!vars, Leases!Download!vars
<1>4. Leases!Download!TypeOK /\ Leases!Download!NumberedOnce /\ Leases!Download!InProgressIsCaptured
      => Download!TypeOK /\ Download!NumberedOnce /\ Download!InProgressIsCaptured
  BY DEF
       Download!TypeOK, Leases!Download!TypeOK, Download!NumberedOnce,
       Leases!Download!NumberedOnce, Download!InProgressIsCaptured,
       Leases!Download!InProgressIsCaptured, Download!Cardinality,
       Leases!Download!Cardinality, Download!Max, Leases!Download!Max
<1>5. Leases!Download!NeverBackwards => Download!NeverBackwards
  BY DEF
       Download!NeverBackwards, Leases!Download!NeverBackwards, Download!Cardinality,
       Leases!Download!Cardinality, Download!Max, Leases!Download!Max
<1> QED BY <1>1, <1>2, <1>3, <1>4, <1>5

\* and of the events of pages, of two
LEMMA SameEvents ==
    /\ Events!Init => Leases!Events!Init
    /\ Events!Next => Leases!Events!Next
    /\ Events!vars = Leases!Events!vars
    /\ Leases!Events!TypeOK /\ Leases!Events!ReplacementRecorded /\ Leases!Events!SettledIsWritten
       => Events!TypeOK /\ Events!ReplacementRecorded /\ Events!SettledIsWritten
<1>1. Events!Init => Leases!Events!Init
  BY DEF
       Events!Init, Leases!Events!Init
<1>2. Events!Next => Leases!Events!Next
  BY DEF
       Events!world, Leases!Events!world, Events!journal, Leases!Events!journal,
       Events!agent, Leases!Events!agent, Events!Navigates, Leases!Events!Navigates,
       Events!Closes, Leases!Events!Closes, Events!Doing, Leases!Events!Doing,
       Events!ReadOrigin, Leases!Events!ReadOrigin, Events!Record, Leases!Events!Record,
       Events!Observed, Leases!Events!Observed, Events!Same, Leases!Events!Same,
       Events!Unchanged, Leases!Events!Unchanged, Events!Navigated,
       Leases!Events!Navigated, Events!Closed, Leases!Events!Closed, Events!WriteStarts,
       Leases!Events!WriteStarts, Events!Landed, Leases!Events!Landed, Events!Remaining,
       Leases!Events!Remaining, Events!WriteEnds, Leases!Events!WriteEnds,
       Events!ListAsks, Leases!Events!ListAsks, Events!ListAnswers,
       Leases!Events!ListAnswers, Events!WorkerLost, Leases!Events!WorkerLost,
       Events!Restored, Leases!Events!Restored, Events!Restore, Leases!Events!Restore,
       Events!Next, Leases!Events!Next, Events!ToSet, Leases!Events!ToSet,
       Events!IsInjective, Leases!Events!IsInjective
<1>3. Events!vars = Leases!Events!vars
  BY DEF Events!vars, Leases!Events!vars
<1>4. Leases!Events!TypeOK /\ Leases!Events!ReplacementRecorded /\ Leases!Events!SettledIsWritten
      => Events!TypeOK /\ Events!ReplacementRecorded /\ Events!SettledIsWritten
  BY DEF
       Events!Doing, Leases!Events!Doing, Events!TypeOK, Leases!Events!TypeOK,
       Events!ReplacementRecorded, Leases!Events!ReplacementRecorded,
       Events!SettledIsWritten, Leases!Events!SettledIsWritten, Events!ToSet,
       Leases!Events!ToSet, Events!IsInjective, Leases!Events!IsInjective
<1> QED BY <1>1, <1>2, <1>3, <1>4

\* and of one with more documents and workers.
LEMMA SameReread ==
    /\ Reread!Init => Relaunches!Events!Init
    /\ Reread!Next => Relaunches!Events!Next
    /\ Reread!vars = Relaunches!Events!vars
    /\ Relaunches!Events!TypeOK /\ Relaunches!Events!ReplacementRecorded /\ Relaunches!Events!SettledIsWritten
       => Reread!TypeOK /\ Reread!ReplacementRecorded /\ Reread!SettledIsWritten
<1>1. Reread!Init => Relaunches!Events!Init
  BY DEF
       Reread!Init, Relaunches!Events!Init
<1>2. Reread!Next => Relaunches!Events!Next
  BY DEF
       Reread!world, Relaunches!Events!world, Reread!journal, Relaunches!Events!journal,
       Reread!agent, Relaunches!Events!agent, Reread!Navigates,
       Relaunches!Events!Navigates, Reread!Closes, Relaunches!Events!Closes,
       Reread!Doing, Relaunches!Events!Doing, Reread!ReadOrigin,
       Relaunches!Events!ReadOrigin, Reread!Record, Relaunches!Events!Record,
       Reread!Observed, Relaunches!Events!Observed, Reread!Same, Relaunches!Events!Same,
       Reread!Unchanged, Relaunches!Events!Unchanged, Reread!Navigated,
       Relaunches!Events!Navigated, Reread!Closed, Relaunches!Events!Closed,
       Reread!WriteStarts, Relaunches!Events!WriteStarts, Reread!Landed,
       Relaunches!Events!Landed, Reread!Remaining, Relaunches!Events!Remaining,
       Reread!WriteEnds, Relaunches!Events!WriteEnds, Reread!ListAsks,
       Relaunches!Events!ListAsks, Reread!ListAnswers, Relaunches!Events!ListAnswers,
       Reread!WorkerLost, Relaunches!Events!WorkerLost, Reread!Restored,
       Relaunches!Events!Restored, Reread!Restore, Relaunches!Events!Restore,
       Reread!Next, Relaunches!Events!Next, Reread!ToSet, Relaunches!Events!ToSet,
       Reread!IsInjective, Relaunches!Events!IsInjective
<1>3. Reread!vars = Relaunches!Events!vars
  BY DEF Reread!vars, Relaunches!Events!vars
<1>4. Relaunches!Events!TypeOK /\ Relaunches!Events!ReplacementRecorded /\ Relaunches!Events!SettledIsWritten
      => Reread!TypeOK /\ Reread!ReplacementRecorded /\ Reread!SettledIsWritten
  BY DEF
       Reread!Doing, Relaunches!Events!Doing, Reread!TypeOK, Relaunches!Events!TypeOK,
       Reread!ReplacementRecorded, Relaunches!Events!ReplacementRecorded,
       Reread!SettledIsWritten, Relaunches!Events!SettledIsWritten, Reread!ToSet,
       Relaunches!Events!ToSet, Reread!IsInjective, Relaunches!Events!IsInjective
<1> QED BY <1>1, <1>2, <1>3, <1>4

-----------------------------------------------------------------------------
\* A behaviour stays with the part it begins with.
LEMMA PartStays ==
    ASSUME [Next]_vars
    PROVE  part' = part
BY DEF Next, vars, LeaseSteps, RelaunchSteps, PrivateSteps, ConnectionSteps, AgentSteps,
   RiskSteps, GateSteps, DownloadSteps, EventsSteps, RereadSteps, StorageSteps,
   AloneProfileLease, AloneHandoff, AloneLoungeConnection, AloneAgentContext, AlonePageRisk,
   AloneDownloadJournal, AlonePageEvents, AloneStorageContinuity

\* Each part begins and goes on as its module does.
LEMMA PartsBegin ==
    ASSUME Init
    PROVE  /\ part = "lease" => Leases!Lease!Init
           /\ part = "relaunch" => Relaunches!Lease!Init
           /\ part = "handoff" => Handoffs!Init
           /\ part = "storage" => Leases!Storage!Init
           /\ part = "connection" => Leases!Connection!Init
           /\ part = "agent" => Leases!Agent!Init
           /\ part = "risk" => Leases!Risk!Init
           /\ part = "gate" => Relaunches!Risk!Init
           /\ part = "downloads" => Leases!Download!Init
           /\ part = "events" => Leases!Events!Init
           /\ part = "reread" => Relaunches!Events!Init
BY SameLease, SameRelaunch, SameHandoff, SameStorage, SameConnection, SameAgent, SameRisk, SameGate,
   SameDownload, SameEvents, SameReread
   DEF Init, LeaseBegins, RelaunchBegins, PrivateBegins, ConnectionBegins, AgentBegins,
   RiskBegins, GateBegins, DownloadBegins, EventsBegins, RereadBegins, StorageBegins

LEMMA PartsGoOn ==
    ASSUME [Next]_vars
    PROVE  /\ part = "lease" => [Leases!Lease!Next]_(Leases!Lease!vars)
           /\ part = "relaunch" => [Relaunches!Lease!Next]_(Relaunches!Lease!vars)
           /\ part = "handoff" => [Handoffs!Next]_(Handoffs!vars)
           /\ part = "storage" => [Leases!Storage!Next]_(Leases!Storage!vars)
           /\ part = "connection" => [Leases!Connection!Next]_(Leases!Connection!vars)
           /\ part = "agent" => [Leases!Agent!Next]_(Leases!Agent!vars)
           /\ part = "risk" => [Leases!Risk!Next]_(Leases!Risk!vars)
           /\ part = "gate" => [Relaunches!Risk!Next]_(Relaunches!Risk!vars)
           /\ part = "downloads" => [Leases!Download!Next]_(Leases!Download!vars)
           /\ part = "events" => [Leases!Events!Next]_(Leases!Events!vars)
           /\ part = "reread" => [Relaunches!Events!Next]_(Relaunches!Events!vars)
<1>1. CASE Next
  BY <1>1, SameLease, SameRelaunch, SameHandoff, SameStorage, SameConnection, SameAgent, SameRisk,
     SameGate, SameDownload, SameEvents, SameReread
     DEF Next, LeaseSteps, RelaunchSteps, PrivateSteps, ConnectionSteps, AgentSteps,
     RiskSteps, GateSteps, DownloadSteps, EventsSteps, RereadSteps, StorageSteps
<1>2. CASE UNCHANGED vars
  BY <1>2
     DEF vars, Leases!Lease!vars, Relaunches!Lease!vars, Handoffs!vars, Leases!Storage!vars,
     Leases!Connection!vars, Leases!Connection!service, Leases!Connection!store, loungeConnection,
     Leases!Agent!vars, Leases!Risk!vars, Relaunches!Risk!vars, Leases!Download!vars,
     Leases!Events!vars, Relaunches!Events!vars
<1> QED BY <1>1, <1>2

\* What is called preserved is there and what was lost is told, for any cookies.
THEOREM LossesAreReported == Spec => []LossesAreTold
<1> DEFINE P == part = "storage"
<1>1. Init => (P => Leases!Storage!Init)
  BY PartsBegin
<1>2. [Next]_vars => (P' <=> P) /\ (P => [Leases!Storage!Next]_(Leases!Storage!vars))
  BY PartStays, PartsGoOn
<1>3. Leases!Storage!Spec => []Leases!LossesAreTold
  BY Leases!ReportsAreTrue
<1>4. (P => Leases!LossesAreTold) => LossesAreTold
  BY SameStorage DEF LossesAreTold, Leases!LossesAreTold
<1> HIDE DEF P
<1> QED
  BY <1>1, <1>2, <1>3, <1>4, PTL DEF Spec, Leases!Storage!Spec

\* No browser that a living worker drives or a human uses is signalled, and no
\* released lease is written again, for any workers and browser processes.
THEOREM LeaseFileIsRespected ==
    ASSUME None \notin Leases!Lease!Leases, None \notin Relaunches!Lease!Leases
    PROVE  Spec => LeaseIsRespected
<1> DEFINE P == part = "lease"
           Q == part = "relaunch"
<1>1. Init => (P => Leases!Lease!Init) /\ (Q => Relaunches!Lease!Init)
  BY PartsBegin
<1>2. [Next]_vars => /\ (P' <=> P) /\ (Q' <=> Q)
                     /\ P => [Leases!Lease!Next]_(Leases!Lease!vars)
                     /\ Q => [Relaunches!Lease!Next]_(Relaunches!Lease!vars)
  BY PartStays, PartsGoOn
<1>3. Leases!Lease!Init /\ [][Leases!Lease!Next]_(Leases!Lease!vars) => Leases!LeaseIsRespected
  BY Leases!LeasesAreRespected
<1>4. Relaunches!Lease!Init /\ [][Relaunches!Lease!Next]_(Relaunches!Lease!vars) => Relaunches!LeaseIsRespected
  BY Relaunches!LeasesAreRespected
<1>5. /\ Leases!Lease!TypeOK /\ Leases!Lease!NotRecreated => Lease!TypeOK /\ Lease!NotRecreated
      /\ Relaunches!Lease!TypeOK /\ Relaunches!Lease!NotRecreated
         => Relaunch!TypeOK /\ Relaunch!NotRecreated
  BY SameLease, SameRelaunch
<1>6. /\ [Leases!Lease!OnlyOrphansSignalled]_(Leases!Lease!vars) => Lease!OnlyOrphansSignalled
      /\ [Relaunches!Lease!OnlyOrphansSignalled]_(Relaunches!Lease!vars)
         => Relaunch!OnlyOrphansSignalled
  BY SameLease, SameRelaunch
<1>7. (P => Lease!OnlyOrphansSignalled) /\ (Q => Relaunch!OnlyOrphansSignalled)
      => [/\ part = "lease" => Lease!OnlyOrphansSignalled
          /\ part = "relaunch" => Relaunch!OnlyOrphansSignalled]_vars
  OBVIOUS
<1> HIDE DEF P, Q
<1>8. Spec => [](P => Lease!TypeOK /\ Lease!NotRecreated)
  BY <1>1, <1>2, <1>3, <1>5, PTL DEF Spec, Leases!LeaseIsRespected
<1>9. Spec => [](Q => Relaunch!TypeOK /\ Relaunch!NotRecreated)
  BY <1>1, <1>2, <1>4, <1>5, PTL DEF Spec, Relaunches!LeaseIsRespected
<1>10. Spec => [][/\ part = "lease" => Lease!OnlyOrphansSignalled
                  /\ part = "relaunch" => Relaunch!OnlyOrphansSignalled]_vars
  BY <1>1, <1>2, <1>3, <1>4, <1>6, <1>7, PTL
     DEF Spec, Leases!LeaseIsRespected,
         Relaunches!LeaseIsRespected
<1> QED
  BY <1>8, <1>9, <1>10, PTL DEF LeaseIsRespected, P, Q

\* The human's browser is left alone, and a worker drives what its lease names,
\* for any number of workers and of browser processes.
THEOREM HandoffsStayPrivate ==
    ASSUME Handoffs!HandoffConstants
    PROVE  Spec => HandoffStaysPrivate
<1> DEFINE P == part = "handoff"
<1>1. Init => (P => Handoffs!Init)
  BY PartsBegin
<1>2. [Next]_vars => (P' <=> P) /\ (P => [Handoffs!Next]_(Handoffs!vars))
  BY PartStays, PartsGoOn
<1>3. Handoffs!Spec => Handoffs!HandoffStaysPrivate
  BY Handoffs!HandoffsArePrivate
<1>4. Handoffs!TypeOK /\ Handoffs!PrivateStaysPrivate /\ Handoffs!DrivesWhatItOwns
      => Private!TypeOK /\ Private!PrivateStaysPrivate /\ Private!DrivesWhatItOwns
  BY SameHandoff
<1>5. [Handoffs!HumanIsNotInterrupted]_(Handoffs!vars) => Private!HumanIsNotInterrupted
  BY SameHandoff
<1>6. (P => Private!HumanIsNotInterrupted)
      => [part = "handoff" => Private!HumanIsNotInterrupted]_vars
  OBVIOUS
<1> HIDE DEF P
<1>7. Spec => [](P => Private!TypeOK /\ Private!PrivateStaysPrivate /\ Private!DrivesWhatItOwns)
  BY <1>1, <1>2, <1>3, <1>4, PTL DEF Spec, Handoffs!Spec, Handoffs!HandoffStaysPrivate
<1>8. Spec => [][part = "handoff" => Private!HumanIsNotInterrupted]_vars
  BY <1>1, <1>2, <1>3, <1>5, <1>6, PTL DEF Spec, Handoffs!Spec, Handoffs!HandoffStaysPrivate
<1> QED
  BY <1>7, <1>8 DEF HandoffStaysPrivate, P

\* Two waits never run side by side, and no session is left listening after its
\* wait, for any finite set of calls, and agents, sessions and revisions.
THEOREM OneWaitAtATime ==
    ASSUME Leases!ConnectionConstants
    PROVE  Spec => []OneWaitListens
<1> DEFINE P == part = "connection"
<1>1. Init => (P => Leases!Connection!Init)
  BY PartsBegin
<1>2. [Next]_vars => (P' <=> P) /\ (P => [Leases!Connection!Next]_(Leases!Connection!vars))
  BY PartStays, PartsGoOn
<1>3. Leases!Connection!Spec => []Leases!OneWaitListens
  BY Leases!OneWaitAtATime
<1>4. (P => Leases!OneWaitListens) => OneWaitListens
  BY SameConnection DEF OneWaitListens, Leases!OneWaitListens
<1> HIDE DEF P
<1> QED
  BY <1>1, <1>2, <1>3, <1>4, PTL DEF Spec, Leases!Connection!Spec

\* The context file follows the selected browser, and no worker that drives one
\* is ended for it, for any browsers and number of operations and of deaths.
THEOREM ContextsAreFollowed ==
    ASSUME Leases!AgentConstants
    PROVE  Spec => ContextFollows
<1> DEFINE P == part = "agent"
<1>1. Init => (P => Leases!Agent!Init)
  BY PartsBegin
<1>2. [Next]_vars => (P' <=> P) /\ (P => [Leases!Agent!Next]_(Leases!Agent!vars))
  BY PartStays, PartsGoOn
<1>3. Leases!Agent!Spec => Leases!ContextFollows
  BY Leases!ContextsFollow
<1>4. Leases!Agent!TypeOK /\ Leases!Agent!StoredFollows => Agent!TypeOK /\ Agent!StoredFollows
  BY SameAgent
<1>5. [Leases!Agent!LiveBrowserStays]_(Leases!Agent!vars) => Agent!LiveBrowserStays
  BY SameAgent
<1>6. (P => Agent!LiveBrowserStays) => [part = "agent" => Agent!LiveBrowserStays]_vars
  OBVIOUS
<1> HIDE DEF P
<1>7. Spec => [](P => Agent!TypeOK /\ Agent!StoredFollows)
  BY <1>1, <1>2, <1>3, <1>4, PTL DEF Spec, Leases!Agent!Spec, Leases!ContextFollows
<1>8. Spec => [][part = "agent" => Agent!LiveBrowserStays]_vars
  BY <1>1, <1>2, <1>3, <1>5, <1>6, PTL DEF Spec, Leases!Agent!Spec, Leases!ContextFollows
<1> QED
  BY <1>7, <1>8 DEF ContextFollows, P

\* No command leaves unacknowledged files behind that its worker knows of, and a
\* worker that attaches has told of the document that replaced the recorded one,
\* for any tabs, documents, commands and workers.
THEOREM UnsavedFilesAreKnown ==
    ASSUME Leases!RiskConstants
    PROVE  Spec => UnsavedFilesAreTold
<1> DEFINE P == part = "gate"
           Q == part = "risk"
<1>1. Init => (P => Relaunches!Risk!Init) /\ (Q => Leases!Risk!Init)
  BY PartsBegin
<1>2. [Next]_vars => /\ (P' <=> P) /\ (Q' <=> Q)
                     /\ P => [Relaunches!Risk!Next]_(Relaunches!Risk!vars)
                     /\ Q => [Leases!Risk!Next]_(Leases!Risk!vars)
  BY PartStays, PartsGoOn
<1>3. Relaunches!RiskConstants
  BY DEF Leases!RiskConstants, Leases!Selections, Leases!PageRisks, Leases!RiskOps,
     Leases!RiskKinds, Leases!RiskSteps, Relaunches!RiskConstants, Relaunches!Selections,
     Relaunches!PageRisks, Relaunches!RiskOps, Relaunches!RiskKinds, Relaunches!RiskSteps
<1>4. Relaunches!Risk!Spec => Relaunches!UnsavedFilesAreTold
  BY <1>3, Relaunches!UnsavedFilesAreKnown
<1>5. Leases!Risk!Spec => Leases!UnsavedFilesAreTold
  BY Leases!UnsavedFilesAreKnown
<1>6. /\ Relaunches!Risk!TypeOK /\ Relaunches!Risk!GateHolds => Gate!TypeOK /\ Gate!GateHolds
      /\ Leases!Risk!TypeOK /\ Leases!Risk!GateHolds => Risk!TypeOK /\ Risk!GateHolds
  BY SameGate, SameRisk
<1>7. [Leases!Risk!ReplacementTold]_(Leases!Risk!vars) => Risk!ReplacementTold
  BY SameRisk
<1>8. (Q => Risk!ReplacementTold) => [part = "risk" => Risk!ReplacementTold]_vars
  OBVIOUS
<1> HIDE DEF P, Q
<1>9. Spec => [](P => Gate!TypeOK /\ Gate!GateHolds)
  BY <1>1, <1>2, <1>4, <1>6, PTL DEF Spec, Relaunches!Risk!Spec, Relaunches!UnsavedFilesAreTold
<1>10. Spec => [](Q => Risk!TypeOK /\ Risk!GateHolds)
  BY <1>1, <1>2, <1>5, <1>6, PTL DEF Spec, Leases!Risk!Spec, Leases!UnsavedFilesAreTold
<1>11. Spec => [][part = "risk" => Risk!ReplacementTold]_vars
  BY <1>1, <1>2, <1>5, <1>7, <1>8, PTL DEF Spec, Leases!Risk!Spec, Leases!UnsavedFilesAreTold
<1> QED
  BY <1>9, <1>10, <1>11 DEF UnsavedFilesAreTold, P, Q

\* A step of this part that leaves the downloads as they are is no step.
LEMMA DownloadsAlone ==
    ASSUME [Next]_vars, part = "downloads", UNCHANGED Leases!Download!vars
    PROVE  UNCHANGED vars
<1>1. CASE Next
  <2>1. AloneDownloadJournal
    BY <1>1 DEF Next, LeaseSteps, RelaunchSteps, PrivateSteps, ConnectionSteps, AgentSteps,
       RiskSteps, GateSteps, DownloadSteps, EventsSteps, RereadSteps, StorageSteps
  <2>2. UNCHANGED <<sequence, obj, kept, capture, chain, writing, broken, file, up, workers, cursor, since>>
    BY DEF Leases!Download!vars
  <2> QED BY <2>1, <2>2 DEF AloneDownloadJournal, profileLease, handoff, loungeConnection,
     agentContext, pageRisk, pageEvents, storageContinuity, vars
<1>2. CASE UNCHANGED vars
  BY <1>2
<1> QED BY <1>1, <1>2

\* Downloads keep their numbers and never go back, and every replaced document
\* gets into the journal and onto the disk, for any downloads, pages, documents
\* and workers.
THEOREM JournalsStayTrue ==
    ASSUME Leases!DownloadConstants, Leases!EventConstants
    PROVE  Spec => JournalsAreKept
<1> DEFINE D == part = "downloads"
           E == part = "events"
           R == part = "reread"
<1>1. Init => (D => Leases!Download!Init) /\ (E => Leases!Events!Init) /\ (R => Relaunches!Events!Init)
  BY PartsBegin
<1>2. [Next]_vars => /\ (D' <=> D) /\ (E' <=> E) /\ (R' <=> R)
                     /\ D => [Leases!Download!Next]_(Leases!Download!vars)
                     /\ E => [Leases!Events!Next]_(Leases!Events!vars)
                     /\ R => [Relaunches!Events!Next]_(Relaunches!Events!vars)
  BY PartStays, PartsGoOn
<1>3. Relaunches!EventConstants
  BY DEF Leases!EventConstants, Relaunches!EventConstants
<1>4. Relaunches!Events!Spec => Relaunches!EventsAreKept
  BY <1>3, Relaunches!ReplacementsAreRecorded
<1>5. Leases!Events!Spec => Leases!EventsAreKept
  BY Leases!ReplacementsAreRecorded
<1>6. Leases!Download!Spec => Leases!DownloadsAreKept
  BY Leases!DownloadsNeverGoBack
<1>7. /\ Leases!Download!TypeOK /\ Leases!Download!NumberedOnce /\ Leases!Download!InProgressIsCaptured
         => Download!TypeOK /\ Download!NumberedOnce /\ Download!InProgressIsCaptured
      /\ Leases!Events!TypeOK /\ Leases!Events!ReplacementRecorded /\ Leases!Events!SettledIsWritten
         => Events!TypeOK /\ Events!ReplacementRecorded /\ Events!SettledIsWritten
      /\ Relaunches!Events!TypeOK /\ Relaunches!Events!ReplacementRecorded /\ Relaunches!Events!SettledIsWritten
         => Reread!TypeOK /\ Reread!ReplacementRecorded /\ Reread!SettledIsWritten
  BY SameDownload, SameEvents, SameReread
<1>8. [Next]_vars /\ (D => [Leases!Download!NeverBackwards]_(Leases!Download!vars))
      => [part = "downloads" => Download!NeverBackwards]_vars
  BY SameDownload, DownloadsAlone
<1> HIDE DEF D, E, R
<1>9. Spec => [](D => Download!TypeOK /\ Download!NumberedOnce /\ Download!InProgressIsCaptured)
  BY <1>1, <1>2, <1>6, <1>7, PTL DEF Spec, Leases!Download!Spec, Leases!DownloadsAreKept
<1>10. Spec => [][part = "downloads" => Download!NeverBackwards]_vars
  BY <1>1, <1>2, <1>6, <1>8, PTL DEF Spec, Leases!Download!Spec, Leases!DownloadsAreKept
<1>11. Spec => [](E => Events!TypeOK /\ Events!ReplacementRecorded /\ Events!SettledIsWritten)
  BY <1>1, <1>2, <1>5, <1>7, PTL DEF Spec, Leases!Events!Spec, Leases!EventsAreKept
<1>12. Spec => [](R => Reread!TypeOK /\ Reread!ReplacementRecorded /\ Reread!SettledIsWritten)
  BY <1>1, <1>2, <1>4, <1>7, PTL DEF Spec, Relaunches!Events!Spec, Relaunches!EventsAreKept
<1> QED
  BY <1>9, <1>10, <1>11, <1>12 DEF JournalsAreKept, D, E, R
=============================================================================
