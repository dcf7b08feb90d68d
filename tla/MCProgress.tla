----------------------------- MODULE MCProgress -----------------------------
\* What must come to an end, under the fairness of timers and deadlines: each
\* behaviour is one of the modules below on its own, "part" says which.
EXTENDS Naturals
CONSTANTS None, Failed, w1, w2, w3, p1, c1, c2, t1, t2
Holders == {w1, w2, w3}
ToolCalls == {c1, c2}

VARIABLES part, file, browser, used, native, awaiting, alive, pc, goal, seen, active, mut,
          drives, signalled, calls, queue, joined, lastNotice, waiting, closed, sessions, notice,
          mail, told, dialog, scope, call, settled, answers, live, visible, version, known, run,
          answer
vars == <<part, file, browser, used, native, awaiting, alive, pc, goal, seen, active, mut,
    drives, signalled, calls, queue, joined, lastNotice, waiting, closed, sessions, notice, mail,
    told, dialog, scope, call, settled, answers, live, visible, version, known, run, answer>>

\* The variables that one module alone has, and what they are while it does not run.
profileLease == <<file, browser, used, native, awaiting, alive, pc, goal, seen, mut, drives,
    signalled>>
NoProfileLease == file = None /\ browser = None /\ used = None /\ native = None
    /\ awaiting = None /\ alive = None /\ pc = None /\ goal = None /\ seen = None /\ mut = None
    /\ drives = None /\ signalled = None
loungeConnection == <<calls, queue, joined, lastNotice, waiting, closed, sessions, notice, mail,
    told>>
NoLoungeConnection == calls = None /\ queue = None /\ joined = None /\ lastNotice = None
    /\ waiting = None /\ closed = None /\ sessions = None /\ notice = None /\ mail = None
    /\ told = None
dialogs == <<dialog, scope, call, settled, answers>>
NoDialogs == dialog = None /\ scope = None /\ call = None /\ settled = None /\ answers = None
tabInspection == <<live, visible, version, known, run, answer>>
NoTabInspection == live = None /\ visible = None /\ version = None /\ known = None /\ run = None
    /\ answer = None

-----------------------------------------------------------------------------
\* Three workers over one lease file.
Lease == INSTANCE ProfileLease WITH Workers <- Holders, Processes <- {p1}
LeaseBegins ==
    /\ part = "lease" /\ Lease!Init
    /\ NoLoungeConnection /\ NoDialogs
    /\ NoTabInspection
AloneProfileLease == UNCHANGED <<part, loungeConnection, dialogs, tabInspection>>
LeaseSteps == part = "lease" /\ Lease!Next /\ AloneProfileLease

-----------------------------------------------------------------------------
\* Two tool calls of one connection.
Connection == INSTANCE LoungeConnection WITH Calls <- ToolCalls, Agents <- {"editor"},
    MaxSessions <- 1, MaxRevisions <- 0, MaxPolls <- 1
ConnectionBegins ==
    /\ part = "connection" /\ Connection!Init
    /\ NoProfileLease
    /\ NoDialogs /\ NoTabInspection /\ active = None
AloneLoungeConnection == UNCHANGED <<part, profileLease, dialogs, tabInspection, active>>
ConnectionSteps == part = "connection" /\ Connection!Next /\ AloneLoungeConnection

-----------------------------------------------------------------------------
\* A command and two dialogs.
Dialog == INSTANCE Dialogs WITH Dialogs <- {"d1", "d2"}, Types <- {"confirm"}, Calls <- {1},
    Last <- 1
DialogBegins ==
    /\ part = "dialog" /\ Dialog!Init
    /\ NoProfileLease
    /\ NoLoungeConnection /\ NoTabInspection /\ active = None
AloneDialogs == UNCHANGED <<part, profileLease, loungeConnection, tabInspection, active>>
DialogSteps == part = "dialog" /\ Dialog!Next /\ AloneDialogs

-----------------------------------------------------------------------------
\* An inspection of a tab beside the active one.
Tab == INSTANCE TabInspection WITH Pages <- {t1, t2}, MaxVersion <- 0, MaxPolls <- 1
TabBegins ==
    /\ part = "tab" /\ Tab!Init
    /\ NoProfileLease /\ NoLoungeConnection
    /\ NoDialogs
AloneTabInspection == UNCHANGED <<part, profileLease, loungeConnection, dialogs>>
TabSteps == part = "tab" /\ Tab!Next /\ AloneTabInspection

-----------------------------------------------------------------------------
Init == LeaseBegins \/ ConnectionBegins \/ DialogBegins \/ TabBegins
Next == LeaseSteps \/ ConnectionSteps \/ DialogSteps \/ TabSteps
\* The heartbeat's timer fires and calls on the file return; continuations of
\* tool calls run and the client's timer fires; operations have deadlines and the
\* settling of dialogs a timer; everything an inspection waits for has a deadline.
Fair ==
    /\ WF_vars(part = "lease" /\ Lease!Heartbeat(w1) /\ AloneProfileLease)
    /\ WF_vars(part = "lease" /\ Lease!Finish(w1) /\ AloneProfileLease)
    /\ WF_vars(part = "connection" /\ Connection!Continue(c1) /\ AloneLoungeConnection)
    /\ WF_vars(part = "connection" /\ Connection!Disconnect /\ AloneLoungeConnection)
    /\ WF_vars(part = "dialog" /\ Dialog!OperationEnds /\ AloneDialogs)
    /\ WF_vars(part = "dialog" /\ Dialog!Closes /\ AloneDialogs)
    /\ WF_vars(part = "tab" /\ Tab!Inspection /\ AloneTabInspection)
Spec == Init /\ [][Next]_vars /\ Fair

-----------------------------------------------------------------------------
\* A worker whose lease was removed under it, a tool call of a lounge connection,
\* a command with its dialogs and an inspection of a background tab.
Unaware == part = "lease" /\ Lease!Unaware(w1)
Called == part = "connection" /\ Connection!Called(c1)
Commanded == part = "dialog" /\ Dialog!Runs(1)
Answered == part = "dialog" => answers[1] # None
Inspected == part = "tab" /\ run # None

\* A lost lease is noticed or had back (controller.ts, heartbeat); a tool call
\* ends also when the store's thread hangs (lounge-service.ts, client.ts); a
\* command ends whether or not the browser takes the answer to its dialog
\* (dialogs/manager.ts); an inspection ends however often the person switches
\* tabs under it (tab-activation.ts).
EverythingEnds ==
    /\ Unaware ~> ~Unaware
    /\ Called ~> ~Called
    /\ Commanded ~> Answered
    /\ Inspected ~> ~Inspected
=============================================================================
