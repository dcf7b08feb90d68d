------------------------------- MODULE Handoff -------------------------------
(***************************************************************************)
(* The private handoff of one profile's browser to a human and back        *)
(* (controller/handoff/*.ts, controller/lifecycle/{start,state,            *)
(* native-attach}.ts), over what outlives a worker: the ownership lease,   *)
(* the native control record and the browser process.                      *)
(*                                                                         *)
(* One worker lives at a time; it may crash between any two steps of a     *)
(* command, or be replaced, and its successor finds only the durable       *)
(* state.  An agent may call any command at any time a command is not      *)
(* already running: the worker's queue runs one at a time.                 *)
(*                                                                         *)
(* Operations on the lease are one step here; module ProfileLease has      *)
(* their interleavings among workers.  Left out: page contents, storage    *)
(* and profile comparisons, time budgets (any wait may end early), and     *)
(* the field-scoped private handoff.                                       *)
(***************************************************************************)
EXTENDS Naturals

CONSTANTS
    MaxWorkers,    \* bound: worker processes, one after another
    MaxProcesses,  \* bound: browser processes, one after another
    None

Ids == 1 .. MaxProcesses
Leases == [owner : 1 .. MaxWorkers, mode : {"playwright", "native_cdp", "human_handoff"},
           phase : {"launching", "owned_active", "close_requested", "process_exited",
                    "profile_unlocked", "human_input"},
           process : Ids \cup {None}]

VARIABLES
    \* durable
    lease,    \* the ownership lease file
    record,   \* the native control record
    browser,  \* the process that runs on the profile, and locks it
    launched, \* how many have run
    \* the worker
    worker,   \* which one lives, 0 for none
    born,     \* how many have
    mem,      \* the fields of its BrowserController
    doing,    \* the step its command is at, and whether start serves a resume
    \* of the properties
    private,  \* a human was told to use the browser, and no resume was called since
    asked     \* processes that a worker asked to close or signalled

vars == <<lease, record, browser, launched, worker, born, mem, doing, private, asked>>

Blank == [context |-> "none", process |-> None, holds |-> FALSE, pending |-> None, handoff |-> None]
Idle == [at |-> "idle", resume |-> FALSE]
Step(place) == doing' = [doing EXCEPT !.at = place]

Init ==
    /\ lease = None /\ record = None /\ browser = None /\ launched = 0
    /\ worker = 1 /\ born = 1 /\ mem = Blank /\ doing = Idle
    /\ private = FALSE /\ asked = {}

At(place) == worker # 0 /\ doing.at = place
Running(process) == browser # None /\ browser.process = process
Unlocked == browser = None
Awaiting == mem.handoff # None /\ mem.handoff.state = "awaiting_user"

\* inspectProfileOwnershipLease, with no other session alive.
Matched == lease # None /\ lease.process # None /\ Running(lease.process)
Inspection ==
    CASE lease = None -> "none"
      [] lease # None /\ lease.owner = worker -> "current_owner"
      [] lease # None /\ lease.owner # worker /\ Matched -> "owned_orphaned"
      [] OTHER -> "abandoned"

NewLease(mode, phase, process) ==
    [owner |-> worker, mode |-> mode, phase |-> phase, process |-> process]
Phase(phase) == IF mem.holds /\ lease # None THEN [lease EXCEPT !.phase = phase] ELSE lease
Released == IF mem.holds THEN None ELSE lease

durable == <<lease, record, browser, launched>>
history == <<private, asked>>

-----------------------------------------------------------------------------
(* start, step by step. *)

\* A refused start; one that served a resume gives the browser back to the human.
Fail(m) ==
    /\ doing' = Idle
    /\ IF doing.resume
       THEN /\ mem' = [m EXCEPT !.handoff.state = "awaiting_user"]
            /\ record' = IF record # None /\ Running(record.process)
                         THEN [record EXCEPT !.state = "awaiting_user"] ELSE record
       ELSE mem' = m /\ UNCHANGED record

Refuse == Fail(mem) /\ UNCHANGED <<lease, browser, launched, worker, born, history>>

Start ==
    /\ At("idle") /\ mem.context = "none" /\ mem.pending = None /\ ~Awaiting
    /\ Step("prepare")
    /\ UNCHANGED <<durable, worker, born, mem, history>>

Proceed(l, m) ==
    /\ lease' = l /\ mem' = m /\ Step("record")
    /\ UNCHANGED <<record, browser, launched, worker, born, history>>

\* prepareOwnershipLeaseForStart
MayContinue ==
    \/ lease.mode = "native_cdp" /\ (Matched \/ lease.phase = "launching")
    \/ lease.mode = "human_handoff" /\ Matched /\ doing.resume

Terminable == lease.mode = "playwright"

Prepare ==
    /\ At("prepare")
    /\ CASE Inspection = "none" -> Proceed(lease, mem)
         [] Inspection = "current_owner" -> IF MayContinue THEN Proceed(lease, mem) ELSE Refuse
         [] Inspection = "owned_orphaned" /\ lease.mode = "native_cdp" ->
              Proceed(NewLease("native_cdp", "launching", None), [mem EXCEPT !.holds = TRUE])
         [] Inspection = "owned_orphaned" /\ Terminable ->
              /\ asked' = asked \cup {lease.process}
              /\ Step("terminating")
              /\ UNCHANGED <<durable, worker, born, mem, private>>
         [] Inspection = "abandoned" /\ Unlocked -> Proceed(None, mem)
         [] OTHER -> Refuse

Terminated ==
    /\ At("terminating")
    /\ IF Unlocked THEN Proceed(None, mem) ELSE Refuse

AwaitsUser == record.state = "awaiting_user"

\* The record of a running browser decides between attaching and launching;
\* claimNativeControlLeaseIfNeeded is part of the step.
ReadRecord ==
    /\ At("record")
    /\ IF record # None /\ Running(record.process)
       THEN IF AwaitsUser \/ (lease # None /\ ~(lease.owner = worker /\ MayContinue))
            THEN Refuse
            ELSE /\ lease' = IF lease = None THEN NewLease("native_cdp", "launching", None) ELSE lease
                 /\ mem' = [mem EXCEPT !.holds = TRUE]
                 /\ Step("attach")
                 /\ UNCHANGED <<record, browser, launched, worker, born, history>>
       ELSE IF Unlocked /\ lease = None
            THEN /\ lease' = NewLease("playwright", "launching", None)
                 /\ record' = None
                 /\ mem' = [mem EXCEPT !.holds = TRUE]
                 /\ Step("launch")
                 /\ UNCHANGED <<browser, launched, worker, born, history>>
            ELSE Refuse

Launch ==
    /\ At("launch") /\ Unlocked /\ launched < MaxProcesses
    /\ launched' = launched + 1
    /\ browser' = [process |-> launched + 1, kind |-> "playwright", marker |-> FALSE]
    /\ mem' = [mem EXCEPT !.context = "playwright", !.process = launched + 1]
    /\ Step("establish")
    /\ UNCHANGED <<lease, record, worker, born, history>>

LaunchFails ==
    /\ At("launch")
    /\ lease' = IF Unlocked THEN Released ELSE lease
    /\ Fail([mem EXCEPT !.holds = ~Unlocked])
    /\ UNCHANGED <<browser, launched, worker, born, history>>

\* attachToNativeChromium: connected, and then the record written.
Attach ==
    /\ At("attach")
    /\ IF record # None /\ Running(record.process)
       THEN /\ record' = [record EXCEPT !.state = "controlled"]
            /\ mem' = [mem EXCEPT !.context = "native", !.process = record.process]
            /\ Step("establish")
            /\ UNCHANGED <<lease, browser, launched, worker, born, history>>
       ELSE Refuse

AttachFails ==
    /\ \/ At("attach")
       \/ At("establish")
    /\ doing.at = "establish" => mem.context # "playwright"
    /\ Fail([mem EXCEPT !.context = "none", !.process = None])
    /\ UNCHANGED <<lease, browser, launched, worker, born, history>>

EstablishStale ==
    /\ At("establish") /\ mem.context # "none" /\ Running(mem.process)
    /\ Step(IF doing.resume THEN "resumed" ELSE "idle")
    /\ UNCHANGED <<durable, worker, born, mem, history>>

Establish ==
    /\ At("establish") /\ mem.context # "none" /\ Running(mem.process)
    /\ lease' = NewLease(IF mem.context = "native" THEN "native_cdp" ELSE "playwright",
                         "owned_active", mem.process)
    /\ mem' = [mem EXCEPT !.holds = TRUE]
    /\ Step(IF doing.resume THEN "resumed" ELSE "idle")
    /\ UNCHANGED <<record, browser, launched, worker, born, history>>

\* The process has gone before it could be observed.
Unobserved ==
    /\ At("establish") /\ ~(mem.context # "none" /\ Running(mem.process))
    /\ lease' = IF mem.context = "native" THEN lease ELSE Released
    /\ Fail([mem EXCEPT !.context = "none", !.process = None, !.holds = FALSE])
    /\ UNCHANGED <<browser, launched, worker, born, history>>

-----------------------------------------------------------------------------
(* The handoff: request, and continuing what a request left pending. *)

\* Private control begins to be released.
Request ==
    /\ At("idle") /\ mem.pending = None /\ mem.handoff = None
    /\ mem.context # "none" /\ mem.process # None
    /\ LET same == mem.context = "native" /\ record # None /\ record.state = "controlled"
                   /\ record.process = mem.process
       IN /\ mem' = [mem EXCEPT !.pending = [strategy |-> IF same THEN "native_same_process" ELSE "process_relaunch",
                                             process |-> mem.process],
                                !.context = IF same THEN "native" ELSE "none",
                                !.process = IF same THEN mem.process ELSE None]
          /\ asked' = IF same THEN asked ELSE asked \cup {mem.process}
    /\ lease' = Phase("close_requested")
    /\ Step("continue")
    /\ UNCHANGED <<record, browser, launched, worker, born, private>>

Continue ==
    /\ At("idle") /\ mem.pending # None
    /\ Step("continue")
    /\ UNCHANGED <<durable, worker, born, mem, history>>

\* handoffReleasePendingError: the release stays pending, to be continued.
StillPending ==
    /\ doing.at \in {"continue", "detached", "claim human", "launch human"} /\ worker # 0
    /\ doing' = Idle
    /\ UNCHANGED <<durable, worker, born, mem, history>>

SameProcess == mem.pending.strategy = "native_same_process" /\ Running(mem.pending.process)

\* The marker tab is opened and automation detaches from the process, which lives on.
DetachNative ==
    /\ At("continue") /\ SameProcess /\ record # None /\ record.process = mem.pending.process
    /\ browser' = [browser EXCEPT !.marker = TRUE]
    /\ mem' = [mem EXCEPT !.context = "none", !.process = None]
    /\ Step("detached")
    /\ UNCHANGED <<lease, record, launched, worker, born, history>>

RecordAwaiting ==
    /\ At("detached") /\ Running(mem.pending.process)
    /\ record' = [process |-> mem.pending.process, state |-> "awaiting_user"]
    /\ Step("complete")
    /\ UNCHANGED <<lease, browser, launched, worker, born, mem, history>>

\* The exact process has exited and the profile is unlocked: the lease is given back.
ReleaseExited ==
    /\ doing.at \in {"continue", "detached"} /\ worker # 0
    /\ ~Running(mem.pending.process)
    /\ IF Unlocked
       THEN /\ lease' = Released
            /\ mem' = [mem EXCEPT !.pending.strategy = "process_relaunch", !.holds = FALSE]
            /\ Step("claim human")
       ELSE /\ lease' = Phase("process_exited")
            /\ mem' = [mem EXCEPT !.pending.strategy = "process_relaunch"]
            /\ doing' = Idle
    /\ UNCHANGED <<record, browser, launched, worker, born, history>>

ClaimHuman ==
    /\ At("claim human") /\ lease = None
    /\ lease' = NewLease("human_handoff", "launching", None)
    /\ mem' = [mem EXCEPT !.holds = TRUE]
    /\ Step("launch human")
    /\ UNCHANGED <<record, browser, launched, worker, born, history>>

\* A browser without automation; one with a control endpoint has its record written next.
LaunchHuman ==
    /\ At("launch human") /\ Unlocked /\ launched < MaxProcesses
    /\ launched' = launched + 1
    /\ \E kind \in {"native", "plain"} :
          /\ browser' = [process |-> launched + 1, kind |-> kind, marker |-> TRUE]
          /\ Step(IF kind = "native" THEN "record human" ELSE "complete")
    /\ UNCHANGED <<lease, record, worker, born, mem, history>>

LaunchHumanFails ==
    /\ At("launch human") /\ Unlocked
    /\ lease' = Released
    /\ mem' = [mem EXCEPT !.holds = FALSE]
    /\ doing' = Idle
    /\ UNCHANGED <<record, browser, launched, worker, born, history>>

RecordHuman ==
    /\ At("record human")
    /\ record' = [process |-> launched, state |-> "awaiting_user"]
    /\ Step("complete")
    /\ UNCHANGED <<lease, browser, launched, worker, born, mem, history>>

\* completeHumanHandoff: from its answer on, the browser is the human's.
Complete ==
    /\ At("complete")
    /\ doing' = Idle
    /\ IF browser # None /\ (mem.pending.strategy = "native_same_process" => Running(mem.pending.process))
       THEN /\ lease' = NewLease("human_handoff", "human_input", browser.process)
            /\ mem' = [mem EXCEPT !.holds = TRUE, !.pending = None,
                                  !.handoff = [state |-> "awaiting_user", process |-> browser.process,
                                               continuous |-> browser.kind = "native", offered |-> FALSE]]
            /\ private' = TRUE
       ELSE UNCHANGED <<lease, mem, private>>
    /\ UNCHANGED <<record, browser, launched, worker, born, asked>>

-----------------------------------------------------------------------------
(* After a restart, and the resume. *)

Transition == lease # None /\ lease.mode = "native_cdp" /\ lease.phase = "close_requested" /\ Matched
Permits ==
    /\ lease # None /\ lease.mode = "human_handoff"
    /\ Inspection = "current_owner" => Matched \/ lease.phase = "launching"
Proves == lease # None /\ lease.mode = "human_handoff" /\ Matched /\ lease.process = record.process

\* inspectChromiumProfileOwner finds the handoff marker in the recorded process.
OwnerShowsHandoff == browser.kind = "native" /\ browser.marker

CanRestore ==
    /\ mem.handoff = None /\ mem.pending = None /\ mem.context = "none"
    /\ record # None /\ record.state = "awaiting_user" /\ Running(record.process)
    /\ Permits \/ (Transition /\ lease.process = record.process)
    /\ (Proves /\ ~Transition) \/ OwnerShowsHandoff

\* restoreDurableAuthenticationHandoff, by status, authStatus, request and resume.
Restore ==
    /\ At("idle") /\ CanRestore
    /\ mem' = [mem EXCEPT !.handoff = [state |-> "awaiting_user", process |-> record.process,
                                       continuous |-> TRUE, offered |-> FALSE]]
    /\ private' = TRUE
    /\ UNCHANGED <<durable, worker, born, doing, asked>>

\* The human's browser with a control endpoint was closed: nothing to attach to.
ResumeGone ==
    /\ At("idle") /\ Awaiting /\ mem.handoff.continuous /\ ~Running(mem.handoff.process)
    /\ record' = None
    /\ lease' = IF Unlocked THEN Released ELSE Phase("process_exited")
    /\ mem' = [mem EXCEPT !.handoff = None, !.holds = mem.holds /\ ~Unlocked]
    /\ private' = FALSE
    /\ UNCHANGED <<browser, launched, worker, born, doing, asked>>

\* ensureDurableAuthenticationHandoffOwnership
Adopt ==
    /\ At("idle") /\ Awaiting /\ mem.handoff.continuous /\ mem.context = "none"
    /\ record # None /\ record.process = mem.handoff.process /\ Running(record.process)
    /\ \/ Transition /\ lease.process = record.process /\ OwnerShowsHandoff
       \/ lease # None /\ lease.mode = "human_handoff" /\ (Proves \/ OwnerShowsHandoff)
    /\ lease' = NewLease("human_handoff", "human_input", record.process)
    /\ mem' = [mem EXCEPT !.holds = TRUE]
    /\ private' = FALSE
    /\ doing' = [at |-> "record controlled", resume |-> TRUE]
    /\ UNCHANGED <<record, browser, launched, worker, born, asked>>

RecordControlled ==
    /\ At("record controlled")
    /\ record' = [process |-> mem.handoff.process, state |-> "controlled"]
    /\ mem' = [mem EXCEPT !.handoff.state = "ready_for_agent_verification"]
    /\ Step("prepare")
    /\ UNCHANGED <<lease, browser, launched, worker, born, history>>

\* A plain browser must have exited; an exit that was not clean asks for a second call.
ResumeExited ==
    /\ At("idle") /\ Awaiting /\ ~mem.handoff.continuous
    /\ ~Running(mem.handoff.process) /\ Unlocked
    /\ lease' = Released
    /\ \E clean \in BOOLEAN :
          IF clean \/ mem.handoff.offered
          THEN /\ mem' = [mem EXCEPT !.holds = FALSE, !.handoff.state = "ready_for_agent_verification"]
               /\ doing' = [at |-> "prepare", resume |-> TRUE]
               /\ private' = FALSE
          ELSE /\ mem' = [mem EXCEPT !.holds = FALSE, !.handoff.offered = TRUE]
               /\ UNCHANGED <<doing, private>>
    /\ UNCHANGED <<record, browser, launched, worker, born, asked>>

\* The browser that an earlier resume launched holds the profile.
ResumeLocked ==
    /\ At("idle") /\ Awaiting /\ ~mem.handoff.continuous
    /\ ~Running(mem.handoff.process) /\ ~Unlocked
    /\ lease' = Phase("process_exited")
    /\ UNCHANGED <<record, browser, launched, worker, born, mem, doing, history>>

\* Markers are closed and the page is opened; that may fail, with automation attached.
Resumed ==
    /\ At("resumed")
    /\ IF browser # None /\ mem.context # "none"
       THEN browser' = [browser EXCEPT !.marker = FALSE]
       ELSE UNCHANGED browser
    /\ doing' = Idle
    /\ UNCHANGED <<lease, record, launched, worker, born, mem, history>>

ResumeFails ==
    /\ At("resumed") /\ mem.handoff # None
    /\ Fail(mem)
    /\ UNCHANGED <<lease, browser, launched, worker, born, history>>

\* The agent's first fresh snapshot ends the handoff.
Verify ==
    /\ At("idle") /\ mem.context # "none" /\ mem.handoff # None
    /\ mem.handoff.state = "ready_for_agent_verification"
    /\ mem' = [mem EXCEPT !.handoff = None]
    /\ UNCHANGED <<durable, worker, born, doing, history>>

-----------------------------------------------------------------------------
(* stop, the ends of workers, and the environment. *)

StopRefused == mem.pending # None \/ Awaiting

\* stop asks the owned browser to close; what it waits for is StopFinishes.
CloseOwned(place) ==
    /\ asked' = IF mem.process # None THEN asked \cup {mem.process} ELSE asked
    /\ lease' = IF mem.context # "none" THEN Phase("close_requested") ELSE lease
    /\ mem' = [mem EXCEPT !.context = "none", !.handoff = None]
    /\ Step(IF mem.context = "none" THEN "idle" ELSE place)
    /\ UNCHANGED <<record, browser, launched, worker, born, private>>

Stop == At("idle") /\ ~StopRefused /\ CloseOwned("stopping")

StopFinishes ==
    /\ At("stopping")
    /\ IF Unlocked
       THEN /\ lease' = Released /\ record' = None
            /\ mem' = [mem EXCEPT !.process = None, !.holds = FALSE]
       ELSE /\ mem' = [mem EXCEPT !.process = None]
            /\ UNCHANGED <<lease, record>>
    /\ doing' = Idle
    /\ UNCHANGED <<browser, launched, worker, born, history>>

\* detachForWorkerShutdown of a handoff and of a native browser; any other is stopped.
DetachForWorkerShutdown ==
    /\ At("idle")
    /\ \/ /\ mem.pending # None \/ Awaiting
          /\ UNCHANGED <<lease, record>>
       \/ /\ ~(mem.pending # None \/ Awaiting) /\ mem.context = "native"
          /\ record' = [process |-> mem.process, state |-> "controlled"]
          /\ lease' = Phase("owned_active")
       \/ mem.context = "none" /\ UNCHANGED <<lease, record>>
    /\ worker' = 0 /\ mem' = Blank /\ doing' = Idle
    /\ UNCHANGED <<browser, launched, born, history>>

Crash ==
    /\ worker # 0
    /\ worker' = 0 /\ mem' = Blank /\ doing' = Idle
    /\ UNCHANGED <<durable, born, history>>

Restart ==
    /\ worker = 0 /\ born < MaxWorkers
    /\ born' = born + 1 /\ worker' = born + 1
    /\ UNCHANGED <<durable, mem, doing, history>>

\* The process ends.  A context that was connected to it closes, and with it (bindContext)
\* everything the controller remembered of the handoff.
BrowserExits ==
    /\ browser # None
    /\ browser' = None
    /\ private' = FALSE
    /\ mem' = IF mem.context # "none" /\ mem.process = browser.process
                 /\ doing.at # "establish"
              THEN [mem EXCEPT !.context = "none", !.process = None, !.handoff = None]
              ELSE mem
    /\ doing' = IF doing.at = "resumed" THEN Idle ELSE doing
    /\ UNCHANGED <<lease, record, launched, worker, born, asked>>

Next ==
    \/ Start \/ Prepare \/ Terminated \/ ReadRecord \/ Launch \/ LaunchFails \/ Attach
    \/ AttachFails \/ Establish \/ Unobserved
    \/ Request \/ Continue \/ StillPending \/ DetachNative \/ RecordAwaiting \/ ReleaseExited
    \/ ClaimHuman \/ LaunchHuman \/ LaunchHumanFails \/ RecordHuman \/ Complete
    \/ Restore \/ ResumeGone \/ Adopt \/ RecordControlled \/ ResumeExited \/ ResumeLocked
    \/ Resumed \/ ResumeFails \/ Verify
    \/ Stop \/ StopFinishes \/ DetachForWorkerShutdown \/ Crash \/ Restart \/ BrowserExits

Spec == Init /\ [][Next]_vars

-----------------------------------------------------------------------------

TypeOK ==
    /\ lease \in Leases \cup {None}
    /\ record \in [process : Ids, state : {"controlled", "awaiting_user"}] \cup {None}
    /\ browser \in [process : Ids, kind : {"playwright", "native", "plain"}, marker : BOOLEAN] \cup {None}
    /\ launched \in 0 .. MaxProcesses /\ born \in 1 .. MaxWorkers /\ worker \in {0, born}
    /\ mem.context \in {"none", "playwright", "native"}
    /\ mem.process \in Ids \cup {None}
    /\ mem.pending \in [strategy : {"native_same_process", "process_relaunch"}, process : Ids] \cup {None}
    /\ mem.handoff \in [state : {"awaiting_user", "ready_for_agent_verification"}, process : Ids,
                        continuous : BOOLEAN, offered : BOOLEAN] \cup {None}
    /\ private \in BOOLEAN /\ asked \subseteq Ids

\* From the moment a human is told to use the browser until an agent calls resume, no
\* worker is connected to it: not the one that handed it over, and not one that was
\* started over the durable state after a crash.
PrivateStaysPrivate == private => mem.context = "none"

\* Nor does any worker ask the human's browser to close, or signal it.
HumanIsNotInterrupted == \A p \in asked' \ asked : ~(private /\ Running(p))

\* What the controller drives is what the durable lease names, under the mode it drives it.
DrivesWhatItOwns ==
    At("idle") /\ mem.context # "none" /\ mem.pending = None =>
        /\ lease # None /\ lease.owner = worker /\ lease.process = mem.process
        /\ lease.mode = IF mem.context = "native" THEN "native_cdp" ELSE "playwright"

\* The worker that may not observe the page never loses track of a human's browser: a
\* recorded handoff can be restored by a worker that does not have it in memory
\* (docs/agent-setup.md:71).  The code does not keep it.
HandoffIsRecoverable ==
    At("idle") /\ mem = [Blank EXCEPT !.holds = mem.holds]
    /\ record # None /\ record.state = "awaiting_user" /\ Running(record.process)
    => CanRestore

\* When the browser has exited and nothing is being handed off, start launches a new one
\* (leaseSuggestedAction in controller/lifecycle/ownership.ts).  The code does not keep it.
StartsAfterExit ==
    At("prepare") /\ Unlocked /\ mem.handoff = None /\ Inspection = "current_owner" =>
        lease.mode = "native_cdp" /\ lease.phase = "launching"

===============================================================================
