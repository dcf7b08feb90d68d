---------------------------- MODULE ProfileLease -----------------------------
(***************************************************************************)
(* The ownership lease of one profile directory: a file that the workers   *)
(* of several Stage5 sessions read, link, rename over and remove           *)
(* (profile-ownership/*.ts, controller/lifecycle/ownership.ts).            *)
(*                                                                         *)
(* A worker's lease id is the worker itself.  Of the file's calls, link    *)
(* (claim) and rename (establish) are one step; updatePhase, heartbeat and *)
(* remove read the file in one step and write or remove it in another, and *)
(* other workers run in between.  A worker's own mutations are serialized  *)
(* by its mutationQueue: mut is the one in progress.                       *)
(*                                                                         *)
(* The profile is locked while a browser runs on it, so at most one does.  *)
(* An inspection (the file, the worker, the process table) is one step.    *)
(* Left out: clocks, invalid files, and the stale locks of an exited       *)
(* browser; of the native control record, only that it awaits the user.    *)
(***************************************************************************)
EXTENDS Naturals, FiniteSets

CONSTANTS
    Workers,    \* worker processes, each with the lease id it was born with
    Processes,  \* browser processes; one is never used twice
    None

Modes == {"playwright", "native_cdp", "human_handoff"}
Phases == {"launching", "owned_active", "close_requested", "process_exited",
           "profile_unlocked", "human_input"}
Leases == [owner : Workers, mode : Modes, phase : Phases, process : Processes \cup {None}]

VARIABLES
    file,     \* the lease file, or None
    browser,  \* the process that runs on the profile, or None
    used,     \* the processes that have run
    native,   \* those that the human launcher started
    awaiting, \* whether the native control record awaits the user
    alive,    \* the workers that have not exited
    pc,       \* where each worker is
    goal,     \* the control mode its start or handoff works towards
    seen,     \* the lease it inspected
    active,   \* whether it believes the lease to be its own (and heartbeats)
    mut,      \* the second half of its mutation in progress, or None
    drives,   \* the process it is connected to, or None
    signalled \* processes sent a SIGTERM

vars == <<file, browser, used, native, awaiting, alive, pc, goal, seen, active, mut, drives, signalled>>

worker == <<goal, seen, active, drives>>
world == <<browser, used, native, awaiting, alive, signalled>>

Removal == [do |-> "remove"]
Write(lease) == [do |-> "write", lease |-> lease]

Init ==
    /\ file = None /\ browser = None /\ used = {} /\ native = {} /\ signalled = {}
    /\ awaiting = FALSE
    /\ alive = Workers
    /\ pc = [w \in Workers |-> "idle"]
    /\ goal = [w \in Workers |-> "playwright"]
    /\ seen = [w \in Workers |-> None]
    /\ active = [w \in Workers |-> FALSE]
    /\ mut = [w \in Workers |-> None]
    /\ drives = [w \in Workers |-> None]

At(w, place) == w \in alive /\ mut[w] = None /\ pc[w] = place
Goto(w, place) == pc' = [pc EXCEPT ![w] = place]

Owns(w) == file # None /\ file.owner = w
Foreign(w) == file # None /\ file.owner # w
IsLeaseOf(id) == file # None /\ file.owner = id
Unlocked == browser = None
Matched(lease) == lease.process # None /\ lease.process = browser

\* inspectProfileOwnershipLease
Inspection(w) ==
    CASE file = None -> "none"
      [] Owns(w) -> "current_owner"
      [] Foreign(w) /\ file.owner \in alive -> "busy_other_stage5_session"
      [] Foreign(w) /\ file.owner \notin alive /\ Matched(file) -> "owned_orphaned"
      [] OTHER -> "abandoned"

-----------------------------------------------------------------------------
(* Starting: what prepareOwnershipLeaseForStart decides from its inspection. *)

Decide(w, place, mode) ==
    /\ Goto(w, place)
    /\ goal' = [goal EXCEPT ![w] = mode]
    /\ seen' = [seen EXCEPT ![w] = file]
    /\ UNCHANGED <<file, world, active, mut, drives>>

\* The orphans that start takes over, and those that it terminates: a human's is neither.
Adoptable(lease) == lease.mode = "native_cdp"
TerminableUnlessHuman(lease) == lease.mode # "human_handoff"
Terminable(lease) == lease.mode = "playwright"

Attachable == browser \in native /\ ~awaiting

OwnsNative(w) ==
    Owns(w) /\ file.mode = "native_cdp" /\ (Matched(file) \/ file.phase = "launching")

\* A busy profile, a human's orphan and a locked abandoned one are refused.
Prepare(w) ==
    /\ At(w, "idle")
    /\ \/ /\ Inspection(w) = "none"
          /\ \/ Unlocked /\ Decide(w, "claim", "playwright")
             \/ Attachable /\ Decide(w, "attach", "native_cdp")
       \/ OwnsNative(w) /\ Attachable /\ Decide(w, "attach", "native_cdp")
       \/ /\ Inspection(w) = "owned_orphaned"
          /\ \/ Adoptable(file) /\ Decide(w, "remove", "native_cdp")
             \/ Terminable(file) /\ Decide(w, "signal", "playwright")
       \/ Inspection(w) = "abandoned" /\ Unlocked /\ Decide(w, "remove", "playwright")

\* resumeAfterLogin over the handoff of a worker that has exited; the lease it will
\* write is of the process that the control record names by now.
PrepareAdoption(w) ==
    /\ At(w, "idle") /\ awaiting /\ ~Unlocked
    /\ Inspection(w) \in {"owned_orphaned", "abandoned"}
    /\ file.mode = "human_handoff" \/ (file.mode = "native_cdp" /\ file.phase = "close_requested")
    /\ Goto(w, "adopt")
    /\ goal' = [goal EXCEPT ![w] = "human_handoff"]
    /\ seen' = [seen EXCEPT ![w] = [file EXCEPT !.process = browser]]
    /\ UNCHANGED <<file, world, active, mut, drives>>

\* terminateProvenOrphan: the process that was inspected is sent a SIGTERM.
Signal(w) ==
    /\ At(w, "signal")
    /\ signalled' = signalled \cup {seen[w].process}
    /\ Goto(w, "terminating")
    /\ UNCHANGED <<file, browser, used, native, awaiting, alive, worker, mut>>

Terminated(w) ==
    /\ At(w, "terminating")
    /\ Goto(w, IF Unlocked THEN "remove" ELSE "idle")
    /\ UNCHANGED <<file, world, worker, mut>>

\* removeProfileOwnershipLease of the inspected lease, its read.  A takeover and an
\* adoption give up when the lease has changed; the other callers ignore the answer.
RemoveInspected(w, from, to, otherwise) ==
    /\ At(w, from)
    /\ IF IsLeaseOf(seen[w].owner)
       THEN mut' = [mut EXCEPT ![w] = Removal] /\ Goto(w, to)
       ELSE UNCHANGED mut /\ Goto(w, otherwise)
    /\ UNCHANGED <<file, world, worker>>

RemoveOrphan(w) == RemoveInspected(w, "remove", "claim", IF goal[w] = "native_cdp" THEN "idle" ELSE "claim")
RemoveAdopted(w) == RemoveInspected(w, "adopt", "claim adopted", "idle")

NewLease(w, phase, process) ==
    [owner |-> w, mode |-> goal[w], phase |-> phase, process |-> process]

\* claimProfileOwnershipLease: link fails when there is a file.
Link(w, lease, to, otherwise) ==
    /\ IF file = None
       THEN /\ file' = lease
            /\ active' = [active EXCEPT ![w] = TRUE]
            /\ Goto(w, to)
       ELSE UNCHANGED <<file, active>> /\ Goto(w, otherwise)
    /\ UNCHANGED <<world, goal, mut, drives>>

Claim(w) ==
    /\ At(w, "claim")
    /\ Link(w, NewLease(w, "launching", None), IF goal[w] = "native_cdp" THEN "attach" ELSE "launch", "idle")
    /\ UNCHANGED seen

ClaimAdopted(w) ==
    /\ At(w, "claim adopted")
    /\ Link(w, NewLease(w, "human_input", seen[w].process), "human", "idle")
    /\ seen' = [seen EXCEPT ![w] = NewLease(w, "human_input", seen[w].process)]

\* claimNativeControlLeaseIfNeeded, before start attaches.
ClaimNativeIfNeeded(w) ==
    /\ At(w, "attach")
    /\ IF file = None
       THEN Link(w, NewLease(w, "launching", None), "launch", "idle")
       ELSE /\ Goto(w, IF OwnsNative(w) /\ Attachable THEN "launch" ELSE "idle")
            /\ UNCHANGED <<file, active, world, goal, mut, drives>>
    /\ UNCHANGED seen

\* A new browser, or the connection to the one that runs.
Launch(w) ==
    /\ At(w, "launch")
    /\ \/ /\ goal[w] # "native_cdp" /\ Unlocked
          /\ \E p \in Processes \ used :
                /\ browser' = p /\ used' = used \cup {p}
                /\ native' = IF goal[w] = "human_handoff" THEN native \cup {p} ELSE native
                /\ drives' = [drives EXCEPT ![w] = IF goal[w] = "human_handoff" THEN None ELSE p]
                /\ seen' = [seen EXCEPT ![w] = NewLease(w, "launching", p)]
          /\ awaiting' = (goal[w] = "human_handoff")
       \/ /\ goal[w] = "native_cdp" /\ browser \in native
          /\ drives' = [drives EXCEPT ![w] = browser]
          /\ seen' = [seen EXCEPT ![w] = NewLease(w, "launching", browser)]
          /\ UNCHANGED <<browser, used, native, awaiting>>
    /\ Goto(w, "establish")
    /\ UNCHANGED <<file, alive, goal, active, mut, signalled>>

\* The launch failed: the lease is given back if the profile is unlocked.
LaunchFails(w) ==
    /\ At(w, "launch")
    /\ Goto(w, IF goal[w] = "playwright" /\ Unlocked THEN "release" ELSE "idle")
    /\ UNCHANGED <<file, world, worker, mut>>

\* establish: reads the file only for createdAt, and renames over whatever is there.
Establish(w) ==
    /\ At(w, "establish")
    /\ file' = NewLease(w, IF goal[w] = "human_handoff" THEN "human_input" ELSE "owned_active",
                        seen[w].process)
    /\ active' = [active EXCEPT ![w] = TRUE]
    /\ Goto(w, IF goal[w] = "human_handoff" THEN "human" ELSE "run")
    /\ UNCHANGED <<world, goal, seen, mut, drives>>

-----------------------------------------------------------------------------
(* Mutations that read first. *)

\* The read of updatePhase and of heartbeat: a foreign lease ends the ownership.
ReadOwn(w, phase) ==
    IF Owns(w)
    THEN /\ mut' = [mut EXCEPT ![w] = Write([file EXCEPT !.phase = phase])]
         /\ UNCHANGED active
    ELSE /\ active' = [active EXCEPT ![w] = FALSE]
         /\ UNCHANGED mut

Heartbeat(w) ==
    /\ w \in alive /\ mut[w] = None /\ active[w]
    /\ ReadOwn(w, IF Owns(w) THEN file.phase ELSE "launching")
    /\ UNCHANGED <<file, world, pc, goal, seen, drives>>

UpdatePhase(w, phase) ==
    IF active[w] THEN ReadOwn(w, phase) ELSE UNCHANGED <<active, mut>>

\* The second half: rename over the file, or rm it, whatever it holds by now.
Finish(w) ==
    /\ w \in alive /\ mut[w] # None
    /\ file' = IF mut[w] = Removal THEN None ELSE mut[w].lease
    /\ mut' = [mut EXCEPT ![w] = None]
    /\ UNCHANGED <<world, pc, worker>>

\* stop, and the handoff of a browser that Playwright launched.
RequestClose(w) ==
    /\ At(w, "run")
    /\ UpdatePhase(w, "close_requested")
    /\ \E mode \in {"playwright", "human_handoff"} : goal' = [goal EXCEPT ![w] = mode]
    /\ Goto(w, "closing")
    /\ UNCHANGED <<file, world, seen, drives>>

\* The handoff of a native browser keeps its process.
HandOffInPlace(w) ==
    /\ At(w, "run") /\ drives[w] # None /\ drives[w] = browser /\ browser \in native
    /\ UpdatePhase(w, "close_requested")
    /\ goal' = [goal EXCEPT ![w] = "human_handoff"]
    /\ drives' = [drives EXCEPT ![w] = None]
    /\ awaiting' = TRUE
    /\ Goto(w, "establish")
    /\ UNCHANGED <<file, browser, used, native, alive, signalled, seen>>

Resume(w) ==
    /\ At(w, "human") /\ browser = seen[w].process
    /\ goal' = [goal EXCEPT ![w] = "native_cdp"]
    /\ drives' = [drives EXCEPT ![w] = browser]
    /\ awaiting' = FALSE
    /\ Goto(w, "establish")
    /\ UNCHANGED <<file, browser, used, native, alive, signalled, seen, active, mut>>

Exited(w) ==
    /\ At(w, "closing") /\ browser # drives[w]
    /\ UpdatePhase(w, "process_exited")
    /\ drives' = [drives EXCEPT ![w] = None]
    /\ Goto(w, "exited")
    /\ UNCHANGED <<file, world, goal, seen>>

ProfileUnlocked(w) ==
    /\ At(w, "exited") /\ Unlocked
    /\ UpdatePhase(w, "profile_unlocked")
    /\ Goto(w, "release")
    /\ UNCHANGED <<file, world, goal, seen, drives>>

\* release stops the heartbeat before its turn in the queue.
Release(w) ==
    /\ At(w, "release")
    /\ IF active[w] /\ Owns(w) THEN mut' = [mut EXCEPT ![w] = Removal] ELSE UNCHANGED mut
    /\ active' = [active EXCEPT ![w] = FALSE]
    /\ Goto(w, IF goal[w] = "human_handoff" THEN "claim" ELSE "idle")
    /\ UNCHANGED <<file, world, goal, seen, drives>>

\* detach, by a worker that is about to exit: the file stays.
Detach(w) ==
    /\ At(w, "run") \/ At(w, "human")
    /\ active' = [active EXCEPT ![w] = FALSE]
    /\ drives' = [drives EXCEPT ![w] = None]
    /\ Goto(w, "detached")
    /\ UNCHANGED <<file, world, goal, seen, mut>>

-----------------------------------------------------------------------------
(* The environment. *)

\* A worker dies, between the halves of a mutation too.
Crash(w) ==
    /\ w \in alive
    /\ alive' = alive \ {w}
    /\ mut' = [mut EXCEPT ![w] = None]
    /\ drives' = [drives EXCEPT ![w] = None]
    /\ active' = [active EXCEPT ![w] = FALSE]
    /\ UNCHANGED <<file, browser, used, native, awaiting, pc, goal, seen, signalled>>

\* The browser exits: closed by its worker, its human or a signal, or by itself.
BrowserExits ==
    /\ browser # None
    /\ browser' = None
    /\ UNCHANGED <<file, used, native, awaiting, alive, pc, worker, mut, signalled>>

WorkerStep(w) ==
    \/ Prepare(w) \/ PrepareAdoption(w) \/ Signal(w) \/ Terminated(w)
    \/ RemoveOrphan(w) \/ RemoveAdopted(w) \/ Claim(w) \/ ClaimAdopted(w) \/ ClaimNativeIfNeeded(w)
    \/ Launch(w) \/ LaunchFails(w) \/ Establish(w) \/ RequestClose(w) \/ HandOffInPlace(w)
    \/ Resume(w) \/ Exited(w) \/ ProfileUnlocked(w) \/ Release(w) \/ Detach(w)

Next == BrowserExits \/ \E w \in Workers : WorkerStep(w) \/ Heartbeat(w) \/ Finish(w) \/ Crash(w)

\* The interval timer keeps firing, and a call on the file returns.
Spec == Init /\ [][Next]_vars /\ \A w \in Workers : WF_vars(Heartbeat(w)) /\ WF_vars(Finish(w))

-----------------------------------------------------------------------------

TypeOK ==
    /\ file \in Leases \cup {None}
    /\ browser \in Processes \cup {None}
    /\ used \subseteq Processes /\ native \subseteq used /\ signalled \subseteq used
    /\ alive \subseteq Workers /\ awaiting \in BOOLEAN
    /\ goal \in [Workers -> Modes]
    /\ seen \in [Workers -> Leases \cup {None}]
    /\ active \in [Workers -> BOOLEAN]
    /\ mut \in [Workers -> {None, Removal} \cup {Write(lease) : lease \in Leases}]
    /\ drives \in [Workers -> Processes \cup {None}]

\* A SIGTERM never reaches a browser that a living worker is connected to or a human
\* uses, however stale the inspection that called for it has become: an orphan that can
\* be taken over is never signalled, and one that is signalled is never taken over.
OnlyOrphansSignalled ==
    \A p \in signalled' \ signalled :
          /\ \A w \in alive : drives[w] # p
          /\ p \notin native

\* A lease whose owner lives and has given it up does not come back: no heartbeat that
\* was under way when the lease was released writes it again.
NotRecreated ==
    \A w \in alive : Owns(w) /\ pc[w] # "detached" => active[w] \/ mut[w] = Removal

\* The worker that lost its lease to another's takeover learns of it (or has it back).
Unaware(w) == active[w] /\ ~Owns(w)
LoserNotices == \A w \in Workers : Unaware(w) ~> ~Unaware(w)

\* The worker thinks that it replaced the orphan's lease it had inspected.
HasTakenOver(w) == w \in alive /\ active[w] /\ pc[w] = "attach" /\ seen[w] # None

\* Of the workers that have inspected the same proven orphan, one replaces its lease
\* (tests/profile-ownership-lease.test.ts: "allows only one worker to replace a
\* conclusively proven orphan lease").  The code does not keep it: removing the lease
\* is a read, a comparison and an unconditional rm.
OneReplaces ==
    \A v, w \in Workers : HasTakenOver(v) /\ HasTakenOver(w) /\ seen[v] = seen[w] => v = w

===============================================================================
