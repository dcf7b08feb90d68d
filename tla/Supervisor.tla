------------------------------ MODULE Supervisor ------------------------------
(***************************************************************************)
(* The browser supervisor of one MCP host: the operation registry and its  *)
(* journal (operations/registry.ts, operation-journal.ts), the serial      *)
(* browser queue (serial-queue.ts), execute, forceRecover and close        *)
(* (supervisor/execute.ts), the worker's life cycle                        *)
(* (supervisor/worker-lifecycle.ts), the request/answer transport          *)
(* (supervisor/transport.ts) and the worker process at the other end       *)
(* (browser-worker.ts).                                                    *)
(*                                                                         *)
(* Node runs one handler at a time and an await is where others interleave;*)
(* so one action below is the code between two awaits.  The instance       *)
(* modelled is a host that has bound no durable agent (agentContextId is   *)
(* null), for which applyPendingAgentContext and noteAgentContextResult    *)
(* change nothing.                                                         *)
(***************************************************************************)
EXTENDS Naturals, Sequences, FiniteSets

CONSTANTS
    Ops,         \* operation ids (randomUUID)
    Workers,     \* worker process slots; a slot is used again after its process is gone
    Commands,    \* kinds of operation issued: "login" (requestLoginHandoff), "resume"
                 \* (resumeAfterLogin), "recover", and "act" for every other command
    MaxRecords,  \* MAX_MEMORY_RECORDS
    MaxFaults,   \* bound: worker crashes and signals from outside the supervisor
    HostCloses,  \* whether the host closes the supervisor
    Close,       \* the queue entry of close()
    None

Phases == {"unborn", "reserved", "queued", "worker_preflight", "worker_request_sent",
           "worker_result_received", "terminal_result_created",
           "persistence_complete", "response_created"}

Outcomes == {"succeeded", "failed", "timed_out"}

\* A request on the IPC channel; an operation sends at most one of a kind to a worker.
Kinds == {"initialize", "command", "start", "open", "status"}

Requests == [op : Ops, kind : Kinds, worker : Workers]

\* What a request's promise settles with.  "mismatch" is MCP_RESTART_REQUIRED.
Replies == {"ok", "error", "mismatch", "timeout", "disconnected"}

\* What a worker sends back.
Answers == [req : Requests, value : Replies]

\* Error codes that execute's catch clause distinguishes.
Codes == {"failed", "restart_required", "start_failed", "timeout", "disconnected"}

Steps == {"wait", "preflight", "reload", "exit", "ensure", "init", "initExit",
          "ready", "call", "persist"}

\* A process that shuts down drains, then detaches from the channel, then exits.
Lives == {"up", "draining", "detached", "gone"}

\* What the worker replacement in progress, if any, is for.
Goals == {"dispatch", "reload", "replace", "recover", "reopen", "abandon", "close"}

\* The routine of the operation at work: the step it is at, what its worker
\* replacement is for, the error code it holds, the process it waits for.
Routines == [step : Steps, goal : Goals, code : Codes \cup {None},
             target : Workers \cup {None}]

ASSUME SupervisorAssumption ==
    /\ MaxRecords \in Nat \ {0}
    /\ MaxFaults \in Nat
    /\ HostCloses \in BOOLEAN
    /\ Commands \subseteq {"act", "login", "resume", "recover"}
    /\ IsFiniteSet(Ops)
    /\ Close \notin Ops
    /\ None \notin Ops \cup Workers \cup Outcomes \cup {"rejected"} \cup Replies

VARIABLES
    \* OperationRegistry and OperationJournal
    memory,     \* ids in the records map
    stamp,      \* [Ops -> insertion order in the records map; 0: never inserted]
    command, phase, outcome,   \* fields of the live record, kept by its operation
    journal,    \* [Ops -> outcome of the newest journal line of the operation]
    \* SerialQueue and the operation that holds it
    queue,      \* operations (and Close) in arrival order; the head runs
    run,        \* [step, goal, code, target] of the head's routine
    returned,   \* [Ops -> what the caller of execute or forceRecover got]
    closing, closed,
    \* transport
    child,      \* this.child
    pending,    \* requests whose promise is not settled
    reply,      \* what the awaited promise settled with
    \* worker processes
    proc,       \* [Workers -> life of the process in the slot]
    work,       \* [Workers -> request sent and not yet answered by the worker]
    channel,    \* [Workers -> answers sent and not yet delivered]
    effects,    \* [Ops -> how often a worker carried the operation out]
    \* login handoff
    humanAuth,  \* this.humanAuthenticationInProgress
    handoff,    \* the profile's durable lease retains a private handoff
    faults      \* crashes and outside signals so far

registryVars == <<memory, stamp, command, phase, outcome, journal>>
taskVars == <<queue, run, returned, closing, closed>>
transportVars == <<child, pending, reply>>
workerVars == <<proc, work, channel, effects>>
envVars == <<humanAuth, handoff, faults>>
vars == <<registryVars, taskVars, transportVars, workerVars, envVars>>

Idle == [step |-> "wait", goal |-> "dispatch", code |-> None, target |-> None]

Init ==
    /\ memory = {}
    /\ stamp = [o \in Ops |-> 0]
    /\ command = [o \in Ops |-> None]
    /\ phase = [o \in Ops |-> "unborn"]
    /\ outcome = [o \in Ops |-> None]
    /\ journal = [o \in Ops |-> None]
    /\ queue = <<>>
    /\ run = Idle
    /\ returned = [o \in Ops |-> None]
    /\ closing = FALSE
    /\ closed = FALSE
    /\ child = None
    /\ pending = {}
    /\ reply = None
    /\ proc = [w \in Workers |-> "gone"]
    /\ work = [w \in Workers |-> None]
    /\ channel = [w \in Workers |-> <<>>]
    /\ effects = [o \in Ops |-> 0]
    /\ faults = 0
    /\ humanAuth = FALSE
    /\ handoff = FALSE

-------------------------------------------------------------------------------
(* The operation registry *)

\* prune() may drop by age what is reserved or terminal ...
Expirable(o) == phase[o] = "reserved" \/ outcome[o] # None

\* ... and then drops the oldest records beyond the capacity, whatever they are.
Newest(S) ==
    {o \in S : Cardinality({p \in S : stamp[p] > stamp[o]}) < MaxRecords}

PruneResults ==
    {Newest(memory \ X) : X \in SUBSET {o \in memory : Expirable(o)}}

NextStamp == Cardinality({o \in Ops : stamp[o] > 0}) + 1

\* records.set of a new record with this phase, after prune().
AddRecord(o, c, p) ==
    /\ phase[o] = "unborn"
    /\ \E kept \in PruneResults : memory' = kept \cup {o}
    /\ stamp' = [stamp EXCEPT ![o] = NextStamp]
    /\ command' = [command EXCEPT ![o] = c]
    /\ phase' = [phase EXCEPT ![o] = p]

Reserve(o, c) ==
    /\ AddRecord(o, c, "reserved")
    /\ UNCHANGED <<outcome, journal, taskVars, transportVars, workerVars, envVars>>

\* operation_status, and begin() with an unusable reservation, only prune.
Query ==
    /\ memory' \in PruneResults
    /\ UNCHANGED <<stamp, command, phase, outcome, journal, taskVars,
                   transportVars, workerVars, envVars>>

Enqueue(t) == queue' = Append(queue, t)

\* execute and forceRecover: begin() is synchronous, then queue.run.
BeginNew(o, c) ==
    /\ AddRecord(o, c, "queued")
    /\ Enqueue(o)
    /\ UNCHANGED <<outcome, journal, run, returned, closing, closed,
                   transportVars, workerVars, envVars>>

BeginReserved(o) ==
    /\ phase[o] = "reserved"
    /\ \E kept \in PruneResults : o \in kept /\ memory' = kept
    /\ phase' = [phase EXCEPT ![o] = "queued"]
    /\ Enqueue(o)
    /\ UNCHANGED <<stamp, command, outcome, journal, run, returned, closing, closed,
                   transportVars, workerVars, envVars>>

\* What operation_status answers: the memory record, else the journal's line.
Report(o) ==
    IF o \in memory THEN [phase |-> phase[o], outcome |-> outcome[o]]
    ELSE IF journal[o] # None THEN [phase |-> "durable_terminal", outcome |-> journal[o]]
    ELSE None

-------------------------------------------------------------------------------
(* The running operation *)

Running(o) == queue # <<>> /\ Head(queue) = o /\ o \in Ops

At(o, s) == Running(o) /\ run.step = s

\* The promise of execute settles and the queue goes on with its next entry.
Leave(o, result) ==
    /\ returned' = [returned EXCEPT ![o] = result]
    /\ queue' = Tail(queue)
    /\ run' = Idle

\* transition(), succeed() and fail() throw for a record prune() has dropped; in
\* the catch clause fail() throws again and the operation has no outcome.
Rejected(o) ==
    /\ o \notin memory
    /\ Leave(o, "rejected")
    /\ UNCHANGED <<registryVars, closing, closed>>

Terminal(o, result) ==
    /\ o \in memory
    /\ phase' = [phase EXCEPT ![o] = "terminal_result_created"]
    /\ outcome' = [outcome EXCEPT ![o] = result]
    /\ run' = [Idle EXCEPT !.step = "persist"]
    /\ UNCHANGED <<memory, stamp, command, journal, queue, returned, closing, closed>>

\* fail(): the outcome follows the error code.
Fail(o, code) ==
    \/ Terminal(o, IF code = "timeout" THEN "timed_out" ELSE "failed")
    \/ Rejected(o)

EnterPhase(o, p) == phase' = [phase EXCEPT ![o] = p]

GoTo(s) == run' = [run EXCEPT !.step = s]

\* Steps of the running operation that touch neither the registry nor the queue.
Internal ==
    UNCHANGED <<registryVars, queue, returned, closing, closed, envVars>>

-------------------------------------------------------------------------------
(* transport.ts *)

\* child.connected and exitCode === null
Usable(w) == w # None /\ proc[w] \in {"up", "draining"}

\* request(): post it, or reject at once with WORKER_DISCONNECTED.  A worker that
\* shuts down ignores requests.
Request(o, k) ==
    IF Usable(child)
    THEN LET r == [op |-> o, kind |-> k, worker |-> child] IN
         /\ pending' = pending \cup {r}
         /\ work' = IF proc[child] = "up" THEN [work EXCEPT ![child] = r] ELSE work
         /\ reply' = None
         /\ UNCHANGED <<child, proc, channel, effects>>
    ELSE /\ reply' = "disconnected"
         /\ UNCHANGED <<child, pending, workerVars>>

\* The first SIGTERM starts the worker's shutdown(): it answers the request being
\* handled, which goes on, or never starts on a request that is still under way.
\* Its handler is installed once, so a second SIGTERM kills.
Interrupt(w) ==
    \/ /\ work[w].kind # "initialize"
       /\ channel' = [channel EXCEPT ![w] =
                        Append(@, [req |-> work[w], value |-> "disconnected"])]
       /\ UNCHANGED work
    \/ /\ work' = [work EXCEPT ![w] = None]
       /\ UNCHANGED channel

Signal(w) ==
    \/ /\ proc[w] = "up"
       /\ proc' = [proc EXCEPT ![w] = "draining"]
       /\ IF work[w] = None THEN UNCHANGED <<work, channel>> ELSE Interrupt(w)
       /\ UNCHANGED effects
    \/ /\ proc[w] # "up"
       /\ proc' = [proc EXCEPT ![w] = "gone"]
       /\ work' = [work EXCEPT ![w] = None]
       /\ UNCHANGED <<channel, effects>>

\* The continuation of an awaited promise that sends nothing.
Consumed ==
    /\ reply' = None
    /\ UNCHANGED <<child, pending, workerVars>>

\* terminateWorker(w) up to its first await: forget the child, reject what waits
\* for it, signal its process group.
Terminate(w) ==
    /\ reply' = None
    /\ IF w = None
       THEN UNCHANGED <<child, pending, workerVars>>
       ELSE /\ child' = IF child = w THEN None ELSE child
            /\ pending' = {r \in pending : r.worker # w}
            /\ Signal(w)

\* Variant: nobody waits for the old process.
ExitNotAwaited == TRUE

\* waitForExit: the process terminated for the running task is gone.
Exited == run.target \in {None} \cup {w \in Workers : proc[w] = "gone"}

\* Variant: an answer is taken for that of whatever request is pending.
DeliverUnmatched(w) ==
    /\ channel[w] # <<>>
    /\ pending' = {}
    /\ reply' = IF pending = {} THEN reply ELSE Head(channel[w]).value
    /\ channel' = [channel EXCEPT ![w] = Tail(@)]
    /\ UNCHANGED <<registryVars, taskVars, child, proc, work, effects, envVars>>

\* handleResponse: an answer settles the promise of its own request only, and
\* only when it comes from the process that request was sent to.
Deliver(w) ==
    /\ channel[w] # <<>>
    /\ LET m == Head(channel[w]) IN
       IF m.req \in pending /\ m.req.worker = w
       THEN /\ pending' = pending \ {m.req}
            /\ reply' = m.value
       ELSE UNCHANGED <<pending, reply>>
    /\ channel' = [channel EXCEPT ![w] = Tail(@)]
    /\ UNCHANGED <<registryVars, taskVars, child, proc, work, effects, envVars>>

\* Variant: only the worker's start has a deadline.
TimeoutOfStart(r) ==
    /\ r \in pending
    /\ r.kind = "initialize"
    /\ pending' = pending \ {r}
    /\ reply' = "timeout"
    /\ UNCHANGED <<registryVars, taskVars, child, workerVars, envVars>>

\* The hard deadline of a request.
Timeout(r) ==
    /\ r \in pending
    /\ pending' = pending \ {r}
    /\ reply' = "timeout"
    /\ UNCHANGED <<registryVars, taskVars, child, workerVars, envVars>>

\* handleWorkerFailure, from the 'exit' event of a process.
Gone(w) ==
    /\ proc' = [proc EXCEPT ![w] = "gone"]
    /\ work' = [work EXCEPT ![w] = None]
    /\ child' = IF child = w THEN None ELSE child
    /\ pending' = {r \in pending : r.worker # w}
    /\ reply' = IF \E r \in pending : r.worker = w THEN "disconnected" ELSE reply
    /\ UNCHANGED <<registryVars, taskVars, channel, effects, humanAuth, handoff>>

-------------------------------------------------------------------------------
(* ensureWorker, replaceWorker and the catch clauses *)

Replace(goal, code, w) ==
    /\ Terminate(w)
    /\ run' = [step |-> "exit", goal |-> goal, code |-> code, target |-> w]

HardRecovery == {"timeout", "disconnected", "start_failed"}

\* The catch clause of execute, and that of forceRecover, which gives the worker up.
Catch(o, code) ==
    LET replaces == command[o] = "recover" \/ code \in HardRecovery IN
    \/ /\ replaces
       /\ Replace(IF command[o] = "recover" THEN "abandon" ELSE "replace", code, child)
       /\ IF o \in memory /\ phase[o] = "worker_request_sent"
          THEN EnterPhase(o, "worker_result_received")
          ELSE UNCHANGED phase
       /\ UNCHANGED <<memory, stamp, command, outcome, journal,
                      queue, returned, closing, closed, envVars>>
    \/ /\ ~replaces
       /\ Fail(o, code)
       /\ Consumed /\ UNCHANGED envVars

\* ensureWorker threw: a failed recovery keeps the code of the operation's error.
EnsureFails(o, code) ==
    IF run.goal = "replace"
    THEN Fail(o, run.code) /\ Consumed /\ UNCHANGED envVars
    ELSE Catch(o, code)

EnsureClosing(o) ==
    /\ At(o, "ensure")
    /\ closing
    /\ EnsureFails(o, "disconnected")

EnsureReuse(o) ==
    /\ At(o, "ensure")
    /\ ~closing
    /\ Usable(child)
    /\ GoTo("ready")
    /\ Internal
    /\ Consumed

\* Variant: a worker is forked although the supervisor is shutting down.
EnsureForkWhileClosing(o, w) ==
    /\ At(o, "ensure")
    /\ ~Usable(child)
    /\ proc[w] = "gone"
    /\ LET r == [op |-> o, kind |-> "initialize", worker |-> w] IN
       /\ child' = w
       /\ proc' = [proc EXCEPT ![w] = "up"]
       /\ work' = [work EXCEPT ![w] = r]
       /\ channel' = [channel EXCEPT ![w] = <<>>]
       /\ pending' = pending \cup {r}
       /\ reply' = None
    /\ run' = [run EXCEPT !.step = "init", !.target = w]
    /\ Internal
    /\ UNCHANGED effects

\* fork and post the initialize request; a child that is no longer connected is
\* simply forgotten.  What the slot's last process left unread is lost.
EnsureFork(o, w) ==
    /\ At(o, "ensure")
    /\ ~closing
    /\ ~Usable(child)
    /\ proc[w] = "gone"
    /\ LET r == [op |-> o, kind |-> "initialize", worker |-> w] IN
       /\ child' = w
       /\ proc' = [proc EXCEPT ![w] = "up"]
       /\ work' = [work EXCEPT ![w] = r]
       /\ channel' = [channel EXCEPT ![w] = <<>>]
       /\ pending' = pending \cup {r}
       /\ reply' = None
    /\ run' = [run EXCEPT !.step = "init", !.target = w]
    /\ Internal
    /\ UNCHANGED effects

InitializeOk(o) ==
    /\ At(o, "init")
    /\ reply = "ok"
    /\ run' = [run EXCEPT !.step = "ready", !.target = None]
    /\ Internal
    /\ Consumed

\* Variant: a worker that failed to initialize is forgotten, not terminated.
InitializeFailureForgets(o) ==
    /\ At(o, "init")
    /\ reply \notin {None, "ok"}
    /\ child' = None
    /\ reply' = None
    /\ run' = [run EXCEPT !.step = "initExit", !.code = "start_failed", !.target = None]
    /\ Internal
    /\ UNCHANGED <<pending, workerVars>>

InitializeFails(o) ==
    /\ At(o, "init")
    /\ reply \notin {None, "ok"}
    /\ Terminate(run.target)
    /\ LET code == IF reply = "mismatch" THEN "restart_required" ELSE "start_failed" IN
       run' = [run EXCEPT !.step = "initExit",
                          !.code = IF run.goal = "replace" THEN run.code ELSE code]
    /\ Internal

InitializeGivenUp(o) ==
    /\ At(o, "initExit")
    /\ Exited
    /\ EnsureFails(o, run.code)

ReplacedWorkerExited(o) ==
    /\ At(o, "exit")
    /\ Exited
    /\ \/ /\ run.goal \in {"reload", "replace", "recover"}
          /\ run' = [run EXCEPT !.step = "ensure", !.target = None]
          /\ Internal
          /\ Consumed
       \/ /\ run.goal = "abandon"
          /\ Fail(o, run.code)
          /\ Consumed /\ UNCHANGED envVars

\* Variant: only a worker that failed to start is killed after the grace period.
KillAfterFailedStart ==
    /\ run.step = "initExit"
    /\ ~Exited
    /\ Gone(run.target)
    /\ UNCHANGED faults

\* SIGKILL after workerShutdownGraceMs.
KillAfterGrace ==
    /\ run.step \in {"exit", "initExit"}
    /\ ~Exited
    /\ Gone(run.target)
    /\ UNCHANGED faults

-------------------------------------------------------------------------------
(* execute *)

StartExecute(o) ==
    /\ At(o, "wait")
    /\ command[o] # "recover"
    /\ \/ /\ o \in memory
          /\ EnterPhase(o, "worker_preflight")
          /\ GoTo("preflight")
          /\ UNCHANGED <<memory, stamp, command, outcome, journal,
                         queue, returned, closing, closed>>
       \/ Rejected(o)
    /\ Consumed /\ UNCHANGED envVars

\* Variant: the reload trusts the supervisor's flag and does not read the lease.
PreflightByFlag(o) ==
    /\ At(o, "preflight")
    /\ command[o] # "recover"
    /\ GoTo("ensure") \/ (~humanAuth /\ GoTo("reload"))
    /\ Internal
    /\ Consumed

\* reloadCompatibleRuntimeIfNeeded: there may be no compatible update, or no
\* state-preserving boundary; a private handoff always defers it; a file that
\* cannot be read fails the operation.
Preflight(o) ==
    /\ At(o, "preflight")
    /\ command[o] # "recover"
    /\ \/ /\ GoTo("ensure") \/ (~humanAuth /\ ~handoff /\ GoTo("reload"))
          /\ Internal
          /\ Consumed
       \/ Catch(o, "failed")

\* ... after more file reads, the old worker is stopped gracefully.
Reload(o) ==
    /\ At(o, "reload")
    /\ Replace("reload", None, child)
    /\ Internal

\* Only a native browser is reattached by a start request.
Reloaded(o) ==
    /\ At(o, "ready")
    /\ run.goal = "reload"
    /\ \/ /\ Request(o, "start")
          /\ GoTo("call")
       \/ /\ run' = [run EXCEPT !.step = "ensure", !.goal = "dispatch"]
          /\ Consumed
    /\ Internal

Dispatch(o) ==
    /\ At(o, "ready")
    /\ run.goal = "dispatch"
    /\ \/ /\ o \in memory
          /\ EnterPhase(o, "worker_request_sent")
          /\ Request(o, "command")
          /\ GoTo("call")
          /\ UNCHANGED <<memory, stamp, command, outcome, journal,
                         queue, returned, closing, closed>>
       \/ /\ Rejected(o)
          /\ Consumed
    /\ UNCHANGED envVars

\* Variant: the clean worker is given the timed-out command again.
RecoveredRetries(o) ==
    /\ At(o, "ready")
    /\ run.goal = "replace"
    /\ run' = [run EXCEPT !.goal = "dispatch"]
    /\ Internal
    /\ Consumed

\* replaceWorker succeeded: report the operation's own failure.
Recovered(o) ==
    /\ At(o, "ready")
    /\ run.goal = "replace"
    /\ Fail(o, run.code)
    /\ Consumed /\ UNCHANGED envVars

ReloadStarted(o) ==
    /\ At(o, "call")
    /\ run.goal = "reload"
    /\ reply = "ok"
    /\ run' = [run EXCEPT !.step = "ensure", !.goal = "dispatch"]
    /\ Internal
    /\ Consumed

\* captureAuthenticationState, reached while the record is still in memory; prune()
\* may drop it before succeed().
CapturedAuth(o) ==
    CASE command[o] = "login"  -> TRUE
      [] command[o] = "resume" -> FALSE
      [] OTHER                 -> humanAuth

Succeed(o) ==
    /\ At(o, "call")
    /\ run.goal = "dispatch"
    /\ reply = "ok"
    /\ \/ Terminal(o, "succeeded") /\ humanAuth' = CapturedAuth(o)
       \/ Rejected(o) /\ humanAuth' \in {humanAuth, CapturedAuth(o)}
    /\ Consumed /\ UNCHANGED <<handoff, faults>>

CallFails(o) ==
    /\ At(o, "call")
    /\ reply \notin {None, "ok"}
    /\ Catch(o, IF reply \in HardRecovery THEN reply ELSE "failed")

\* Variants: every failure is journalled as 'failed'; the recovery is journalled as
\* the outcome.
JournalOutcomeFailed(o) == IF outcome[o] # "succeeded" THEN "failed" ELSE outcome[o]

JournalRecovery(o) == "not_needed"

\* forceRecover's catch clause journals 'failed' whatever the error was.
JournalOutcome(o) ==
    IF command[o] = "recover" /\ outcome[o] # "succeeded" THEN "failed" ELSE outcome[o]

\* append() may first compact the journal, which forgets old lines (and lines that
\* another append wrote meanwhile); then it may fail.
AppendJournal(o, written) ==
    \E retained \in SUBSET Ops :
        journal' = [p \in Ops |-> IF p = o /\ written THEN JournalOutcome(o)
                                  ELSE IF p \in retained THEN journal[p] ELSE None]

\* appendJournal, whose failure is swallowed, and the settling of the promise.
Persist(o) ==
    /\ At(o, "persist")
    /\ \E written \in BOOLEAN :
          /\ AppendJournal(o, written)
          /\ IF o \in memory /\ written
             THEN EnterPhase(o, "persistence_complete")
             ELSE UNCHANGED phase
    /\ Leave(o, outcome[o])
    /\ UNCHANGED <<memory, stamp, command, outcome, closing, closed,
                   transportVars, workerVars, envVars>>

\* markOperationResponseCreated: the MCP layer has built the tool's response.  The
\* journal line is written again only for a record that was persisted.
ResponseCreated(o) ==
    /\ returned[o] \in Outcomes
    /\ o \in memory
    /\ phase[o] # "response_created"
    /\ EnterPhase(o, "response_created")
    /\ \/ phase[o] = "persistence_complete" /\ \E written \in BOOLEAN : AppendJournal(o, written)
       \/ phase[o] # "persistence_complete" /\ UNCHANGED journal
    /\ UNCHANGED <<memory, stamp, command, outcome, taskVars,
                   transportVars, workerVars, envVars>>

-------------------------------------------------------------------------------
(* forceRecover *)

StartRecover(o) ==
    /\ At(o, "wait")
    /\ command[o] = "recover"
    /\ \/ /\ o \in memory
          /\ ~humanAuth
          /\ EnterPhase(o, "worker_preflight")
          /\ GoTo("preflight")
          /\ UNCHANGED <<memory, stamp, command, outcome, journal,
                         queue, returned, closing, closed>>
       \/ humanAuth /\ Terminal(o, "failed")           \* AUTH_HANDOFF_REQUIRED
       \/ Rejected(o)
    /\ Consumed /\ UNCHANGED envVars

StopForRecover(o) ==
    /\ At(o, "preflight")
    /\ command[o] = "recover"
    /\ \/ /\ o \in memory
          /\ EnterPhase(o, "worker_request_sent")
          /\ Replace("recover", None, child)
          /\ UNCHANGED <<memory, stamp, command, outcome, journal,
                         queue, returned, closing, closed, envVars>>
       \/ /\ o \notin memory
          /\ Catch(o, "failed")

\* With a URL to reopen, open comes first; then status.
RecoveredWorker(o) ==
    /\ At(o, "ready")
    /\ run.goal = "recover"
    /\ \/ /\ Request(o, "open")
          /\ run' = [run EXCEPT !.step = "call", !.goal = "reopen"]
       \/ /\ Request(o, "status")
          /\ GoTo("call")
    /\ Internal

Reopened(o) ==
    /\ At(o, "call")
    /\ run.goal = "reopen"
    /\ reply = "ok"
    /\ Request(o, "status")
    /\ run' = [run EXCEPT !.goal = "recover"]
    /\ Internal

RecoverSucceeds(o) ==
    /\ At(o, "call")
    /\ run.goal = "recover"
    /\ reply = "ok"
    /\ \/ /\ Terminal(o, "succeeded")
          /\ Consumed /\ UNCHANGED envVars
       \/ /\ o \notin memory
          /\ Catch(o, "failed")

-------------------------------------------------------------------------------
(* close *)

RequestClose ==
    /\ HostCloses
    /\ ~closing
    /\ closing' = TRUE
    /\ Enqueue(Close)
    /\ UNCHANGED <<registryVars, run, returned, closed, transportVars, workerVars, envVars>>

CloseRuns == queue # <<>> /\ Head(queue) = Close

StartClose ==
    /\ CloseRuns
    /\ run.step = "wait"
    /\ Replace("close", None, child)
    /\ UNCHANGED <<registryVars, queue, returned, closing, closed, envVars>>

CloseDone ==
    /\ CloseRuns
    /\ run.step = "exit"
    /\ Exited
    /\ closed' = TRUE
    /\ queue' = Tail(queue)
    /\ run' = Idle
    /\ UNCHANGED <<registryVars, returned, closing, transportVars, workerVars, envVars>>

-------------------------------------------------------------------------------
(* browser-worker.ts *)

\* The request that carries its operation out: the command itself, and for
\* recover the status of the new worker.
Carries(req) == req.kind \in {"command", "status"}

CarryOut(req) ==
    /\ effects' = [effects EXCEPT ![req.op] = @ + 1]
    /\ handoff' = CASE command[req.op] = "login"  -> TRUE
                    [] command[req.op] = "resume" -> FALSE
                    [] OTHER                      -> handoff

\* handleRequest: dispatch has its effect and answers; it may also throw, before or
\* after the effect.  A shutdown does not interrupt it, but send() is silent once
\* the channel is closed.
Handle(w, value) ==
    /\ work[w] # None
    /\ LET req == work[w] IN
       /\ value = "mismatch" => req.kind = "initialize"
       /\ \/ Carries(req) /\ CarryOut(req)
          \/ /\ Carries(req) => value # "ok"
             /\ UNCHANGED <<effects, handoff>>
       /\ channel' = IF proc[w] = "detached" THEN channel
                     ELSE [channel EXCEPT ![w] = Append(@, [req |-> req, value |-> value])]
    /\ work' = [work EXCEPT ![w] = None]
    /\ UNCHANGED <<registryVars, taskVars, transportVars, proc, humanAuth, faults>>

Fault == faults < MaxFaults /\ faults' = faults + 1

\* SIGTERM from outside the supervisor.
ExternalTerm(w) ==
    /\ proc[w] = "up"
    /\ Fault
    /\ Signal(w)
    /\ UNCHANGED <<registryVars, taskVars, transportVars, humanAuth, handoff>>

\* shutdown() ends with process.disconnect; only of the current child does anybody
\* look at the connection.
Detach(w) ==
    /\ w = child
    /\ proc[w] = "draining"
    /\ proc' = [proc EXCEPT ![w] = "detached"]
    /\ UNCHANGED <<registryVars, taskVars, transportVars, work, channel, effects, envVars>>

\* A process that has shut down exits once it has nothing left to do.
Exit(w) ==
    /\ proc[w] \in {"draining", "detached"}
    /\ work[w] = None
    /\ Gone(w)
    /\ UNCHANGED faults

Crash(w) ==
    /\ proc[w] # "gone"
    /\ Fault
    /\ Gone(w)

-------------------------------------------------------------------------------
Calls ==
    \/ \E o \in Ops, c \in Commands : Reserve(o, c) \/ BeginNew(o, c)
    \/ \E o \in Ops : BeginReserved(o) \/ ResponseCreated(o)
    \/ Query
    \/ RequestClose

OperationStep(o) ==
    \/ StartExecute(o) \/ Preflight(o) \/ Reload(o) \/ Reloaded(o) \/ ReloadStarted(o)
    \/ EnsureClosing(o) \/ EnsureReuse(o) \/ (\E w \in Workers : EnsureFork(o, w))
    \/ InitializeOk(o) \/ InitializeFails(o) \/ InitializeGivenUp(o)
    \/ ReplacedWorkerExited(o)
    \/ Dispatch(o) \/ Succeed(o) \/ CallFails(o) \/ Recovered(o) \/ Persist(o)
    \/ StartRecover(o) \/ StopForRecover(o) \/ RecoveredWorker(o) \/ Reopened(o) \/ RecoverSucceeds(o)

QueueStep == (\E o \in Ops : OperationStep(o)) \/ StartClose \/ CloseDone

WorkerStep(w) ==
    \/ \E v \in {"ok", "error", "mismatch"} : Handle(w, v)
    \/ Deliver(w) \/ ExternalTerm(w) \/ Detach(w) \/ Exit(w) \/ Crash(w)

Next ==
    \/ Calls
    \/ QueueStep
    \/ KillAfterGrace
    \/ \E r \in pending : Timeout(r)
    \/ \E w \in Workers : WorkerStep(w)

\* The event loop runs a ready continuation, timers fire, SIGKILL kills, and an idle
\* worker that has disconnected runs out of events and exits.  Nothing is assumed of
\* a worker at work, and no answer need arrive.
Fairness ==
    /\ WF_vars(QueueStep)
    /\ WF_vars(KillAfterGrace)
    /\ WF_vars(\E r \in pending : Timeout(r))
    /\ \A w \in Workers : WF_vars(Exit(w))

Spec == Init /\ [][Next]_vars

FairSpec == Spec /\ Fairness
-------------------------------------------------------------------------------
(* Properties *)

\* The type of every variable, part by part.
RegistryTypeOK ==
    /\ memory \subseteq Ops
    /\ stamp \in [Ops -> Nat]
    /\ command \in [Ops -> Commands \cup {None}]
    /\ phase \in [Ops -> Phases]
    /\ outcome \in [Ops -> Outcomes \cup {None}]
    /\ journal \in [Ops -> Outcomes \cup {None}]

TaskTypeOK ==
    /\ queue \in Seq(Ops \cup {Close})
    /\ run \in Routines
    /\ returned \in [Ops -> Outcomes \cup {None, "rejected"}]
    /\ closing \in BOOLEAN
    /\ closed \in BOOLEAN

WorkerTypeOK ==
    /\ child \in Workers \cup {None}
    /\ pending \subseteq Requests
    /\ reply \in Replies \cup {None}
    /\ proc \in [Workers -> Lives]
    /\ work \in [Workers -> Requests \cup {None}]
    /\ channel \in [Workers -> Seq(Answers)]
    /\ effects \in [Ops -> Nat]

EnvTypeOK ==
    /\ humanAuth \in BOOLEAN
    /\ handoff \in BOOLEAN
    /\ faults \in 0 .. MaxFaults

TypeOK == RegistryTypeOK /\ TaskTypeOK /\ WorkerTypeOK /\ EnvTypeOK

\* No worker runs behind the supervisor's back: a process that has not been told
\* to stop is the current child, through every failed start, replacement and race
\* of an exit with a fork.
NoOrphanWorker == \A w \in Workers : proc[w] = "up" => w = child

\* Two workers never carry commands out at the same time, although an old process
\* may still be draining when its replacement is forked.
OneWorkerAtWork ==
    \A v, w \in Workers : work[v] # None /\ work[w] # None => v = w

\* "does not replay the timed-out action" (README.md:42): no operation is carried
\* out twice, whatever timeouts, worker losses and recoveries it went through.
NoReplay == \A o \in Ops : effects[o] <= 1

\* After close() has finished no worker is left, and operations that are still
\* queued or issued later never start one.
ClosedIsFinal == closed => child = None /\ \A w \in Workers : proc[w] # "up"

\* A reload for a compatible update never stops a worker while a private handoff
\* owns the profile, although the lease is read long before the worker is stopped.
ReloadSparesHandoff ==
    [][\A o \in Ops : Reload(o) => ~handoff]_vars

\* What operation_status says of a finished operation is never revised, be it
\* answered from memory or, after pruning, from the journal; at worst the
\* operation is forgotten.  (Of recoveries see RecoverOutcomeNeverRevised.)
Revised(o) ==
    /\ Report(o) # None
    /\ Report(o).outcome # None
    /\ Report(o)' # None
    /\ Report(o)'.outcome # Report(o).outcome

OutcomeNeverRevised ==
    [][\A o \in Ops : command[o] # "recover" => ~Revised(o)]_vars

\* tests/operation-registry.test.ts:94 expects an OPERATION_TIMEOUT to be durably
\* 'timed_out'; for the operations of forceRecover it is not.
RecoverOutcomeNeverRevised ==
    [][\A o \in Ops : command[o] = "recover" => ~Revised(o)]_vars

\* "so completion remains queryable across caller delivery failures" (README.md,
\* browser_reserve_operation): an operation that was issued is never unknown while
\* it is queued or running.
IssuedIsQueryable ==
    \A o \in Ops : (\E i \in 1 .. Len(queue) : queue[i] = o) => Report(o) # None

\* tests/supervisor.test.ts:448, "refuses worker recovery while a private human
\* authentication handoff is active".
RecoverSparesHandoff ==
    [][\A o \in Ops : StopForRecover(o) /\ child # None /\ child' = None => ~handoff]_vars

\* Every issued operation ends for its caller, with an outcome or an error, and
\* close() ends, whatever worker hangs, crashes or disappears.
EveryOperationReturns ==
    \A o \in Ops : phase[o] = "queued" ~> returned[o] # None

CloseEnds == closing ~> closed

\* The supervisor implements what it promises: refinement of OperationContract.
ReportedState(o) ==
    CASE outcome[o] # None                              -> outcome[o]
      [] returned[o] = "rejected"                       -> "lost"
      [] phase[o] = "unborn"                            -> "unknown"
      [] phase[o] = "reserved" /\ o \in memory          -> "reserved"
      [] phase[o] = "reserved" /\ o \notin memory       -> "expired"
      [] OTHER                                          -> "issued"

\* Operation p is queued before operation o, and both have yet to end.
Before(p, o) ==
    /\ outcome[p] = None /\ outcome[o] = None
    /\ \E i, j \in 1 .. Len(queue) : i < j /\ queue[i] = p /\ queue[j] = o

Contract == INSTANCE OperationContract WITH
    state <- [o \in Ops |-> ReportedState(o)],
    ahead <- [o \in Ops |-> {p \in Ops : Before(p, o)}]

ImplementsContract == Contract!Spec
===============================================================================
