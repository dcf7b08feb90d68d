---------------------------- MODULE ContractProofs ----------------------------
(***************************************************************************)
(* What the supervisor does with an operation and says of it, for every    *)
(* set of operations and worker slots: it is carried out once at most, its *)
(* outcome is never reported differently once it is finished, and the      *)
(* whole implements OperationContract.                                     *)
(***************************************************************************)
EXTENDS SupervisorProofs

-----------------------------------------------------------------------------
(* No operation is carried out twice.  Why: an operation enters the queue  *)
(* once; until the routine at the head of the queue has sent its request   *)
(* it has had no effect and no worker has been told of it; the routine     *)
(* sends it once and never returns to the part before; and the one worker  *)
(* that was told has no longer anything to do once it has had the effect.  *)

\* begin() was called for the operation.
Issued(o) == phase[o] \notin {"unborn", "reserved"}

\* The routine at the head of the queue has not yet sent what carries it out.
Unsent ==
    \/ run.step \in {"wait", "preflight", "reload"}
    \/ run.goal \in {"reload", "reopen"}
    \/ /\ run.goal \in {"dispatch", "recover"}
       /\ run.step \in {"exit", "ensure", "init", "initExit", "ready"}

\* No worker can have heard of the operation.
Untouched(o) ==
    \/ ~Issued(o)
    \/ \E i \in 1 .. Len(queue) : queue[i] = o /\ (i # 1 \/ Unsent)

\* The workers that have yet to answer a request which carries the operation out.
Carriers(o) == {w \in Workers : work[w] # None /\ work[w].op = o /\ Carries(work[w])}

QueuedOnce == \A i, j \in 1 .. Len(queue) : queue[i] = queue[j] /\ queue[i] # Close => i = j

QueuedIssued == \A i \in 1 .. Len(queue) : queue[i] # Close => Issued(queue[i])

UntouchedHasNoEffect == \A o \in Ops : Untouched(o) => effects[o] = 0 /\ Carriers(o) = {}

OneCarrier == \A o \in Ops : \A v, w \in Carriers(o) : v = w

SpentHasNoCarrier ==
    \A o \in Ops : effects[o] \in {0, 1} /\ (effects[o] = 1 => Carriers(o) = {})

QueueInv == QueuedOnce /\ QueuedIssued

EffectInv == UntouchedHasNoEffect /\ OneCarrier /\ SpentHasNoCarrier

ReplayInv == QueueInv /\ EffectInv

(***************************************************************************)
(* What a step may do to the work of the processes.                        *)
(***************************************************************************)

\* Work is dropped, or replaced by a request that carries nothing out.
NoNewWork == \A v \in Workers : work'[v] \in {work[v], None} \/ ~Carries(work'[v])

\* One process is given a request of the operation.
Sends(o) ==
    \E w \in Workers : /\ \A v \in Workers \ {w} : work'[v] = work[v]
                       /\ work'[w] # None => work'[w].op = o

\* Work that is dropped or carries nothing out makes no worker a carrier.
LEMMA NoNewCarrier ==
    ASSUME NoNewWork, NEW o \in Ops
    PROVE  Carriers(o)' \subseteq Carriers(o)
BY DEF NoNewWork, Carriers

\* terminateWorker only takes work away.
LEMMA TerminateWork ==
    ASSUME WorkerTypeOK, NEW w \in Workers \cup {None}, Terminate(w)
    PROVE  NoNewWork /\ UNCHANGED effects
BY DEF Terminate, Signal, Interrupt, NoNewWork, WorkerTypeOK, workerVars

\* So does the end of a process.
LEMMA GoneWork ==
    ASSUME WorkerTypeOK, NEW w \in Workers, Gone(w)
    PROVE  NoNewWork /\ UNCHANGED effects
BY DEF Gone, NoNewWork, WorkerTypeOK

\* A continuation that sends nothing leaves the workers alone.
LEMMA ConsumedWork ==
    ASSUME Consumed
    PROVE  NoNewWork /\ UNCHANGED effects
BY DEF Consumed, NoNewWork, workerVars

\* request() tells at most one worker, and only of its own operation.
LEMMA RequestWork ==
    ASSUME WorkerTypeOK, NEW o \in Ops, NEW k \in Kinds, Request(o, k)
    PROVE  /\ UNCHANGED effects
           /\ NoNewWork \/ Sends(o)
           /\ k \notin {"command", "status"} => NoNewWork
<1>1. CASE Usable(child)
  <2>1. child \in Workers
    BY <1>1, SupervisorAssumption DEF WorkerTypeOK, Usable, SupervisorAssumption
  <2> DEFINE r == [op |-> o, kind |-> k, worker |-> child]
  <2>2. /\ UNCHANGED effects
        /\ work' = work \/ work' = [work EXCEPT ![child] = r]
    BY <1>1 DEF Request
  <2>3. r.op = o /\ r.kind = k
    OBVIOUS
  <2> HIDE DEF r
  <2> QED
    BY <2>1, <2>2, <2>3 DEF NoNewWork, Sends, Carries, WorkerTypeOK
<1>2. CASE ~Usable(child)
  BY <1>2 DEF Request, NoNewWork, workerVars
<1> QED
  BY <1>1, <1>2

(***************************************************************************)
(* What a step of the routine may do: nothing is carried out, what was     *)
(* issued stays issued, the queue advances or the routine does not go back *)
(* to before its request, and work is given at most once, at that point.   *)
(***************************************************************************)

KeepsIssued == \A p \in Ops : Issued(p) => Issued(p)'

Advances == queue' = Tail(queue) \/ (queue' = queue /\ (Unsent' => Unsent))

Harmless == KeepsIssued /\ Advances /\ NoNewWork /\ UNCHANGED effects

SendsOnce(o) ==
    /\ KeepsIssued /\ UNCHANGED <<effects, queue>>
    /\ Unsent /\ ~Unsent'
    /\ Sends(o)

\* An operation that has its outcome is past its request.
LEMMA TerminalShape ==
    ASSUME TypeOK, NEW o \in Ops, NEW r, Terminal(o, r)
    PROVE  KeepsIssued /\ Advances
<1>1. KeepsIssued
  BY DEF Terminal, KeepsIssued, Issued, TypeOK, RegistryTypeOK
<1>2. ~Unsent' /\ queue' = queue
  BY DEF Terminal, Unsent, Idle
<1> QED
  BY <1>1, <1>2 DEF Advances

\* An operation whose record was dropped leaves the queue.
LEMMA RejectedShape ==
    ASSUME NEW o \in Ops, Rejected(o)
    PROVE  KeepsIssued /\ Advances
BY DEF Rejected, Leave, KeepsIssued, Issued, Advances, registryVars

\* fail() does one or the other.
LEMMA FailShape ==
    ASSUME TypeOK, NEW o \in Ops, NEW code, Fail(o, code)
    PROVE  KeepsIssued /\ Advances
BY TerminalShape, RejectedShape DEF Fail

\* A worker replacement for these goals is no way back.
LEMMA ReplaceShape ==
    ASSUME TypeOK, NEW goal, NEW code, Replace(goal, code, child)
    PROVE  /\ NoNewWork /\ UNCHANGED effects
           /\ goal \in {"replace", "abandon", "close"} => ~Unsent'
<1>1. child \in Workers \cup {None} /\ WorkerTypeOK
  BY DEF TypeOK, WorkerTypeOK
<1>2. NoNewWork /\ UNCHANGED effects
  BY <1>1, TerminateWork DEF Replace
<1> QED
  BY <1>2 DEF Replace, Unsent

\* The catch clauses give nobody work.
LEMMA CatchShape ==
    ASSUME TypeOK, NEW o \in Ops, NEW code, Catch(o, code) \/ EnsureFails(o, code)
    PROVE  Harmless
<1>1. ASSUME NEW c, Fail(o, c) /\ Consumed PROVE Harmless
  BY <1>1, FailShape, ConsumedWork DEF Harmless
<1>2. ASSUME NEW c, Catch(o, c) PROVE Harmless
  <2>1. CASE \E goal \in {"replace", "abandon"} :
               /\ Replace(goal, c, child)
               /\ queue' = queue
               /\ phase' = phase \/ EnterPhase(o, "worker_result_received")
    <3>1. KeepsIssued
      BY <2>1 DEF EnterPhase, KeepsIssued, Issued, TypeOK, RegistryTypeOK
    <3>2. NoNewWork /\ UNCHANGED effects /\ ~Unsent'
      BY <2>1, ReplaceShape
    <3> QED
      BY <2>1, <3>1, <3>2 DEF Harmless, Advances
  <2> QED
    BY <1>1, <1>2, <2>1 DEF Catch
<1> QED
  BY <1>1, <1>2 DEF EnsureFails

\* A step of the routine alone is harmless if it does not lead back.
LEMMA InternalShape ==
    ASSUME Internal, NoNewWork, UNCHANGED effects, Unsent' => Unsent
    PROVE  Harmless
BY DEF Internal, Harmless, KeepsIssued, Issued, Advances, registryVars

\* A phase of an issued operation is that of an issued operation.
LEMMA EnterShape ==
    ASSUME TypeOK, NEW o \in Ops, NEW p \in Phases \ {"unborn", "reserved"}, EnterPhase(o, p)
    PROVE  KeepsIssued
BY DEF EnterPhase, KeepsIssued, Issued, TypeOK, RegistryTypeOK

\* ensureWorker and replaceWorker carry nothing out and never lead back.
LEMMA EnsureShape ==
    ASSUME TypeOK, NEW o \in Ops,
           \/ EnsureClosing(o) \/ EnsureReuse(o) \/ (\E w \in Workers : EnsureFork(o, w))
           \/ InitializeOk(o) \/ InitializeFails(o) \/ InitializeGivenUp(o)
           \/ ReplacedWorkerExited(o)
    PROVE  Harmless
<1>1. CASE EnsureClosing(o) \/ InitializeGivenUp(o)
  BY <1>1, CatchShape DEF EnsureClosing, InitializeGivenUp
<1>2. CASE EnsureReuse(o) \/ InitializeOk(o)
  <2>1. Internal /\ Consumed
    BY <1>2 DEF EnsureReuse, InitializeOk
  <2>2. Unsent' => Unsent
    <3>1. run.step \in {"ensure", "init"} /\ run'.goal = run.goal /\ run'.step = "ready"
      BY <1>2 DEF EnsureReuse, InitializeOk, At, GoTo, TypeOK, TaskTypeOK, Routines
    <3> QED
      BY <3>1 DEF Unsent
  <2> QED
    BY <2>1, <2>2, ConsumedWork, InternalShape
<1>3. ASSUME NEW w \in Workers, EnsureFork(o, w) PROVE Harmless
  <2> DEFINE r == [op |-> o, kind |-> "initialize", worker |-> w]
  <2>1. Internal /\ UNCHANGED effects /\ work' = [work EXCEPT ![w] = r]
    BY <1>3 DEF EnsureFork
  <2>2. ~Carries(r)
    BY DEF Carries
  <2>3. NoNewWork
    BY <2>1, <2>2 DEF NoNewWork, TypeOK, WorkerTypeOK
  <2>4. Unsent' => Unsent
    BY <1>3 DEF EnsureFork, At, Unsent, TypeOK, TaskTypeOK, Routines
  <2> QED
    BY <2>1, <2>3, <2>4, InternalShape
<1>4. CASE InitializeFails(o)
  <2>1. run.target \in Workers \cup {None} /\ WorkerTypeOK
    BY DEF TypeOK, TaskTypeOK, Routines
  <2>2. Internal /\ Terminate(run.target)
    BY <1>4 DEF InitializeFails
  <2>3. Unsent' => Unsent
    BY <1>4 DEF InitializeFails, At, Unsent, TypeOK, TaskTypeOK, Routines
  <2> QED
    BY <2>1, <2>2, <2>3, TerminateWork, InternalShape
<1>5. CASE ReplacedWorkerExited(o)
  <2>1. CASE Fail(o, run.code) /\ Consumed
    BY <2>1, FailShape, ConsumedWork DEF Harmless
  <2>2. CASE run' = [run EXCEPT !.step = "ensure", !.target = None] /\ Internal /\ Consumed
    <3>1. Unsent' => Unsent
      BY <1>5, <2>2 DEF ReplacedWorkerExited, At, Unsent, TypeOK, TaskTypeOK, Routines
    <3> QED
      BY <2>2, <3>1, ConsumedWork, InternalShape
  <2> QED
    BY <1>5, <2>1, <2>2 DEF ReplacedWorkerExited
<1> QED
  BY <1>1, <1>2, <1>3, <1>4, <1>5

\* Of the steps of execute only the dispatch gives work.
LEMMA ExecuteShape ==
    ASSUME TypeOK, NEW o \in Ops,
           \/ StartExecute(o) \/ Preflight(o) \/ Reload(o) \/ Reloaded(o) \/ ReloadStarted(o)
           \/ Succeed(o) \/ CallFails(o) \/ Recovered(o) \/ Persist(o)
    PROVE  Harmless
<1>1. CASE StartExecute(o)
  <2>1. CASE Rejected(o)
    BY <1>1, <2>1, RejectedShape, ConsumedWork DEF StartExecute, Harmless
  <2>2. CASE EnterPhase(o, "worker_preflight") /\ queue' = queue
    <3>1. Unsent
      BY <1>1 DEF StartExecute, At, Unsent
    <3>2. KeepsIssued
      BY <2>2, EnterShape DEF Phases
    <3> QED
      BY <1>1, <2>2, <3>1, <3>2, ConsumedWork DEF StartExecute, Harmless, Advances
  <2> QED
    BY <1>1, <2>1, <2>2 DEF StartExecute
<1>2. CASE Preflight(o)
  <2>1. Unsent
    BY <1>2 DEF Preflight, At, Unsent
  <2> QED
    BY <1>2, <2>1, CatchShape, ConsumedWork, InternalShape DEF Preflight
<1>3. CASE Reload(o)
  <2>1. Unsent
    BY <1>3 DEF Reload, At, Unsent
  <2> QED
    BY <1>3, <2>1, ReplaceShape, InternalShape DEF Reload
<1>4. CASE Reloaded(o)
  <2>1. Unsent
    BY <1>4 DEF Reloaded, Unsent
  <2>2. NoNewWork /\ UNCHANGED effects
    BY <1>4, RequestWork, ConsumedWork DEF Reloaded, Kinds, TypeOK
  <2> QED
    BY <1>4, <2>1, <2>2, InternalShape DEF Reloaded
<1>5. CASE ReloadStarted(o)
  <2>1. Unsent
    BY <1>5 DEF ReloadStarted, Unsent
  <2> QED
    BY <1>5, <2>1, ConsumedWork, InternalShape DEF ReloadStarted
<1>6. CASE Succeed(o) \/ Recovered(o)
  <2>1. KeepsIssued /\ Advances
    BY <1>6, TerminalShape, RejectedShape, FailShape DEF Succeed, Recovered
  <2> QED
    BY <1>6, <2>1, ConsumedWork DEF Succeed, Recovered, Harmless
<1>7. CASE CallFails(o)
  BY <1>7, CatchShape DEF CallFails
<1>8. CASE Persist(o)
  <2>1. KeepsIssued
    <3>1. phase' = phase \/ EnterPhase(o, "persistence_complete")
      BY <1>8 DEF Persist
    <3> QED
      BY <3>1, EnterShape DEF Phases, KeepsIssued, Issued
  <2>2. NoNewWork /\ UNCHANGED effects /\ queue' = Tail(queue)
    BY <1>8 DEF Persist, Leave, NoNewWork, workerVars
  <2> QED
    BY <2>1, <2>2 DEF Harmless, Advances
<1> QED
  BY <1>1, <1>2, <1>3, <1>4, <1>5, <1>6, <1>7, <1>8

\* A routine that comes to a request of kind command or status sends it once, or
\* finds the worker gone.
LEMMA SendShape ==
    ASSUME TypeOK, NEW o \in Ops, NEW k \in Kinds, Request(o, k),
           KeepsIssued, queue' = queue, Unsent, ~Unsent'
    PROVE  Harmless \/ SendsOnce(o)
BY RequestWork DEF TypeOK, Harmless, Advances, SendsOnce

\* The dispatch gives it once, or finds the record or the worker gone.
LEMMA DispatchShape ==
    ASSUME TypeOK, NEW o \in Ops, Dispatch(o)
    PROVE  Harmless \/ SendsOnce(o)
<1>1. CASE Rejected(o) /\ Consumed
  BY <1>1, RejectedShape, ConsumedWork DEF Harmless
<1>2. CASE /\ EnterPhase(o, "worker_request_sent") /\ Request(o, "command")
           /\ GoTo("call") /\ queue' = queue
  <2>1. KeepsIssued
    BY <1>2, EnterShape DEF Phases
  <2>2. run.step = "ready" /\ run.goal = "dispatch"
    BY DEF Dispatch, At
  <2>3. run'.step = "call" /\ run'.goal = "dispatch"
    BY <1>2, <2>2 DEF GoTo, TypeOK, TaskTypeOK, Routines
  <2>4. Unsent /\ ~Unsent'
    BY <2>2, <2>3 DEF Unsent
  <2> QED
    BY <1>2, <2>1, <2>4, SendShape DEF Kinds
<1> QED
  BY <1>1, <1>2 DEF Dispatch

\* forceRecover gives work once too: the status request of its new worker.
LEMMA RecoverShape ==
    ASSUME TypeOK, NEW o \in Ops,
           \/ StartRecover(o) \/ StopForRecover(o) \/ RecoveredWorker(o) \/ Reopened(o)
           \/ RecoverSucceeds(o)
    PROVE  Harmless \/ SendsOnce(o)
<1> USE DEF TypeOK
<1>1. CASE StartRecover(o)
  <2>1. Unsent
    BY <1>1 DEF StartRecover, At, Unsent
  <2>2. KeepsIssued /\ Advances
    <3>1. CASE EnterPhase(o, "worker_preflight") /\ queue' = queue
      BY <2>1, <3>1, EnterShape DEF Phases, Advances
    <3> QED
      BY <1>1, <3>1, TerminalShape, RejectedShape DEF StartRecover
  <2> QED
    BY <1>1, <2>2, ConsumedWork DEF StartRecover, Harmless
<1>2. CASE StopForRecover(o)
  <2>1. Unsent
    BY <1>2 DEF StopForRecover, At, Unsent
  <2>2. CASE /\ EnterPhase(o, "worker_request_sent") /\ Replace("recover", None, child)
             /\ queue' = queue
    BY <2>1, <2>2, EnterShape, ReplaceShape DEF Phases, Harmless, Advances
  <2> QED
    BY <1>2, <2>2, CatchShape DEF StopForRecover
<1>3. CASE RecoveredWorker(o)
  <2>1. run.step = "ready" /\ run.goal = "recover" /\ Unsent
    BY <1>3 DEF RecoveredWorker, At, Unsent
  <2>2. CASE Request(o, "open")
    BY <1>3, <2>1, <2>2, RequestWork, InternalShape DEF RecoveredWorker, Kinds
  <2>3. CASE Request(o, "status") /\ GoTo("call")
    <3>1. run'.step = "call" /\ run'.goal = "recover"
      BY <2>1, <2>3 DEF GoTo, TaskTypeOK, Routines
    <3>2. ~Unsent'
      BY <3>1 DEF Unsent
    <3>3. KeepsIssued /\ queue' = queue
      BY <1>3 DEF RecoveredWorker, Internal, KeepsIssued, Issued, registryVars
    <3> QED
      BY <2>1, <2>3, <3>2, <3>3, SendShape DEF Kinds
  <2> QED
    BY <1>3, <2>2, <2>3 DEF RecoveredWorker
<1>4. CASE Reopened(o)
  <2>1. run.step = "call" /\ Unsent
    BY <1>4 DEF Reopened, At, Unsent
  <2>2. run'.step = "call" /\ run'.goal = "recover"
    BY <1>4, <2>1 DEF Reopened, TaskTypeOK, Routines
  <2>3. ~Unsent'
    BY <2>2 DEF Unsent
  <2>4. KeepsIssued /\ queue' = queue
    BY <1>4 DEF Reopened, Internal, KeepsIssued, Issued, registryVars
  <2> QED
    BY <1>4, <2>1, <2>3, <2>4, SendShape DEF Reopened, Kinds
<1>5. CASE RecoverSucceeds(o)
  BY <1>5, TerminalShape, ConsumedWork, CatchShape DEF RecoverSucceeds, Harmless
<1> QED
  BY <1>1, <1>2, <1>3, <1>4, <1>5

\* Every step of a routine is one or the other.
LEMMA RoutineShape ==
    ASSUME TypeOK, NEW o \in Ops, OperationStep(o)
    PROVE  Running(o) /\ (Harmless \/ SendsOnce(o))
<1>1. Running(o)
  BY DEF OperationStep, At, StartExecute, Preflight, Reload, Reloaded, ReloadStarted,
         EnsureClosing, EnsureReuse, EnsureFork, InitializeOk, InitializeFails,
         InitializeGivenUp, ReplacedWorkerExited, Dispatch, Succeed, CallFails, Recovered,
         Persist, StartRecover, StopForRecover, RecoveredWorker, Reopened, RecoverSucceeds
<1> QED
  BY <1>1, EnsureShape, ExecuteShape, DispatchShape, RecoverShape DEF OperationStep

(***************************************************************************)
(* The invariant is kept.                                                  *)
(***************************************************************************)

\* Nothing is carried out and nobody is told of an operation: it suffices that
\* none becomes untouched.
LEMMA EffectInvKept ==
    ASSUME EffectInv, UNCHANGED effects,
           \A o \in Ops : /\ Carriers(o)' \subseteq Carriers(o)
                          /\ Untouched(o)' => Untouched(o)
    PROVE  EffectInv'
<1>1. \A o \in Ops : effects'[o] = effects[o]
  OBVIOUS
<1>2. UntouchedHasNoEffect'
  BY <1>1 DEF EffectInv, UntouchedHasNoEffect
<1>3. OneCarrier'
  BY <1>1 DEF EffectInv, OneCarrier
<1>4. SpentHasNoCarrier'
  BY <1>1 DEF EffectInv, SpentHasNoCarrier
<1> QED
  BY <1>2, <1>3, <1>4 DEF EffectInv

\* The queue keeps its shape when it loses its head or stays as it is.
LEMMA QueueInvKept ==
    ASSUME TypeOK, QueueInv, KeepsIssued,
           queue' = queue \/ (queue' = Tail(queue) /\ queue # <<>>)
    PROVE  QueueInv'
<1>1. queue \in Seq(Ops \cup {Close})
  BY DEF TypeOK, TaskTypeOK
<1>2. CASE queue' = queue
  BY <1>1, <1>2 DEF QueueInv, QueuedOnce, QueuedIssued, KeepsIssued
<1>3. CASE queue' = Tail(queue) /\ queue # <<>>
  <2>1. \A i \in 1 .. Len(queue') : i + 1 \in 1 .. Len(queue) /\ queue'[i] = queue[i + 1]
    BY <1>1, <1>3
  <2>2. QueuedOnce'
    BY <1>1, <1>3, <2>1 DEF QueueInv, QueuedOnce
  <2>3. QueuedIssued'
    <3>1. ASSUME NEW i \in 1 .. Len(queue'), queue'[i] # Close PROVE Issued(queue[i])'
      <4>1. Issued(queue[i + 1]) /\ queue[i + 1] \in Ops
        BY <1>1, <2>1, <3>1 DEF QueueInv, QueuedIssued
      <4> QED
        BY <2>1, <4>1 DEF KeepsIssued
    <3> QED
      BY <3>1 DEF QueuedIssued
  <2> QED
    BY <2>2, <2>3 DEF QueueInv
<1> QED
  BY <1>2, <1>3

\* A harmless step keeps the invariant,
LEMMA HarmlessKeeps ==
    ASSUME TypeOK, ReplayInv, Harmless, queue' = queue \/ queue # <<>>
    PROVE  ReplayInv'
<1>1. queue \in Seq(Ops \cup {Close})
  BY DEF TypeOK, TaskTypeOK
<1>2. ASSUME NEW o \in Ops, Untouched(o)' PROVE Untouched(o)
  <2>1. CASE ~Issued(o)'
    BY <2>1 DEF Harmless, KeepsIssued, Untouched
  <2>2. CASE Issued(o)'
    <3>1. PICK i \in 1 .. Len(queue') : queue'[i] = o /\ (i # 1 \/ Unsent')
      BY <1>2, <2>2 DEF Untouched
    <3>2. CASE queue' = queue /\ (Unsent' => Unsent)
      BY <3>1, <3>2 DEF Untouched
    <3>3. CASE queue' = Tail(queue) /\ queue # <<>>
      <4>1. i + 1 \in 1 .. Len(queue) /\ queue[i + 1] = o /\ i + 1 # 1
        BY <1>1, <3>1, <3>3
      <4> QED
        BY <4>1 DEF Untouched
    <3>4. CASE queue' = Tail(queue) /\ queue = <<>>
      BY <1>1, <3>1, <3>4
    <3> QED
      BY <3>2, <3>3, <3>4 DEF Harmless, Advances
  <2> QED
    BY <2>1, <2>2
<1>3. \A o \in Ops : Carriers(o)' \subseteq Carriers(o)
  BY NoNewCarrier DEF Harmless
<1>4. EffectInv'
  BY <1>2, <1>3, EffectInvKept DEF ReplayInv, Harmless
<1>5. QueueInv'
  BY QueueInvKept DEF ReplayInv, Harmless, Advances
<1> QED
  BY <1>4, <1>5 DEF ReplayInv

\* so does the one request that carries the operation at the head out,
LEMMA SendKeeps ==
    ASSUME TypeOK, ReplayInv, NEW o \in Ops, Running(o), SendsOnce(o)
    PROVE  ReplayInv'
<1>1. queue \in Seq(Ops \cup {Close}) /\ queue[1] = o /\ 1 \in 1 .. Len(queue) /\ o # Close
  BY SupervisorAssumption DEF TypeOK, TaskTypeOK, Running, SupervisorAssumption
<1>2. Untouched(o)
  BY <1>1 DEF SendsOnce, Untouched
<1>3. effects[o] = 0 /\ Carriers(o) = {}
  BY <1>2 DEF ReplayInv, EffectInv, UntouchedHasNoEffect
<1>4. ~Untouched(o)'
  <2>1. Issued(o)'
    BY <1>1 DEF ReplayInv, QueueInv, QueuedIssued, SendsOnce, KeepsIssued
  <2>2. \A i \in 1 .. Len(queue') : queue'[i] = o => i = 1
    BY <1>1 DEF ReplayInv, QueueInv, QueuedOnce, SendsOnce
  <2> QED
    BY <2>1, <2>2 DEF Untouched, SendsOnce
<1>5. ASSUME NEW p \in Ops \ {o}
      PROVE  Carriers(p)' \subseteq Carriers(p) /\ (Untouched(p)' => Untouched(p))
  <2>1. Carriers(p)' \subseteq Carriers(p)
    BY DEF SendsOnce, Sends, Carriers
  <2>2. Untouched(p)' => Untouched(p)
    BY <1>1 DEF SendsOnce, KeepsIssued, Untouched
  <2> QED
    BY <2>1, <2>2
<1>6. \A v, w \in Carriers(o)' : v = w
  BY <1>3 DEF SendsOnce, Sends, Carriers
<1>7. EffectInv'
  <2>1. \A p \in Ops : effects'[p] = effects[p]
    BY DEF SendsOnce
  <2>2. UntouchedHasNoEffect'
    BY <1>4, <1>5, <2>1 DEF ReplayInv, EffectInv, UntouchedHasNoEffect
  <2>3. OneCarrier'
    BY <1>5, <1>6, <2>1 DEF ReplayInv, EffectInv, OneCarrier
  <2>4. SpentHasNoCarrier'
    BY <1>3, <1>5, <2>1 DEF ReplayInv, EffectInv, SpentHasNoCarrier
  <2> QED
    BY <2>2, <2>3, <2>4 DEF EffectInv
<1>8. QueueInv'
  BY QueueInvKept DEF ReplayInv, SendsOnce
<1> QED
  BY <1>7, <1>8 DEF ReplayInv

\* and the end of the queue takes close(), or an operation nobody has issued before.
LEMMA EnqueueKeeps ==
    ASSUME TypeOK, ReplayInv, KeepsIssued, NEW t \in Ops \cup {Close}, Enqueue(t),
           t # Close => ~Issued(t) /\ Issued(t)',
           UNCHANGED <<effects, work, run>>
    PROVE  ReplayInv'
<1>1. queue \in Seq(Ops \cup {Close})
  BY DEF TypeOK, TaskTypeOK
<1>2. /\ Len(queue') = Len(queue) + 1 /\ queue'[Len(queue) + 1] = t
      /\ \A i \in 1 .. Len(queue) : queue'[i] = queue[i]
      /\ Len(queue) \in Nat
  BY <1>1 DEF Enqueue
<1>3. \A i \in 1 .. Len(queue') : i \in 1 .. Len(queue) \/ i = Len(queue) + 1
  BY <1>2
<1>4. t # Close => \A i \in 1 .. Len(queue) : queue[i] # t
  BY <1>1 DEF ReplayInv, QueueInv, QueuedIssued
<1>5. QueuedOnce'
  BY <1>2, <1>3, <1>4 DEF ReplayInv, QueueInv, QueuedOnce
<1>6. QueuedIssued'
  <2>1. ASSUME NEW i \in 1 .. Len(queue'), queue'[i] # Close PROVE Issued(queue[i])'
    <3>1. CASE i = Len(queue) + 1
      BY <1>2, <2>1, <3>1
    <3>2. CASE i \in 1 .. Len(queue)
      <4>1. Issued(queue[i]) /\ queue[i] \in Ops /\ queue'[i] = queue[i]
        BY <1>1, <1>2, <2>1, <3>2 DEF ReplayInv, QueueInv, QueuedIssued
      <4> QED
        BY <4>1 DEF KeepsIssued
    <3> QED
      BY <1>3, <3>1, <3>2
  <2> QED
    BY <2>1 DEF QueuedIssued
<1>7. ASSUME NEW o \in Ops, Untouched(o)' PROVE Untouched(o)
  <2>1. CASE ~Issued(o)
    BY <2>1 DEF Untouched
  <2>2. CASE Issued(o)
    <3>1. PICK i \in 1 .. Len(queue') : queue'[i] = o /\ (i # 1 \/ Unsent')
      BY <1>7, <2>2 DEF Untouched, KeepsIssued
    <3>2. i \in 1 .. Len(queue)
      BY <1>2, <1>3, <2>2, <3>1, SupervisorAssumption DEF SupervisorAssumption
    <3> QED
      BY <1>2, <3>1, <3>2 DEF Untouched, Unsent
  <2> QED
    BY <2>1, <2>2
<1>8. \A o \in Ops : Carriers(o)' = Carriers(o)
  BY DEF Carriers
<1> QED
  BY <1>5, <1>6, <1>7, <1>8, EffectInvKept DEF ReplayInv, QueueInv

\* The worker that carries an operation out is the only one told of it, and it has
\* not done so before.
LEMMA HandleKeeps ==
    ASSUME TypeOK, ReplayInv, NEW w \in Workers, NEW v, Handle(w, v)
    PROVE  ReplayInv'
<1>1. PICK o \in Ops : o = work[w].op /\ work[w] # None
  BY DEF Handle, TypeOK, WorkerTypeOK, Requests
<1>2. /\ UNCHANGED <<phase, queue, run>>
      /\ work' = [work EXCEPT ![w] = None]
  BY DEF Handle, registryVars, taskVars
<1>3. NoNewWork
  BY <1>2 DEF NoNewWork, TypeOK, WorkerTypeOK
<1>4. KeepsIssued /\ \A p \in Ops : Untouched(p)' = Untouched(p)
  BY <1>2 DEF KeepsIssued, Issued, Untouched, Unsent
<1>5. \A p \in Ops : Carriers(p)' \subseteq Carriers(p)
  BY <1>3, NoNewCarrier
<1>6. CASE UNCHANGED effects
  BY <1>2, <1>4, <1>5, <1>6, EffectInvKept, QueueInvKept DEF ReplayInv
<1>7. CASE Carries(work[w]) /\ effects' = [effects EXCEPT ![o] = @ + 1]
  <2>1. w \in Carriers(o)
    BY <1>1, <1>7 DEF Carriers
  <2>2. effects[o] = 0 /\ ~Untouched(o)
    BY <1>1, <2>1
       DEF ReplayInv, EffectInv, SpentHasNoCarrier, UntouchedHasNoEffect
  <2>3. Carriers(o)' = {}
    <3>1. \A u \in Carriers(o) : u = w
      BY <1>1, <2>1 DEF ReplayInv, EffectInv, OneCarrier
    <3>2. w \notin Carriers(o)'
      BY <1>2 DEF Carriers, TypeOK, WorkerTypeOK
    <3> QED
      BY <1>1, <1>5, <3>1, <3>2
  <2>4. effects'[o] = 1 /\ \A p \in Ops \ {o} : effects'[p] = effects[p]
    BY <1>1, <1>7, <2>2 DEF TypeOK, WorkerTypeOK
  <2>5. UntouchedHasNoEffect'
    BY <1>4, <1>5, <2>2, <2>4 DEF ReplayInv, EffectInv, UntouchedHasNoEffect
  <2>6. OneCarrier'
    BY <1>5 DEF ReplayInv, EffectInv, OneCarrier
  <2>7. SpentHasNoCarrier'
    BY <1>5, <2>3, <2>4 DEF ReplayInv, EffectInv, SpentHasNoCarrier
  <2>8. QueueInv'
    BY <1>2, <1>4, QueueInvKept DEF ReplayInv
  <2> QED
    BY <2>5, <2>6, <2>7, <2>8 DEF ReplayInv, EffectInv
<1> QED
  BY <1>1, <1>6, <1>7 DEF Handle, CarryOut

\* Deadlines, answers, signals and exits only take work away.
LEMMA OthersKeepReplayInv ==
    ASSUME TypeOK, ReplayInv,
           \/ KillAfterGrace
           \/ \E r \in pending : Timeout(r)
           \/ \E w \in Workers : Deliver(w) \/ ExternalTerm(w) \/ Detach(w)
                                 \/ Exit(w) \/ Crash(w)
           \/ UNCHANGED vars
    PROVE  ReplayInv'
<1>1. UNCHANGED <<registryVars, taskVars>>
  BY DEF KillAfterGrace, Gone, Timeout, Deliver, ExternalTerm, Detach, Exit, Crash, vars
<1>2. NoNewWork /\ UNCHANGED effects
  <2>1. WorkerTypeOK
    BY DEF TypeOK
  <2>2. CASE KillAfterGrace
    <3>1. run.target \in Workers
      BY <2>2 DEF KillAfterGrace, Exited, TypeOK, TaskTypeOK, Routines
    <3> QED
      BY <2>1, <2>2, <3>1, GoneWork DEF KillAfterGrace
  <2>3. CASE \E w \in Workers : Exit(w) \/ Crash(w)
    BY <2>1, <2>3, GoneWork DEF Exit, Crash
  <2>4. CASE \E w \in Workers : ExternalTerm(w)
    BY <2>1, <2>4 DEF ExternalTerm, Signal, Interrupt, NoNewWork, WorkerTypeOK
  <2>5. CASE UNCHANGED <<work, effects>>
    BY <2>5 DEF NoNewWork
  <2> QED
    BY <2>2, <2>3, <2>4, <2>5 DEF Timeout, Deliver, Detach, vars, workerVars
<1>3. Harmless
  BY <1>1, <1>2
     DEF Harmless, KeepsIssued, Issued, Advances, Unsent, registryVars, taskVars
<1> QED
  BY <1>1, <1>3, HarmlessKeeps DEF taskVars

\* The calls of the host change no operation that was issued.
LEMMA CallsKeepReplayInv ==
    ASSUME TypeOK, ReplayInv, Calls
    PROVE  ReplayInv'
<1>1. ASSUME NEW o \in Ops, NEW c \in Commands, Reserve(o, c) PROVE ReplayInv'
  <2>1. KeepsIssued
    BY <1>1 DEF Reserve, AddRecord, KeepsIssued, Issued, TypeOK, RegistryTypeOK
  <2> QED
    BY <1>1, <2>1, HarmlessKeeps
       DEF Reserve, Harmless, Advances, NoNewWork, Unsent, taskVars, workerVars
<1>2. ASSUME NEW o \in Ops, BeginReserved(o) \/ \E c \in Commands : BeginNew(o, c)
      PROVE  ReplayInv'
  <2>1. KeepsIssued /\ ~Issued(o) /\ Issued(o)'
    BY <1>2 DEF BeginReserved, BeginNew, AddRecord, KeepsIssued, Issued, TypeOK, RegistryTypeOK
  <2> QED
    BY <1>2, <2>1, EnqueueKeeps DEF BeginReserved, BeginNew, workerVars
<1>3. ASSUME NEW o \in Ops, ResponseCreated(o) PROVE ReplayInv'
  <2>1. KeepsIssued
    BY <1>3, EnterShape DEF ResponseCreated, Phases
  <2> QED
    BY <1>3, <2>1, HarmlessKeeps
       DEF ResponseCreated, Harmless, Advances, NoNewWork, Unsent, taskVars, workerVars
<1>4. CASE Query
  BY <1>4, HarmlessKeeps
     DEF Query, Harmless, KeepsIssued, Issued, Advances, NoNewWork, Unsent, taskVars, workerVars
<1>5. CASE RequestClose
  BY <1>5, EnqueueKeeps
     DEF RequestClose, KeepsIssued, Issued, registryVars, workerVars
<1> QED
  BY <1>1, <1>2, <1>3, <1>4, <1>5 DEF Calls

\* close() sends nothing.
LEMMA CloseKeepsReplayInv ==
    ASSUME TypeOK, ReplayInv, StartClose \/ CloseDone
    PROVE  ReplayInv'
<1>1. KeepsIssued /\ queue # <<>>
  BY DEF StartClose, CloseDone, CloseRuns, KeepsIssued, Issued, registryVars
<1>2. CASE StartClose
  <2>1. NoNewWork /\ UNCHANGED effects /\ ~Unsent'
    BY <1>2, ReplaceShape DEF StartClose
  <2> QED
    BY <1>1, <1>2, <2>1, HarmlessKeeps DEF StartClose, Harmless, Advances
<1>3. CASE CloseDone
  BY <1>1, <1>3, HarmlessKeeps DEF CloseDone, Harmless, Advances, NoNewWork, workerVars
<1> QED
  BY <1>2, <1>3

\* So every step keeps the invariant.
LEMMA NextKeepsReplayInv ==
    ASSUME TypeOK, ReplayInv, [Next]_vars
    PROVE  ReplayInv'
<1>1. CASE Calls
  BY <1>1, CallsKeepReplayInv
<1>2. CASE QueueStep
  <2>1. ASSUME NEW o \in Ops, OperationStep(o) PROVE ReplayInv'
    <3>1. queue # <<>>
      BY <2>1, RoutineShape DEF Running
    <3> QED
      BY <2>1, <3>1, RoutineShape, HarmlessKeeps, SendKeeps
  <2> QED
    BY <1>2, <2>1, CloseKeepsReplayInv DEF QueueStep
<1>3. CASE \E w \in Workers : WorkerStep(w)
  BY <1>3, HandleKeeps, OthersKeepReplayInv DEF WorkerStep
<1> QED
  BY <1>1, <1>2, <1>3, OthersKeepReplayInv DEF Next

\* The supervisor "does not replay the timed-out action": whatever times out, is
\* lost or recovered, no operation is carried out twice.
THEOREM OperationsAreNotReplayed == Spec => []NoReplay
<1>1. Init => ReplayInv
  BY DEF Init, ReplayInv, QueueInv, QueuedOnce, QueuedIssued, EffectInv,
         UntouchedHasNoEffect, OneCarrier, SpentHasNoCarrier, Carriers
<1>2. TypeOK /\ ReplayInv /\ [Next]_vars => ReplayInv'
  BY NextKeepsReplayInv
<1>3. ReplayInv => NoReplay
  BY DEF ReplayInv, EffectInv, SpentHasNoCarrier, NoReplay
<1> QED
  BY <1>1, <1>2, <1>3, TypeCorrect, PTL DEF Spec

-----------------------------------------------------------------------------
(* Outcomes and the contract.  Why: the operation at the head of the queue *)
(* is the only one that gets an outcome, and does when its routine comes   *)
(* to write the journal; a routine waits for the answer to its own         *)
(* request; and a worker answers "ok" to a request that carries an         *)
(* operation out only after it has.                                        *)

InLine(o) == \E i \in 1 .. Len(queue) : queue[i] = o

OutcomeOfIssued == \A o \in Ops : outcome[o] # None => Issued(o)

\* A queued operation that has its outcome is the head, which is being journalled.
OutcomeOfHead ==
    \A i \in 1 .. Len(queue) :
        queue[i] # Close => (outcome[queue[i]] # None <=> i = 1 /\ run.step = "persist")

ReturnedWhenGone ==
    \A o \in Ops :
        /\ returned[o] # None <=> Issued(o) /\ ~InLine(o)
        /\ returned[o] \in Outcomes => outcome[o] = returned[o]
        /\ returned[o] = "rejected" => outcome[o] = None

JournalTells ==
    \A o \in Ops : journal[o] # None =>
        /\ outcome[o] # None
        /\ command[o] # "recover" => journal[o] = outcome[o]

OutcomeInv == OutcomeOfIssued /\ OutcomeOfHead /\ ReturnedWhenGone /\ JournalTells

\* The routine awaits the answer to the request that carries its operation out.
CarrierCalled == run.step = "call" /\ run.goal \in {"dispatch", "recover"}

PendingOfHead ==
    \A r \in pending : r.op = Head(queue) /\ (CarrierCalled => Carries(r))

OkOfHead ==
    \A o \in Ops : Running(o) /\ CarrierCalled /\ reply = "ok" => effects[o] # 0

OkAfterEffect ==
    \A v \in Workers : \A i \in 1 .. Len(channel[v]) :
        LET m == channel[v][i] IN
        m.value = "ok" /\ Carries(m.req) => effects[m.req.op] # 0

AnswerInv == PendingOfHead /\ OkOfHead /\ OkAfterEffect

\* The lease is read when the reload is decided on, and nobody is at work since.
ReloadDecided == run.step = "reload" => ~handoff

(***************************************************************************)
(* What a step of the routine means for its operation: it goes on, gets an *)
(* outcome, is dropped or is journalled.                                   *)
(***************************************************************************)

GoesOn(o) ==
    /\ UNCHANGED <<memory, command, outcome, journal, queue, returned>>
    /\ UNCHANGED phase \/ \E p \in Phases \ {"unborn", "reserved"} : EnterPhase(o, p)
    /\ run'.step # "persist"

Fails(o) == \E r \in {"failed", "timed_out"} : Terminal(o, r)

Succeeds(o) == Terminal(o, "succeeded") /\ CarrierCalled /\ reply = "ok"

\* Every step of a routine is one of these.
LEMMA OperationOutcome ==
    ASSUME TypeOK, NEW o \in Ops, OperationStep(o)
    PROVE  \/ Persist(o)
           \/ /\ run.step # "persist"
              /\ GoesOn(o) \/ Rejected(o) \/ Fails(o) \/ Succeeds(o)
<1> DEFINE Ends == GoesOn(o) \/ Rejected(o) \/ Fails(o) \/ Succeeds(o)
<1>0. run \in Routines
  BY DEF TypeOK, TaskTypeOK
<1>1. ASSUME NEW code, Fail(o, code) PROVE Ends
  BY <1>1 DEF Fail, Fails
<1>2. ASSUME NEW code, Catch(o, code) PROVE Ends
  <2>1. CASE \E goal :
               /\ Replace(goal, code, child)
               /\ UNCHANGED phase \/ EnterPhase(o, "worker_result_received")
               /\ UNCHANGED <<memory, command, outcome, journal, queue, returned>>
    BY <2>1 DEF Replace, GoesOn, Phases
  <2> QED
    BY <1>1, <1>2, <2>1 DEF Catch
<1>3. ASSUME NEW code, EnsureFails(o, code) PROVE Ends
  BY <1>1, <1>2, <1>3 DEF EnsureFails
<1>4. ASSUME Internal, run'.step # "persist" PROVE Ends
  BY <1>4 DEF Internal, GoesOn, registryVars
<1>5. ASSUME NEW p \in Phases \ {"unborn", "reserved"}, EnterPhase(o, p), run'.step # "persist",
             UNCHANGED <<memory, command, outcome, journal, queue, returned>>
      PROVE  Ends
  BY <1>5 DEF GoesOn
<1> HIDE DEF Ends
<1>6. CASE EnsureClosing(o) \/ InitializeGivenUp(o) \/ CallFails(o)
  BY <1>2, <1>3, <1>6 DEF EnsureClosing, InitializeGivenUp, CallFails, At, Ends
<1>7. CASE EnsureReuse(o) \/ InitializeOk(o) \/ InitializeFails(o) \/ \E w \in Workers : EnsureFork(o, w)
  <2>1. run.step # "persist" /\ run'.step # "persist" /\ Internal
    BY <1>0, <1>7 DEF EnsureReuse, InitializeOk, InitializeFails, EnsureFork, At, GoTo, Routines
  <2> QED
    BY <1>4, <2>1 DEF Ends
<1>8. CASE Reload(o) \/ Reloaded(o) \/ ReloadStarted(o) \/ RecoveredWorker(o) \/ Reopened(o)
  <2>1. CASE Reload(o)
    BY <1>4, <2>1 DEF Reload, Replace, At, Ends
  <2>2. CASE Reloaded(o) \/ ReloadStarted(o) \/ RecoveredWorker(o) \/ Reopened(o)
    <3>1. run.step # "persist" /\ run'.step # "persist" /\ Internal
      BY <1>0, <2>2 DEF Reloaded, ReloadStarted, RecoveredWorker, Reopened, At, GoTo, Routines
    <3> QED
      BY <1>4, <3>1 DEF Ends
  <2> QED
    BY <1>8, <2>1, <2>2
<1>9. CASE ReplacedWorkerExited(o)
  <2>1. Fail(o, run.code) \/ (Internal /\ run' = [run EXCEPT !.step = "ensure", !.target = None])
    BY <1>9 DEF ReplacedWorkerExited
  <2>2. run.step # "persist"
    BY <1>9 DEF ReplacedWorkerExited, At
  <2> QED
    BY <1>0, <1>1, <1>4, <2>1, <2>2 DEF Ends, Routines
<1>10. CASE Recovered(o)
  BY <1>1, <1>10 DEF Recovered, At, Ends
<1>11. CASE StartExecute(o) \/ StartRecover(o)
  <2>1. \/ /\ EnterPhase(o, "worker_preflight") /\ GoTo("preflight")
           /\ UNCHANGED <<memory, command, outcome, journal, queue, returned>>
        \/ Terminal(o, "failed") \/ Rejected(o)
    BY <1>11 DEF StartExecute, StartRecover
  <2>2. run.step # "persist" /\ (GoTo("preflight") => run'.step # "persist")
    BY <1>0, <1>11 DEF StartExecute, StartRecover, At, GoTo, Routines
  <2> QED
    BY <1>5, <2>1, <2>2 DEF Ends, Fails, Phases
<1>12. CASE Preflight(o)
  <2>1. run.step # "persist" /\ \A s \in {"ensure", "reload"} : GoTo(s) => run'.step # "persist"
    BY <1>0, <1>12 DEF Preflight, At, GoTo, Routines
  <2> QED
    BY <1>2, <1>4, <1>12, <2>1 DEF Preflight, Ends
<1>13. CASE Dispatch(o)
  <2>1. run.step # "persist" /\ (GoTo("call") => run'.step # "persist")
    BY <1>0, <1>13 DEF Dispatch, At, GoTo, Routines
  <2> QED
    BY <1>5, <1>13, <2>1 DEF Dispatch, Ends, Phases
<1>14. CASE Succeed(o)
  BY <1>14 DEF Succeed, At, Succeeds, CarrierCalled
<1>15. CASE StopForRecover(o)
  <2>1. run.step # "persist" /\ \A w : Replace("recover", None, w) => run'.step # "persist"
    BY <1>15 DEF StopForRecover, At, Replace
  <2> QED
    BY <1>2, <1>5, <1>15, <2>1 DEF StopForRecover, Ends, Phases
<1>16. CASE RecoverSucceeds(o)
  BY <1>2, <1>16 DEF RecoverSucceeds, At, Succeeds, CarrierCalled, Ends
<1> QED
  BY <1>6, <1>7, <1>8, <1>9, <1>10, <1>11, <1>12, <1>13, <1>14, <1>15, <1>16
     DEF OperationStep, Ends

(***************************************************************************)
(* The queue.                                                              *)
(***************************************************************************)

\* The head leaves, the others stay in line.
LEMMA TailLine ==
    ASSUME TypeOK, QueuedOnce, NEW t \in Ops \cup {Close},
           queue # <<>>, Head(queue) = t, queue' = Tail(queue)
    PROVE  /\ t \in Ops => ~InLine(t)'
           /\ \A p \in Ops \ {t} : InLine(p)' <=> InLine(p)
           /\ \A i \in 1 .. Len(queue') :
                 i + 1 \in 1 .. Len(queue) /\ i + 1 # 1 /\ queue'[i] = queue[i + 1]
<1>1. queue \in Seq(Ops \cup {Close}) /\ queue[1] = t /\ 1 \in 1 .. Len(queue)
  BY DEF TypeOK, TaskTypeOK
<1>2. /\ Len(queue') + 1 = Len(queue) /\ Len(queue') \in Nat
      /\ \A i \in 1 .. Len(queue') :
            i + 1 \in 1 .. Len(queue) /\ i + 1 # 1 /\ queue'[i] = queue[i + 1]
  BY <1>1
<1>3. t \in Ops => \A i \in 1 .. Len(queue) : queue[i] = t => i = 1
  BY <1>1, SupervisorAssumption DEF QueuedOnce, SupervisorAssumption
<1>4. t \in Ops => ~InLine(t)'
  BY <1>2, <1>3 DEF InLine
<1>5. ASSUME NEW p \in Ops \ {t} PROVE InLine(p)' <=> InLine(p)
  <2>1. ASSUME NEW i \in 1 .. Len(queue), queue[i] = p PROVE InLine(p)'
    <3>1. i # 1
      BY <1>1, <2>1
    <3>2. i - 1 \in 1 .. Len(queue') /\ queue'[i - 1] = queue[(i - 1) + 1] /\ (i - 1) + 1 = i
      BY <1>2, <3>1
    <3> QED
      BY <2>1, <3>2 DEF InLine
  <2> QED
    BY <1>2, <2>1 DEF InLine
<1> QED
  BY <1>2, <1>4, <1>5

\* What is enqueued is in line, behind all the others.
LEMMA EnqueueLine ==
    ASSUME TypeOK, NEW t \in Ops \cup {Close}, Enqueue(t)
    PROVE  /\ \A p : InLine(p)' <=> InLine(p) \/ p = t
           /\ Len(queue) \in Nat /\ Len(queue') = Len(queue) + 1 /\ queue'[Len(queue) + 1] = t
           /\ \A i \in 1 .. Len(queue) : queue'[i] = queue[i]
           /\ \A i \in 1 .. Len(queue') : i \in 1 .. Len(queue) \/ i = Len(queue) + 1
<1>1. queue \in Seq(Ops \cup {Close})
  BY DEF TypeOK, TaskTypeOK
<1>2. /\ Len(queue) \in Nat /\ Len(queue') = Len(queue) + 1 /\ queue'[Len(queue) + 1] = t
      /\ \A i \in 1 .. Len(queue) : queue'[i] = queue[i]
  BY <1>1 DEF Enqueue
<1>3. /\ \A i \in 1 .. Len(queue') : i \in 1 .. Len(queue) \/ i = Len(queue) + 1
      /\ \A i \in 1 .. Len(queue) : i \in 1 .. Len(queue')
      /\ Len(queue) + 1 \in 1 .. Len(queue')
  BY <1>2
<1> QED
  BY <1>2, <1>3 DEF InLine

(***************************************************************************)
(* Outcomes, what callers got and the journal agree.                       *)
(***************************************************************************)

\* append() writes the outcome of its operation or forgets lines.
LEMMA AppendJournalTells ==
    ASSUME NEW o \in Ops, NEW written \in BOOLEAN, AppendJournal(o, written),
           JournalTells, outcome[o] # None, UNCHANGED <<outcome, command>>
    PROVE  JournalTells'
<1>1. \A p \in Ops : journal'[p] \in {journal[p], None} \/ (p = o /\ journal'[p] = JournalOutcome(o))
  BY DEF AppendJournal
<1>2. command[o] # "recover" => JournalOutcome(o) = outcome[o]
  BY DEF JournalOutcome
<1> QED
  BY <1>1, <1>2 DEF JournalTells

\* The operation at work is issued and nobody got its result yet.
LEMMA HeadIsIssued ==
    ASSUME TypeOK, ReplayInv, OutcomeInv, NEW o \in Ops, Running(o)
    PROVE  /\ Issued(o) /\ InLine(o) /\ returned[o] = None
           /\ 1 \in 1 .. Len(queue) /\ queue[1] = o /\ o # Close
           /\ \A i \in 1 .. Len(queue) : queue[i] = o => i = 1
           /\ outcome[o] # None <=> run.step = "persist"
<1>1. 1 \in 1 .. Len(queue) /\ queue[1] = o /\ o # Close
  BY SupervisorAssumption DEF TypeOK, TaskTypeOK, Running, SupervisorAssumption
<1>2. InLine(o) /\ Issued(o)
  BY <1>1 DEF InLine, ReplayInv, QueueInv, QueuedIssued
<1>3. outcome[o] # None <=> run.step = "persist"
  BY <1>1 DEF OutcomeInv, OutcomeOfHead
<1>4. \A i \in 1 .. Len(queue) : queue[i] = o => i = 1
  BY <1>1 DEF ReplayInv, QueueInv, QueuedOnce
<1> QED
  BY <1>1, <1>2, <1>3, <1>4 DEF OutcomeInv, ReturnedWhenGone

\* When the head leaves with its result, the next one has no outcome yet.
LEMMA LeaveKeepsOutcomeInv ==
    ASSUME TypeOK, ReplayInv, OutcomeInv, NEW o \in Ops, Running(o),
           NEW result, Leave(o, result), UNCHANGED <<outcome, command>>, JournalTells',
           \A p \in Ops : Issued(p)' <=> Issued(p),
           \/ result \in Outcomes /\ outcome[o] = result
           \/ result = "rejected" /\ outcome[o] = None
    PROVE  OutcomeInv'
<1>0. /\ Issued(o) /\ returned \in [Ops -> Outcomes \cup {None, "rejected"}]
      /\ None \notin Outcomes /\ None # "rejected" /\ "rejected" \notin Outcomes
      /\ queue \in Seq(Ops \cup {Close})
  BY HeadIsIssued, SupervisorAssumption
     DEF TypeOK, TaskTypeOK, SupervisorAssumption, Outcomes
<1>1. /\ returned' = [returned EXCEPT ![o] = result]
      /\ queue' = Tail(queue) /\ run'.step = "wait"
  BY DEF Leave, Idle
<1>2. /\ ~InLine(o)'
      /\ \A p \in Ops \ {o} : InLine(p)' <=> InLine(p)
      /\ \A i \in 1 .. Len(queue') :
            i + 1 \in 1 .. Len(queue) /\ i + 1 # 1 /\ queue'[i] = queue[i + 1]
  BY <1>1, TailLine DEF Running, ReplayInv, QueueInv
<1>3. OutcomeOfIssued'
  BY DEF OutcomeInv, OutcomeOfIssued
<1>4. OutcomeOfHead'
  BY <1>1, <1>2 DEF OutcomeInv, OutcomeOfHead
<1>5. ReturnedWhenGone'
  <2>1. ASSUME NEW p \in Ops
        PROVE  /\ returned'[p] # None <=> Issued(p)' /\ ~InLine(p)'
               /\ returned'[p] \in Outcomes => outcome'[p] = returned'[p]
               /\ returned'[p] = "rejected" => outcome'[p] = None
    <3>1. CASE p = o
      BY <1>0, <1>1, <1>2, <3>1
    <3>2. CASE p # o
      BY <1>0, <1>1, <1>2, <3>2 DEF OutcomeInv, ReturnedWhenGone
    <3> QED
      BY <3>1, <3>2
  <2> QED
    BY <2>1 DEF ReturnedWhenGone
<1> QED
  BY <1>3, <1>4, <1>5 DEF OutcomeInv

LEMMA OperationKeepsOutcomeInv ==
    ASSUME TypeOK, ReplayInv, OutcomeInv, NEW o \in Ops, OperationStep(o)
    PROVE  OutcomeInv'
<1>0. /\ Running(o) /\ Issued(o) /\ InLine(o) /\ returned[o] = None
      /\ \A i \in 1 .. Len(queue) : queue[i] = o => i = 1
      /\ outcome[o] # None <=> run.step = "persist"
      /\ 1 \in 1 .. Len(queue) /\ queue[1] = o
  BY HeadIsIssued, OperationShape
<1>1. ASSUME UNCHANGED phase \/ \E p \in Phases \ {"unborn", "reserved"} : EnterPhase(o, p)
      PROVE  \A p \in Ops : Issued(p)' <=> Issued(p)
  BY <1>0, <1>1 DEF EnterPhase, Issued, TypeOK, RegistryTypeOK
<1>2. CASE run.step # "persist" /\ GoesOn(o)
  BY <1>1, <1>2
     DEF GoesOn, OutcomeInv, OutcomeOfIssued, OutcomeOfHead, ReturnedWhenGone, JournalTells, InLine
<1>3. CASE run.step # "persist" /\ Rejected(o)
  <2>1. Leave(o, "rejected") /\ UNCHANGED <<outcome, command, journal, phase>>
    BY <1>3 DEF Rejected, registryVars
  <2>2. JournalTells'
    BY <2>1 DEF OutcomeInv, JournalTells
  <2> QED
    BY <1>0, <1>1, <1>3, <2>1, <2>2, LeaveKeepsOutcomeInv
<1>4. ASSUME NEW r \in Outcomes, run.step # "persist", Terminal(o, r) PROVE OutcomeInv'
  <2>1. /\ outcome' = [outcome EXCEPT ![o] = r] /\ EnterPhase(o, "terminal_result_created")
        /\ run'.step = "persist" /\ UNCHANGED <<command, journal, queue, returned>>
    BY <1>4 DEF Terminal, EnterPhase, Idle
  <2>2. outcome'[o] = r /\ r # None /\ \A p \in Ops \ {o} : outcome'[p] = outcome[p]
    BY <2>1, SupervisorAssumption DEF SupervisorAssumption, TypeOK, RegistryTypeOK
  <2>3. \A p \in Ops : Issued(p)' <=> Issued(p)
    BY <1>1, <2>1 DEF Phases
  <2>4. OutcomeOfIssued'
    BY <1>0, <2>2, <2>3 DEF OutcomeInv, OutcomeOfIssued
  <2>5. OutcomeOfHead'
    <3>1. \A i \in 1 .. Len(queue) : queue[i] \in Ops \cup {Close}
      BY DEF TypeOK, TaskTypeOK
    <3> QED
      BY <1>0, <1>4, <2>1, <2>2, <3>1 DEF OutcomeInv, OutcomeOfHead
  <2>6. ReturnedWhenGone'
    <3>1. None \notin Outcomes /\ None # "rejected"
      BY SupervisorAssumption DEF SupervisorAssumption
    <3> QED
      BY <1>0, <2>1, <2>2, <2>3, <3>1 DEF OutcomeInv, ReturnedWhenGone, InLine
  <2>7. JournalTells'
    BY <1>0, <1>4, <2>1, <2>2 DEF OutcomeInv, JournalTells
  <2> QED
    BY <2>4, <2>5, <2>6, <2>7 DEF OutcomeInv
<1>5. CASE Persist(o)
  <2>1. /\ run.step = "persist" /\ Leave(o, outcome[o]) /\ UNCHANGED <<outcome, command>>
        /\ UNCHANGED phase \/ EnterPhase(o, "persistence_complete")
    BY <1>5 DEF Persist, At
  <2>2. outcome[o] \in Outcomes
    BY <1>0, <2>1 DEF TypeOK, RegistryTypeOK
  <2>3. JournalTells'
    BY <1>0, <1>5, <2>1, AppendJournalTells DEF Persist, OutcomeInv
  <2> QED
    BY <1>0, <1>1, <2>1, <2>2, <2>3, LeaveKeepsOutcomeInv DEF Phases
<1> QED
  BY <1>2, <1>3, <1>4, <1>5, OperationOutcome DEF Fails, Succeeds, Outcomes

\* An operation that begins waits in line, without an outcome.
LEMMA BeginKeepsOutcomeInv ==
    ASSUME TypeOK, OutcomeInv, IdleWhenEmpty, NEW o \in Ops, Enqueue(o),
           ~Issued(o), Issued(o)', \A p \in Ops \ {o} : Issued(p)' <=> Issued(p),
           \A p \in Ops \ {o} : command'[p] = command[p],
           UNCHANGED <<outcome, journal, returned, run>>
    PROVE  OutcomeInv'
<1>0. o # Close /\ outcome[o] = None /\ returned[o] = None
  BY SupervisorAssumption
     DEF SupervisorAssumption, OutcomeInv, OutcomeOfIssued, ReturnedWhenGone
<1>1. /\ \A p : InLine(p)' <=> InLine(p) \/ p = o
      /\ Len(queue) \in Nat /\ Len(queue') = Len(queue) + 1 /\ queue'[Len(queue) + 1] = o
      /\ \A i \in 1 .. Len(queue) : queue'[i] = queue[i]
      /\ \A i \in 1 .. Len(queue') : i \in 1 .. Len(queue) \/ i = Len(queue) + 1
  BY EnqueueLine
<1>2. OutcomeOfHead'
  <2>1. Len(queue) + 1 = 1 => run.step # "persist"
    <3>1. Len(queue) = 0 => queue = <<>>
      BY DEF TypeOK, TaskTypeOK
    <3> QED
      BY <1>1, <3>1 DEF IdleWhenEmpty
  <2> QED
    BY <1>0, <1>1, <2>1 DEF OutcomeInv, OutcomeOfHead
<1>3. ReturnedWhenGone'
  BY <1>0, <1>1 DEF OutcomeInv, ReturnedWhenGone
<1>4. OutcomeOfIssued' /\ JournalTells'
  BY <1>0 DEF OutcomeInv, OutcomeOfIssued, JournalTells
<1> QED
  BY <1>2, <1>3, <1>4 DEF OutcomeInv

\* Steps that leave all of it alone.
LEMMA SameOutcomes ==
    ASSUME OutcomeInv, UNCHANGED <<outcome, command, journal, returned, queue, run>>,
           \A p \in Ops : Issued(p)' <=> Issued(p)
    PROVE  OutcomeInv'
BY DEF OutcomeInv, OutcomeOfIssued, OutcomeOfHead, ReturnedWhenGone, JournalTells, InLine

LEMMA CallsKeepOutcomeInv ==
    ASSUME TypeOK, OutcomeInv, IdleWhenEmpty, Calls
    PROVE  OutcomeInv'
<1>1. ASSUME NEW o \in Ops, NEW c \in Commands, Reserve(o, c) PROVE OutcomeInv'
  <2>1. /\ UNCHANGED <<outcome, journal, returned, queue, run>>
        /\ \A p \in Ops \ {o} : command'[p] = command[p]
        /\ \A p \in Ops : Issued(p)' <=> Issued(p)
        /\ ~Issued(o)
    BY <1>1 DEF Reserve, AddRecord, taskVars, Issued, TypeOK, RegistryTypeOK
  <2>2. outcome[o] = None
    BY <2>1 DEF OutcomeInv, OutcomeOfIssued
  <2>3. JournalTells'
    BY <2>1, <2>2 DEF OutcomeInv, JournalTells
  <2> QED
    BY <2>1, <2>3 DEF OutcomeInv, OutcomeOfIssued, OutcomeOfHead, ReturnedWhenGone, InLine
<1>2. ASSUME NEW o \in Ops, BeginReserved(o) \/ \E c \in Commands : BeginNew(o, c)
      PROVE  OutcomeInv'
  <2>1. /\ Enqueue(o) /\ UNCHANGED <<outcome, journal, returned, run>>
        /\ \A p \in Ops \ {o} : command'[p] = command[p]
        /\ ~Issued(o) /\ Issued(o)' /\ \A p \in Ops \ {o} : Issued(p)' <=> Issued(p)
    BY <1>2 DEF BeginReserved, BeginNew, AddRecord, Issued, TypeOK, RegistryTypeOK
  <2> QED
    BY <2>1, BeginKeepsOutcomeInv
<1>3. ASSUME NEW o \in Ops, ResponseCreated(o) PROVE OutcomeInv'
  <2>1. /\ UNCHANGED <<outcome, command, returned, queue, run>>
        /\ outcome[o] # None /\ Issued(o) /\ EnterPhase(o, "response_created")
    BY <1>3, SupervisorAssumption
       DEF ResponseCreated, taskVars, OutcomeInv, ReturnedWhenGone, OutcomeOfIssued, SupervisorAssumption
  <2>2. \A p \in Ops : Issued(p)' <=> Issued(p)
    BY <2>1 DEF EnterPhase, Issued, TypeOK, RegistryTypeOK
  <2>3. JournalTells'
    <3>1. CASE UNCHANGED journal
      BY <2>1, <3>1 DEF OutcomeInv, JournalTells
    <3>2. CASE \E written \in BOOLEAN : AppendJournal(o, written)
      BY <2>1, <3>2, AppendJournalTells DEF OutcomeInv
    <3> QED
      BY <1>3, <3>1, <3>2 DEF ResponseCreated
  <2> QED
    BY <2>1, <2>2, <2>3 DEF OutcomeInv, OutcomeOfIssued, OutcomeOfHead, ReturnedWhenGone, InLine
<1>4. CASE Query
  BY <1>4, SameOutcomes DEF Query, taskVars, Issued
<1>5. CASE RequestClose
  <2>1. UNCHANGED <<outcome, command, phase, journal, returned, run>> /\ Enqueue(Close)
    BY <1>5 DEF RequestClose, registryVars
  <2>2. /\ \A p \in Ops : InLine(p)' <=> InLine(p)
        /\ queue'[Len(queue) + 1] = Close
        /\ \A i \in 1 .. Len(queue) : queue'[i] = queue[i]
        /\ \A i \in 1 .. Len(queue') : i \in 1 .. Len(queue) \/ i = Len(queue) + 1
    BY <2>1, EnqueueLine, SupervisorAssumption DEF SupervisorAssumption
  <2> QED
    BY <2>1, <2>2
       DEF OutcomeInv, OutcomeOfIssued, OutcomeOfHead, ReturnedWhenGone, JournalTells, Issued
<1> QED
  BY <1>1, <1>2, <1>3, <1>4, <1>5 DEF Calls

LEMMA CloseKeepsOutcomeInv ==
    ASSUME TypeOK, ReplayInv, OutcomeInv, StartClose \/ CloseDone
    PROVE  OutcomeInv'
<1>1. UNCHANGED <<outcome, command, phase, journal, returned>> /\ queue # <<>> /\ Head(queue) = Close
  BY DEF StartClose, CloseDone, CloseRuns, registryVars
<1>2. OutcomeOfIssued' /\ JournalTells'
  BY <1>1 DEF OutcomeInv, OutcomeOfIssued, JournalTells, Issued
<1>3. CASE StartClose
  <2>1. run.step = "wait" /\ run'.step = "exit" /\ queue' = queue
    BY <1>3 DEF StartClose, Replace
  <2> QED
    BY <1>1, <1>2, <2>1 DEF OutcomeInv, OutcomeOfHead, ReturnedWhenGone, InLine, Issued
<1>4. CASE CloseDone
  <2>1. run.step = "exit" /\ run'.step = "wait" /\ queue' = Tail(queue)
    BY <1>4 DEF CloseDone, Idle
  <2>2. /\ \A p \in Ops : InLine(p)' <=> InLine(p)
        /\ \A i \in 1 .. Len(queue') : i + 1 \in 1 .. Len(queue) /\ queue'[i] = queue[i + 1]
    BY <1>1, <2>1, TailLine, SupervisorAssumption DEF ReplayInv, QueueInv, SupervisorAssumption
  <2> QED
    BY <1>1, <1>2, <2>1, <2>2 DEF OutcomeInv, OutcomeOfHead, ReturnedWhenGone, Issued
<1> QED
  BY <1>3, <1>4

LEMMA NextKeepsOutcomeInv ==
    ASSUME TypeOK, ReplayInv, OutcomeInv, IdleWhenEmpty, [Next]_vars
    PROVE  OutcomeInv'
<1>1. CASE QueueStep
  BY <1>1, OperationKeepsOutcomeInv, CloseKeepsOutcomeInv DEF QueueStep
<1>2. CASE UNCHANGED <<registryVars, taskVars>>
  BY <1>2, SameOutcomes DEF registryVars, taskVars, Issued
<1>3. CASE KillAfterGrace \/ (\E r \in pending : Timeout(r)) \/ (\E w \in Workers : WorkerStep(w)) \/ UNCHANGED vars
  BY <1>2, <1>3
     DEF KillAfterGrace, Timeout, WorkerStep, Handle, Deliver, ExternalTerm, Detach, Exit, Crash, Gone, vars
<1> QED
  BY <1>1, <1>3, CallsKeepOutcomeInv DEF Next

(***************************************************************************)
(* "ok" tells the truth.                                                   *)
(***************************************************************************)

\* What a step of the routine does at the channel: it sends nothing, sends one
\* request of its operation, tells a worker to stop or forks one.
LEMMA OperationTransport ==
    ASSUME TypeOK, NEW o \in Ops, OperationStep(o)
    PROVE  \/ (Consumed \/ UNCHANGED <<transportVars, workerVars>>) /\ ~Calling'
           \/ (\E w \in Workers \cup {None} : Terminate(w)) /\ ~Calling'
           \/ \E w \in Workers : EnsureFork(o, w)
           \/ \E k \in Kinds :
                 /\ Request(o, k) /\ queue' = queue
                 /\ CarrierCalled' => k \in {"command", "status"}
<1>0. run \in Routines /\ child \in Workers \cup {None} /\ run.target \in Workers \cup {None}
  BY DEF TypeOK, TaskTypeOK, WorkerTypeOK, Routines
<1> DEFINE Sent == \E k \in Kinds : /\ Request(o, k) /\ queue' = queue
                                    /\ CarrierCalled' => k \in {"command", "status"}
           Ended == \/ (Consumed \/ UNCHANGED <<transportVars, workerVars>>) /\ ~Calling'
                    \/ (\E w \in Workers \cup {None} : Terminate(w)) /\ ~Calling'
<1>1. ASSUME Consumed, run'.step \notin {"init", "call"} PROVE Ended
  BY <1>1 DEF Calling
<1>2. ASSUME NEW code, Fail(o, code), Consumed PROVE Ended
  BY <1>1, <1>2, FailEnds
<1>3. ASSUME NEW goal, NEW code, Replace(goal, code, child) PROVE Ended
  BY <1>0, <1>3 DEF Replace, Calling
<1>4. ASSUME NEW code, Catch(o, code) PROVE Ended
  BY <1>2, <1>3, <1>4 DEF Catch
<1>5. ASSUME NEW code, EnsureFails(o, code) PROVE Ended
  BY <1>2, <1>4, <1>5 DEF EnsureFails
<1>6. ASSUME NEW k \in Kinds, Request(o, k), queue' = queue, CarrierCalled' => k \in {"command", "status"}
      PROVE  Sent
  BY <1>6
<1> SUFFICES ASSUME ~\E w \in Workers : EnsureFork(o, w)
             PROVE  Sent \/ Ended
  OBVIOUS
<1> HIDE DEF Sent, Ended
<1>7. CASE EnsureClosing(o) \/ InitializeGivenUp(o) \/ CallFails(o)
  BY <1>4, <1>5, <1>7 DEF EnsureClosing, InitializeGivenUp, CallFails
<1>8. CASE EnsureReuse(o) \/ InitializeOk(o) \/ ReloadStarted(o)
  <2>1. Consumed /\ run'.step \in {"ready", "ensure"}
    BY <1>0, <1>8 DEF EnsureReuse, InitializeOk, ReloadStarted, GoTo, Routines
  <2> QED
    BY <1>1, <2>1
<1>9. CASE InitializeFails(o)
  <2>1. Terminate(run.target) /\ run'.step = "initExit"
    BY <1>0, <1>9 DEF InitializeFails, Routines
  <2> QED
    BY <1>0, <2>1 DEF Ended, Calling
<1>10. CASE ReplacedWorkerExited(o)
  <2>1. Consumed /\ (Fail(o, run.code) \/ run' = [run EXCEPT !.step = "ensure", !.target = None])
    BY <1>10 DEF ReplacedWorkerExited
  <2> QED
    BY <1>0, <1>1, <1>2, <2>1 DEF Routines
<1>11. CASE StartExecute(o) \/ StartRecover(o)
  <2>1. Consumed /\ run'.step \in {"preflight", "persist", "wait"}
    BY <1>0, <1>11 DEF StartExecute, StartRecover, GoTo, Terminal, Rejected, Leave, Idle, Routines
  <2> QED
    BY <1>1, <2>1
<1>12. CASE Preflight(o)
  <2>1. \A s \in {"ensure", "reload"} : GoTo(s) => run'.step = s
    BY <1>0 DEF GoTo, Routines
  <2> QED
    BY <1>1, <1>4, <1>12, <2>1 DEF Preflight
<1>13. CASE Reload(o) \/ StopForRecover(o)
  BY <1>3, <1>4, <1>13 DEF Reload, StopForRecover
<1>14. CASE Reloaded(o)
  <2>1. CASE Request(o, "start") /\ GoTo("call")
    <3>1. ~CarrierCalled' /\ queue' = queue
      BY <1>0, <1>14, <2>1 DEF Reloaded, GoTo, Routines, CarrierCalled, Internal
    <3> QED
      BY <1>6, <2>1, <3>1 DEF Kinds
  <2>2. CASE Consumed /\ run' = [run EXCEPT !.step = "ensure", !.goal = "dispatch"]
    BY <1>0, <1>1, <2>2 DEF Routines
  <2> QED
    BY <1>14, <2>1, <2>2 DEF Reloaded
<1>15. CASE RecoveredWorker(o)
  <2>1. CASE Request(o, "open") /\ run' = [run EXCEPT !.step = "call", !.goal = "reopen"]
    <3>1. ~CarrierCalled' /\ queue' = queue
      BY <1>0, <1>15, <2>1 DEF RecoveredWorker, Routines, CarrierCalled, Internal
    <3> QED
      BY <1>6, <2>1, <3>1 DEF Kinds
  <2>2. CASE Request(o, "status")
    BY <1>6, <1>15, <2>2 DEF RecoveredWorker, Internal, Kinds
  <2> QED
    BY <1>15, <2>1, <2>2 DEF RecoveredWorker
<1>16. CASE Reopened(o)
  BY <1>6, <1>16 DEF Reopened, Internal, Kinds
<1>17. CASE Dispatch(o)
  <2>1. CASE Rejected(o) /\ Consumed
    BY <1>1, <2>1 DEF Rejected, Leave, Idle
  <2> QED
    BY <1>6, <1>17, <2>1 DEF Dispatch, Kinds
<1>18. CASE Succeed(o)
  <2>1. Consumed /\ run'.step \in {"persist", "wait"}
    BY <1>18 DEF Succeed, Terminal, Rejected, Leave, Idle
  <2> QED
    BY <1>1, <2>1
<1>19. CASE Recovered(o)
  BY <1>2, <1>19 DEF Recovered
<1>20. CASE Persist(o)
  BY <1>20 DEF Persist, Leave, Idle, Ended, Calling
<1>21. CASE RecoverSucceeds(o)
  <2>1. Terminal(o, "succeeded") => run'.step = "persist"
    BY DEF Terminal, Idle
  <2> QED
    BY <1>1, <1>4, <1>21, <2>1 DEF RecoverSucceeds
<1> QED
  BY <1>7, <1>8, <1>9, <1>10, <1>11, <1>12, <1>13, <1>14, <1>15, <1>16, <1>17, <1>18, <1>19, <1>20, <1>21
     DEF OperationStep

\* Nothing is sent but that a request will not be answered; unread answers may be lost.
NoOkSent ==
    \A v \in Workers :
        \/ channel'[v] \in {channel[v], <<>>}
        \/ \E m : m.value = "disconnected" /\ channel'[v] = Append(channel[v], m)

LEMMA NoNewOk ==
    ASSUME TypeOK, OkAfterEffect, UNCHANGED effects, NoOkSent
    PROVE  OkAfterEffect'
<1>1. ASSUME NEW v \in Workers, NEW i \in 1 .. Len(channel'[v]), channel'[v][i].value = "ok"
      PROVE  i \in 1 .. Len(channel[v]) /\ channel'[v][i] = channel[v][i]
  <2>1. CASE channel'[v] \in {channel[v], <<>>}
    BY <1>1, <2>1
  <2>2. ASSUME NEW m, m.value = "disconnected", channel'[v] = Append(channel[v], m)
        PROVE  i \in 1 .. Len(channel[v]) /\ channel'[v][i] = channel[v][i]
    <3>1. channel[v] \in Seq(Answers)
      BY DEF TypeOK, WorkerTypeOK
    <3>2. /\ Len(channel'[v]) = Len(channel[v]) + 1 /\ Len(channel[v]) \in Nat
          /\ channel'[v][Len(channel[v]) + 1] = m
          /\ \A k \in 1 .. Len(channel[v]) : channel'[v][k] = channel[v][k]
      BY <2>2, <3>1
    <3> QED
      BY <1>1, <2>2, <3>2
  <2> QED
    BY <2>1, <2>2 DEF NoOkSent
<1> QED
  BY <1>1 DEF OkAfterEffect, Carries

\* A worker that is told to stop does not say "ok".
LEMMA SignalSendsNoOk ==
    ASSUME TypeOK, NEW w \in Workers, Signal(w)
    PROVE  NoOkSent
<1> DEFINE m == [req |-> work[w], value |-> "disconnected"]
<1>1. channel' = channel \/ channel' = [channel EXCEPT ![w] = Append(@, m)]
  BY DEF Signal, Interrupt
<1>2. m.value = "disconnected"
  OBVIOUS
<1> HIDE DEF m
<1> QED
  BY <1>1, <1>2 DEF NoOkSent, TypeOK, WorkerTypeOK

LEMMA TerminateSendsNoOk ==
    ASSUME TypeOK, NEW w \in Workers \cup {None}, Terminate(w)
    PROVE  NoOkSent
BY SignalSendsNoOk DEF Terminate, workerVars, NoOkSent

\* An operation step neither takes an effect back nor sends an "ok".
LEMMA OperationKeepsAnswerInv ==
    ASSUME TypeOK, TypeOK', WorkInv, WorkInv', ReplayInv, AnswerInv, NEW o \in Ops, OperationStep(o)
    PROVE  AnswerInv'
<1>0. /\ UNCHANGED effects
      /\ Head(queue) = o
  BY RoutineShape, OperationShape DEF Harmless, SendsOnce, Running
<1>1. ASSUME ~Calling' PROVE PendingOfHead' /\ OkOfHead'
  BY <1>1 DEF WorkInv, ReplySettles, PendingOfHead, OkOfHead, CarrierCalled, Calling
<1>2. ASSUME NoOkSent PROVE OkAfterEffect'
  BY <1>0, <1>2, NoNewOk DEF AnswerInv
<1>3. CASE (Consumed \/ UNCHANGED <<transportVars, workerVars>>) /\ ~Calling'
  BY <1>1, <1>2, <1>3 DEF Consumed, workerVars, AnswerInv, NoOkSent
<1>4. ASSUME NEW w \in Workers \cup {None}, Terminate(w), ~Calling' PROVE AnswerInv'
  BY <1>1, <1>2, <1>4, TerminateSendsNoOk DEF AnswerInv
<1>5. ASSUME NEW w \in Workers, EnsureFork(o, w) PROVE AnswerInv'
  <2> DEFINE r == [op |-> o, kind |-> "initialize", worker |-> w]
  <2>1. /\ channel' = [channel EXCEPT ![w] = <<>>] /\ reply' = None /\ queue' = queue
        /\ r \in pending' /\ run'.step = "init" /\ r.op = o
    BY <1>5 DEF EnsureFork, Internal, TypeOK, TaskTypeOK, Routines
  <2> HIDE DEF r
  <2>2. PendingOfHead' /\ OkOfHead'
    BY <1>0, <2>1 DEF WorkInv, PendingAtChild, PendingOfHead, OkOfHead, CarrierCalled
  <2> QED
    BY <1>2, <2>1, <2>2 DEF AnswerInv, NoOkSent, TypeOK, WorkerTypeOK
<1>6. ASSUME NEW k \in Kinds, Request(o, k), queue' = queue, CarrierCalled' => k \in {"command", "status"}
      PROVE  AnswerInv'
  <2> DEFINE r == [op |-> o, kind |-> k, worker |-> child]
  <2>1. \/ r \in pending' /\ reply' = None /\ channel' = channel
        \/ pending' = pending /\ reply' = "disconnected" /\ channel' = channel
    BY <1>6 DEF Request, workerVars
  <2>2. r.op = o /\ (CarrierCalled' => Carries(r))
    BY <1>6 DEF Carries
  <2> HIDE DEF r
  <2>3. OkOfHead' /\ OkAfterEffect'
    BY <1>2, <2>1, SupervisorAssumption DEF OkOfHead, NoOkSent, SupervisorAssumption, Replies
  <2>4. PendingOfHead'
    <3>1. CASE r \in pending'
      BY <1>0, <1>6, <2>2, <3>1 DEF WorkInv, PendingAtChild, PendingOfHead
    <3>2. CASE reply' = "disconnected"
      BY <3>2, SupervisorAssumption
         DEF WorkInv, ReplySettles, PendingOfHead, SupervisorAssumption, Replies
    <3> QED
      BY <2>1, <3>1, <3>2
  <2> QED
    BY <2>3, <2>4 DEF AnswerInv
<1> QED
  BY <1>3, <1>4, <1>5, <1>6, OperationTransport

\* A worker says "ok" to a request that carries an operation out only after that;
\* only the answer to the head's own request reaches the routine.
LEMMA AnswersKeepAnswerInv ==
    ASSUME TypeOK, WorkInv, AnswerInv, NEW w \in Workers,
           Deliver(w) \/ \E value \in {"ok", "error", "mismatch"} : Handle(w, value)
    PROVE  AnswerInv'
<1>0. \A v \in Workers : channel[v] \in Seq(Answers)
  BY DEF TypeOK, WorkerTypeOK
<1>1. CASE Deliver(w)
  <2> DEFINE m == Head(channel[w])
  <2>1. /\ UNCHANGED <<queue, run, effects>>
        /\ \A v \in Workers : v # w => channel'[v] = channel[v]
        /\ channel'[w] = Tail(channel[w]) /\ channel[w] # <<>>
        /\ \/ m.req \in pending /\ pending' \subseteq pending /\ reply' = m.value
           \/ UNCHANGED <<pending, reply>>
    BY <1>1 DEF Deliver, taskVars, TypeOK, WorkerTypeOK
  <2>2. /\ 1 \in 1 .. Len(channel[w]) /\ m = channel[w][1]
        /\ \A i \in 1 .. Len(channel'[w]) :
              i + 1 \in 1 .. Len(channel[w]) /\ channel'[w][i] = channel[w][i + 1]
    BY <1>0, <2>1
  <2> HIDE DEF m
  <2>3. m.value = "ok" /\ Carries(m.req) => effects[m.req.op] # 0
    BY <2>2 DEF AnswerInv, OkAfterEffect
  <2>4. OkOfHead'
    BY <2>1, <2>3 DEF AnswerInv, PendingOfHead, OkOfHead, CarrierCalled, Running
  <2>5. PendingOfHead'
    BY <2>1 DEF AnswerInv, PendingOfHead, CarrierCalled, Carries
  <2>6. OkAfterEffect'
    <3>1. ASSUME NEW v \in Workers, NEW i \in 1 .. Len(channel'[v])
          PROVE  \E k \in 1 .. Len(channel[v]) : channel'[v][i] = channel[v][k]
      BY <2>1, <2>2, <3>1
    <3>2. ASSUME NEW v \in Workers, NEW i \in 1 .. Len(channel'[v]), channel'[v][i].value = "ok",
                 Carries(channel'[v][i].req)
          PROVE  effects'[channel'[v][i].req.op] # 0
      <4>1. PICK k \in 1 .. Len(channel[v]) : channel'[v][i] = channel[v][k]
        BY <3>1, <3>2
      <4> QED
        BY <2>1, <3>2, <4>1 DEF AnswerInv, OkAfterEffect
    <3> QED
      BY <3>2 DEF OkAfterEffect, Carries
  <2> QED
    BY <2>4, <2>5, <2>6 DEF AnswerInv
<1>2. ASSUME NEW value \in {"ok", "error", "mismatch"}, Handle(w, value) PROVE AnswerInv'
  <2> DEFINE m == [req |-> work[w], value |-> value]
  <2>1. /\ UNCHANGED <<queue, run, pending, reply>> /\ work[w] \in Requests
        /\ \A v \in Workers : v # w => channel'[v] = channel[v]
        /\ channel'[w] = channel[w] \/ channel'[w] = Append(channel[w], m)
    BY <1>2 DEF Handle, taskVars, transportVars, TypeOK, WorkerTypeOK
  <2>2. /\ \A p \in Ops : effects[p] # 0 => effects'[p] # 0
        /\ value = "ok" /\ Carries(work[w]) => effects'[work[w].op] # 0
    <3>1. effects \in [Ops -> Nat] /\ work[w].op \in Ops
      BY <2>1 DEF TypeOK, WorkerTypeOK, Requests
    <3>2. \/ effects' = [effects EXCEPT ![work[w].op] = @ + 1]
          \/ effects' = effects /\ (Carries(work[w]) => value # "ok")
      BY <1>2 DEF Handle, CarryOut
    <3>3. CASE effects' = [effects EXCEPT ![work[w].op] = @ + 1]
      BY <3>1, <3>3
    <3>4. CASE effects' = effects /\ (Carries(work[w]) => value # "ok")
      BY <3>4
    <3> QED
      BY <3>2, <3>3, <3>4
  <2>3. m.req = work[w] /\ m.value = value
    OBVIOUS
  <2> HIDE DEF m
  <2>4. PendingOfHead'
    BY <2>1 DEF AnswerInv, PendingOfHead, CarrierCalled, Carries
  <2>5. OkOfHead'
    BY <2>1, <2>2 DEF AnswerInv, OkOfHead, CarrierCalled, Running
  <2>6. OkAfterEffect'
    <3>1. ASSUME NEW v \in Workers, NEW i \in 1 .. Len(channel'[v]), channel'[v][i].value = "ok",
                 Carries(channel'[v][i].req)
          PROVE  effects'[channel'[v][i].req.op] # 0
      <4>1. ASSUME i \in 1 .. Len(channel[v]), channel'[v][i] = channel[v][i]
            PROVE  effects'[channel'[v][i].req.op] # 0
        <5>1. channel[v][i].req.op \in Ops
          <6>1. channel[v][i] \in Answers
            BY <1>0, <4>1
          <6> QED
            BY <6>1 DEF Answers, Requests
        <5>2. effects[channel[v][i].req.op] # 0
          BY <3>1, <4>1 DEF AnswerInv, OkAfterEffect
        <5> QED
          BY <2>2, <4>1, <5>1, <5>2
      <4>2. CASE v = w /\ channel'[w] = Append(channel[w], m)
        <5>1. /\ Len(channel'[w]) = Len(channel[w]) + 1 /\ Len(channel[w]) \in Nat
              /\ channel'[w][Len(channel[w]) + 1] = m
              /\ \A k \in 1 .. Len(channel[w]) : channel'[w][k] = channel[w][k]
          BY <1>0, <4>2
        <5>2. i \in 1 .. Len(channel[w]) \/ i = Len(channel[w]) + 1
          BY <3>1, <4>2, <5>1
        <5> QED
          BY <2>2, <2>3, <3>1, <4>1, <4>2, <5>1, <5>2
      <4> QED
        BY <2>1, <3>1, <4>1, <4>2
    <3> QED
      BY <3>1 DEF OkAfterEffect, Carries
  <2> QED
    BY <2>4, <2>5, <2>6 DEF AnswerInv
<1> QED
  BY <1>1, <1>2

\* Steps that say "ok" to nobody.
LEMMA NoOkKeepsAnswerInv ==
    ASSUME TypeOK, AnswerInv, NoOkSent, UNCHANGED <<queue, run, effects>>,
           pending' \subseteq pending, reply' = reply \/ reply' # "ok"
    PROVE  AnswerInv'
<1>1. PendingOfHead' /\ OkOfHead'
  BY DEF AnswerInv, PendingOfHead, OkOfHead, CarrierCalled, Running, Carries
<1> QED
  BY <1>1, NoNewOk DEF AnswerInv

\* Outside a conversation nothing is pending and nothing awaited.
LEMMA NotCallingKeepsAnswerInv ==
    ASSUME TypeOK, WorkInv', AnswerInv, NoOkSent, UNCHANGED effects, ~Calling'
    PROVE  AnswerInv'
<1>1. PendingOfHead' /\ OkOfHead'
  BY DEF WorkInv, ReplySettles, PendingOfHead, OkOfHead, CarrierCalled, Calling
<1> QED
  BY <1>1, NoNewOk DEF AnswerInv

\* Calls queue up behind the head.
LEMMA CallsKeepAnswerInv ==
    ASSUME TypeOK, WorkInv, IdleWhenEmpty, AnswerInv, Calls
    PROVE  AnswerInv'
<1>1. UNCHANGED <<run, pending, reply, channel, effects>>
  BY DEF Calls, Reserve, BeginNew, BeginReserved, ResponseCreated, Query, RequestClose,
         taskVars, transportVars, workerVars
<1>2. queue' = queue \/ \E t \in Ops \cup {Close} : queue' = Append(queue, t)
  BY DEF Calls, Reserve, BeginNew, BeginReserved, ResponseCreated, Query, RequestClose,
         Enqueue, taskVars
<1>3. Calling => queue # <<>> /\ queue' # <<>> /\ Head(queue') = Head(queue)
  BY <1>2 DEF TypeOK, TaskTypeOK, IdleWhenEmpty, Calling
<1>4. PendingOfHead'
  BY <1>1, <1>3 DEF AnswerInv, PendingOfHead, WorkInv, ReplySettles, CarrierCalled, Carries
<1>5. OkOfHead'
  BY <1>1, <1>3 DEF AnswerInv, OkOfHead, CarrierCalled, Calling, Running
<1>6. OkAfterEffect'
  BY <1>1, NoNewOk DEF AnswerInv, NoOkSent
<1> QED
  BY <1>4, <1>5, <1>6 DEF AnswerInv

LEMMA NextKeepsAnswerInv ==
    ASSUME TypeOK, TypeOK', WorkInv, WorkInv', ReplayInv, IdleWhenEmpty, AnswerInv, [Next]_vars
    PROVE  AnswerInv'
<1>1. CASE StartClose
  <2>1. Terminate(child) /\ child \in Workers \cup {None} /\ ~Calling'
    BY <1>1 DEF StartClose, Replace, Calling, TypeOK, WorkerTypeOK
  <2>2. UNCHANGED effects
    BY <2>1 DEF Terminate, Signal, workerVars
  <2> QED
    BY <2>1, <2>2, TerminateSendsNoOk, NotCallingKeepsAnswerInv
<1>2. CASE CloseDone
  BY <1>2, NotCallingKeepsAnswerInv DEF CloseDone, Idle, Calling, workerVars, NoOkSent
<1>3. CASE KillAfterGrace \/ (\E r \in pending : Timeout(r)) \/ \E w \in Workers : Exit(w) \/ Crash(w)
  <2>1. /\ UNCHANGED <<queue, run, effects, channel>> /\ pending' \subseteq pending
        /\ reply' = reply \/ reply' # "ok"
    BY <1>3 DEF KillAfterGrace, Timeout, Exit, Crash, Gone, taskVars, workerVars
  <2> QED
    BY <2>1, NoOkKeepsAnswerInv DEF NoOkSent
<1>4. CASE \E w \in Workers : ExternalTerm(w)
  <2>1. /\ UNCHANGED <<queue, run, pending, reply>>
        /\ \E w \in Workers : Signal(w)
    BY <1>4 DEF ExternalTerm, taskVars, transportVars
  <2>2. UNCHANGED effects
    BY <2>1 DEF Signal
  <2> QED
    BY <2>1, <2>2, SignalSendsNoOk, NoOkKeepsAnswerInv
<1>5. CASE (\E w \in Workers : Detach(w)) \/ UNCHANGED vars
  <2>1. UNCHANGED <<queue, run, pending, reply, channel, effects>>
    BY <1>5 DEF Detach, vars, taskVars, transportVars, workerVars
  <2> QED
    BY <2>1, NoOkKeepsAnswerInv DEF NoOkSent
<1> QED
  BY <1>1, <1>2, <1>3, <1>4, <1>5, CallsKeepAnswerInv, OperationKeepsAnswerInv, AnswersKeepAnswerInv
     DEF Next, QueueStep, WorkerStep

(***************************************************************************)
(* All of it is an invariant.                                              *)
(***************************************************************************)

SupervisorInv ==
    /\ TypeOK /\ CloseInv /\ WorkInv /\ ReplayInv
    /\ OutcomeInv /\ AnswerInv /\ ReloadDecided

\* A routine comes to the reload only after it has found no handoff.
LEMMA OperationKeepsReloadDecided ==
    ASSUME TypeOK, ReloadDecided, NEW o \in Ops, OperationStep(o)
    PROVE  ReloadDecided' /\ handoff' = handoff
<1>0. run \in Routines
  BY DEF TypeOK, TaskTypeOK
<1>1. ASSUME NEW code, Fail(o, code) PROVE run'.step # "reload"
  BY <1>1, FailEnds
<1>2. ASSUME NEW code, Catch(o, code) \/ EnsureFails(o, code)
      PROVE  run'.step # "reload" /\ handoff' = handoff
  BY <1>1, <1>2 DEF Catch, EnsureFails, Replace, envVars
<1>3. CASE EnsureClosing(o) \/ InitializeGivenUp(o) \/ CallFails(o)
  BY <1>2, <1>3 DEF EnsureClosing, InitializeGivenUp, CallFails, ReloadDecided
<1>4. CASE EnsureReuse(o) \/ InitializeOk(o) \/ InitializeFails(o) \/ \E w \in Workers : EnsureFork(o, w)
  BY <1>0, <1>4
     DEF EnsureReuse, InitializeOk, InitializeFails, EnsureFork, GoTo, Routines, Internal, envVars,
         ReloadDecided
<1>5. CASE Reload(o)
  BY <1>5 DEF Reload, Replace, Internal, envVars, ReloadDecided
<1>13. CASE ReloadStarted(o) \/ Reopened(o)
  BY <1>0, <1>13 DEF ReloadStarted, Reopened, At, Routines, Internal, envVars, ReloadDecided
<1>6. CASE Reloaded(o) \/ RecoveredWorker(o)
  BY <1>0, <1>6 DEF Reloaded, RecoveredWorker, At, GoTo, Routines, Internal, envVars, ReloadDecided
<1>7. CASE ReplacedWorkerExited(o) \/ Recovered(o)
  BY <1>0, <1>1, <1>7
     DEF ReplacedWorkerExited, Recovered, Routines, Internal, envVars, ReloadDecided
<1>8. CASE StartExecute(o) \/ StartRecover(o)
  <2>1. handoff' = handoff /\ (GoTo("preflight") \/ Terminal(o, "failed") \/ Rejected(o))
    BY <1>8 DEF StartExecute, StartRecover, envVars
  <2> QED
    BY <1>0, <2>1 DEF GoTo, Terminal, Rejected, Leave, Idle, Routines, ReloadDecided
<1>9. CASE Preflight(o)
  <2>1. CASE Catch(o, "failed")
    BY <1>2, <2>1 DEF ReloadDecided
  <2>2. CASE (GoTo("ensure") \/ ~handoff) /\ Internal
    BY <1>0, <2>2 DEF GoTo, Routines, Internal, envVars, ReloadDecided
  <2> QED
    BY <1>9, <2>1, <2>2 DEF Preflight
<1>10. CASE Dispatch(o)
  <2>1. handoff' = handoff /\ (GoTo("call") \/ Rejected(o))
    BY <1>10 DEF Dispatch, envVars
  <2> QED
    BY <1>0, <2>1 DEF GoTo, Rejected, Leave, Idle, Routines, ReloadDecided
<1>11. CASE Succeed(o) \/ Persist(o)
  BY <1>11 DEF Succeed, Persist, Terminal, Rejected, Leave, Idle, envVars, ReloadDecided
<1>12. CASE StopForRecover(o) \/ RecoverSucceeds(o)
  BY <1>2, <1>12 DEF StopForRecover, RecoverSucceeds, Replace, Terminal, Idle, envVars, ReloadDecided
<1> QED
  BY <1>3, <1>4, <1>5, <1>6, <1>7, <1>8, <1>9, <1>10, <1>11, <1>12, <1>13 DEF OperationStep

\* Meanwhile no worker is at work, so none takes a handoff.
LEMMA NextKeepsReloadDecided ==
    ASSUME TypeOK, WorkInv, ReloadDecided, [Next]_vars
    PROVE  ReloadDecided'
<1>1. CASE UNCHANGED <<run, handoff>>
  BY <1>1 DEF ReloadDecided
<1>2. CASE Calls
  BY <1>1, <1>2
     DEF Calls, Reserve, BeginNew, BeginReserved, ResponseCreated, Query, RequestClose, taskVars, envVars
<1>3. CASE StartClose \/ CloseDone
  BY <1>3 DEF StartClose, CloseDone, Replace, Idle, ReloadDecided
<1>4. ASSUME NEW w \in Workers, NEW value, Handle(w, value) PROVE ReloadDecided'
  <2>1. run' = run /\ work[w] # None
    BY <1>4 DEF Handle, taskVars
  <2>2. run.step # "reload"
    <3>1. run.step = "reload" => Settled
      BY DEF Settled, Calling, Exiting
    <3> QED
      BY <2>1, <3>1, SettledIsIdle
  <2> QED
    BY <2>1, <2>2 DEF ReloadDecided
<1>5. CASE KillAfterGrace \/ (\E r \in pending : Timeout(r)) \/ UNCHANGED vars
  BY <1>1, <1>5 DEF KillAfterGrace, Gone, Timeout, taskVars, envVars, vars
<1>6. ASSUME NEW w \in Workers, Deliver(w) \/ ExternalTerm(w) \/ Detach(w) \/ Exit(w) \/ Crash(w)
      PROVE  ReloadDecided'
  BY <1>1, <1>6 DEF Deliver, ExternalTerm, Detach, Exit, Crash, Gone, taskVars, envVars
<1> QED
  BY <1>2, <1>3, <1>4, <1>5, <1>6, OperationKeepsReloadDecided DEF Next, QueueStep, WorkerStep

LEMMA SupervisorInvHolds == Spec => []SupervisorInv
<1>1. Init => SupervisorInv
  <2>1. Init => CloseInv /\ WorkInv /\ ReplayInv
    BY DEF Init, Idle, CloseInv, CloseQueuedWhenClosing, IdleWhenEmpty, CloseForgetsChild,
           ClosedHasNoChild, CloseRuns, WorkInv, GoneIsIdle, ResultIsLast, PendingAtChild,
           ReplySettles, ChildIsQuiet, WorkOfHead, TargetOfRun, Exiting, ReplayInv, QueueInv,
           QueuedOnce, QueuedIssued, EffectInv, UntouchedHasNoEffect, OneCarrier,
           SpentHasNoCarrier, Carriers
  <2>2. Init => OutcomeInv /\ AnswerInv /\ ReloadDecided
    BY SupervisorAssumption
       DEF Init, Idle, OutcomeInv, OutcomeOfIssued, OutcomeOfHead, ReturnedWhenGone,
           JournalTells, Issued, AnswerInv, PendingOfHead, OkOfHead, OkAfterEffect,
           CarrierCalled, ReloadDecided, SupervisorAssumption
  <2> QED
    BY <2>1, <2>2, InitType DEF SupervisorInv
<1>2. SupervisorInv /\ TypeOK' /\ [Next]_vars => SupervisorInv'
  BY NextKeepsCloseInv, NextKeepsWorkInv, NextKeepsReplayInv, NextKeepsOutcomeInv,
     NextKeepsAnswerInv, NextKeepsReloadDecided DEF SupervisorInv, CloseInv
<1> QED
  BY <1>1, <1>2, TypeCorrect, PTL DEF Spec

\* A reload never stops a worker while a private handoff owns the profile, although
\* the lease was read long before.
THEOREM ReloadsSpareHandoffs == Spec => ReloadSparesHandoff
<1>1. SupervisorInv /\ [Next]_vars => [\A o \in Ops : Reload(o) => ~handoff]_vars
  BY DEF SupervisorInv, ReloadDecided, Reload, At
<1> QED
  BY <1>1, SupervisorInvHolds, PTL DEF Spec, ReloadSparesHandoff

\* An operation keeps its outcome, and with it the command it was issued for.
LEMMA OutcomeStays ==
    ASSUME SupervisorInv, [Next]_vars, NEW o \in Ops, outcome[o] # None
    PROVE  outcome'[o] = outcome[o] /\ command'[o] = command[o]
<1>0. TypeOK /\ ReplayInv /\ OutcomeInv /\ Issued(o)
  BY DEF SupervisorInv, OutcomeInv, OutcomeOfIssued
<1>1. ASSUME NEW p \in Ops, OperationStep(p) PROVE outcome'[o] = outcome[o] /\ command'[o] = command[o]
  <2>1. Running(p)
    BY <1>1, OperationShape, <1>0
  <2>2. run.step # "persist" => o # p
    BY <1>0, <2>1, HeadIsIssued
  <2>3. CASE Persist(p) \/ GoesOn(p) \/ Rejected(p)
    BY <2>3 DEF Persist, GoesOn, Rejected, registryVars
  <2>4. ASSUME NEW r, Terminal(p, r), o # p PROVE outcome'[o] = outcome[o] /\ command'[o] = command[o]
    BY <1>0, <2>4 DEF Terminal, TypeOK, RegistryTypeOK
  <2> QED
    BY <1>0, <1>1, <2>2, <2>3, <2>4, OperationOutcome DEF Fails, Succeeds
<1>2. CASE Calls
  BY <1>0, <1>2
     DEF Calls, Reserve, BeginNew, BeginReserved, AddRecord, ResponseCreated, Query, RequestClose,
         registryVars, Issued, TypeOK, RegistryTypeOK
<1>3. CASE UNCHANGED registryVars
  BY <1>3 DEF registryVars
<1> QED
  BY <1>1, <1>2, <1>3
     DEF Next, QueueStep, StartClose, CloseDone, KillAfterGrace, Timeout, WorkerStep, Handle, Deliver,
         ExternalTerm, Detach, Exit, Crash, Gone, vars

\* What operation_status says of a finished operation is never revised, be it from
\* memory or, after pruning and compaction, from the journal.
THEOREM OutcomesAreFinal == Spec => OutcomeNeverRevised
<1>1. SupervisorInv /\ SupervisorInv' /\ [Next]_vars
      => [\A o \in Ops : command[o] # "recover" => ~Revised(o)]_vars
  <2> SUFFICES ASSUME SupervisorInv, SupervisorInv', [Next]_vars,
                      NEW o \in Ops, command[o] # "recover", Revised(o)
               PROVE  FALSE
    OBVIOUS
  <2>1. /\ JournalTells /\ JournalTells'
    BY DEF SupervisorInv, OutcomeInv
  <2>2. Report(o) # None /\ Report(o).outcome = outcome[o] /\ outcome[o] # None
    BY <2>1 DEF Revised, Report, JournalTells
  <2>3. outcome'[o] = outcome[o] /\ command'[o] = command[o]
    BY <2>2, OutcomeStays
  <2>4. Report(o)'.outcome = outcome'[o]
    BY <2>1, <2>3 DEF Revised, Report, JournalTells
  <2> QED
    BY <2>2, <2>3, <2>4 DEF Revised
<1> QED
  BY <1>1, SupervisorInvHolds, PTL DEF Spec, OutcomeNeverRevised

(***************************************************************************)
(* The supervisor implements OperationContract.                            *)
(***************************************************************************)

\* What is reported of an operation, case by case.
StateCases(p) ==
    /\ outcome[p] # None => ReportedState(p) = outcome[p]
    /\ returned[p] = "rejected" => ReportedState(p) = "lost"
    /\ phase[p] = "unborn" => ReportedState(p) = "unknown"
    /\ phase[p] = "reserved" => ReportedState(p) = IF p \in memory THEN "reserved" ELSE "expired"
    /\ Issued(p) /\ outcome[p] = None /\ returned[p] # "rejected" => ReportedState(p) = "issued"

LEMMA StateOfOperation ==
    ASSUME SupervisorInv, NEW p \in Ops
    PROVE  StateCases(p)
<1>1. /\ outcome[p] # None => Issued(p)
      /\ returned[p] # None <=> Issued(p) /\ ~InLine(p)
      /\ returned[p] = "rejected" => outcome[p] = None
      /\ None # "rejected"
  BY SupervisorAssumption
     DEF SupervisorInv, OutcomeInv, OutcomeOfIssued, ReturnedWhenGone, SupervisorAssumption
<1> QED
  BY <1>1 DEF StateCases, ReportedState, Issued

\* The same of the next state.
LEMMA NextStateOfOperation ==
    ASSUME SupervisorInv', NEW p \in Ops
    PROVE  StateCases(p)'
<1>1. /\ outcome'[p] # None => Issued(p)'
      /\ returned'[p] # None <=> Issued(p)' /\ ~InLine(p)'
      /\ returned'[p] = "rejected" => outcome'[p] = None
      /\ None # "rejected"
  BY SupervisorAssumption
     DEF SupervisorInv, OutcomeInv, OutcomeOfIssued, ReturnedWhenGone, SupervisorAssumption
<1> QED
  BY <1>1 DEF StateCases, ReportedState, Issued

\* What is issued and has not ended is in line without an outcome.
LEMMA IssuedIsInLine ==
    ASSUME SupervisorInv, NEW p \in Ops
    PROVE  ReportedState(p) = "issued" <=> InLine(p) /\ outcome[p] = None
<1>1. StateCases(p)
  BY StateOfOperation
<1>2. /\ returned[p] \in Outcomes \cup {None, "rejected"}
      /\ outcome[p] \in Outcomes \cup {None}
      /\ phase[p] \in Phases
  BY DEF SupervisorInv, TypeOK, RegistryTypeOK, TaskTypeOK
<1>3. /\ returned[p] # None <=> Issued(p) /\ ~InLine(p)
      /\ returned[p] \in Outcomes => outcome[p] = returned[p]
      /\ None \notin Outcomes \cup {"rejected"}
  BY SupervisorAssumption
     DEF SupervisorInv, OutcomeInv, ReturnedWhenGone, SupervisorAssumption
<1>4. InLine(p) => Issued(p)
  BY SupervisorAssumption
     DEF SupervisorInv, ReplayInv, QueueInv, QueuedIssued, InLine, SupervisorAssumption
<1> QED
  BY <1>1, <1>2, <1>3, <1>4 DEF StateCases, Issued, Outcomes

\* The head is the oldest.
LEMMA HeadIsOldest ==
    ASSUME SupervisorInv, NEW o \in Ops, Running(o), outcome[o] = None
    PROVE  ReportedState(o) = "issued" /\ \A p \in Ops : ~Before(p, o)
<1>1. InLine(o) /\ \A i \in 1 .. Len(queue) : queue[i] = o => i = 1
  BY HeadIsIssued DEF SupervisorInv
<1>2. ReportedState(o) = "issued"
  BY <1>1, IssuedIsInLine
<1>3. \A i, j \in 1 .. Len(queue) : i < j => j # 1
  BY DEF SupervisorInv, TypeOK, TaskTypeOK
<1> QED
  BY <1>1, <1>2, <1>3 DEF Before

\* When the head leaves the queue the order of the others stays.
LEMMA TailBefore ==
    ASSUME SupervisorInv, NEW t \in Ops \cup {Close},
           queue # <<>>, Head(queue) = t, queue' = Tail(queue), UNCHANGED outcome
    PROVE  \A p, q \in Ops : Before(p, q)' <=> Before(p, q) /\ p # t
<1>1. /\ queue \in Seq(Ops \cup {Close}) /\ queue[1] = t /\ 1 \in 1 .. Len(queue)
      /\ \A i \in 1 .. Len(queue) : queue[i] = t /\ t \in Ops => i = 1
  BY SupervisorAssumption
     DEF SupervisorInv, TypeOK, TaskTypeOK, ReplayInv, QueueInv, QueuedOnce, SupervisorAssumption
<1>2. /\ \A i \in 1 .. Len(queue') : i + 1 \in 1 .. Len(queue) /\ i + 1 # 1 /\ queue'[i] = queue[i + 1]
      /\ \A i \in 1 .. Len(queue) : i # 1 => i - 1 \in 1 .. Len(queue') /\ queue'[i - 1] = queue[i]
  <2>1. Len(queue') + 1 = Len(queue) /\ Len(queue') \in Nat
        /\ \A i \in 1 .. Len(queue') : queue'[i] = queue[i + 1]
    BY <1>1
  <2> QED
    BY <2>1
<1>3. ASSUME NEW p \in Ops, NEW q \in Ops, Before(p, q)' PROVE Before(p, q) /\ p # t
  <2>1. PICK i, j \in 1 .. Len(queue') : i < j /\ queue'[i] = p /\ queue'[j] = q
    BY <1>3 DEF Before
  <2>2. /\ i + 1 \in 1 .. Len(queue) /\ j + 1 \in 1 .. Len(queue) /\ i + 1 # 1
        /\ queue[i + 1] = p /\ queue[j + 1] = q
    BY <1>2, <2>1
  <2>3. i + 1 < j + 1
    BY <2>1
  <2> QED
    BY <1>1, <1>3, <2>2, <2>3 DEF Before
<1>4. ASSUME NEW p \in Ops, NEW q \in Ops, Before(p, q), p # t PROVE Before(p, q)'
  <2>1. PICK i, j \in 1 .. Len(queue) : i < j /\ queue[i] = p /\ queue[j] = q
    BY <1>4 DEF Before
  <2>2. i # 1 /\ j # 1
    BY <1>1, <1>4, <2>1
  <2>3. i - 1 \in 1 .. Len(queue') /\ j - 1 \in 1 .. Len(queue') /\ queue'[i - 1] = p /\ queue'[j - 1] = q
    BY <1>2, <2>1, <2>2
  <2>4. i - 1 < j - 1
    BY <2>1
  <2> QED
    BY <1>4, <2>3, <2>4 DEF Before
<1> QED
  BY <1>3, <1>4

\* What is enqueued comes after all that has not ended.
LEMMA EnqueueBefore ==
    ASSUME SupervisorInv, NEW t \in Ops \cup {Close}, Enqueue(t), UNCHANGED outcome,
           t \in Ops => ~InLine(t) /\ outcome[t] = None
    PROVE  /\ \A p \in Ops, q \in Ops \ {t} : Before(p, q)' <=> Before(p, q)
           /\ t \in Ops => \A p \in Ops : Before(p, t)' <=> InLine(p) /\ outcome[p] = None
<1>1. /\ Len(queue) \in Nat /\ Len(queue') = Len(queue) + 1 /\ queue'[Len(queue) + 1] = t
      /\ \A i \in 1 .. Len(queue) : queue'[i] = queue[i]
      /\ \A i \in 1 .. Len(queue') : i \in 1 .. Len(queue) \/ i = Len(queue) + 1
  BY EnqueueLine DEF SupervisorInv
<1>2. \A i \in 1 .. Len(queue) : i \in 1 .. Len(queue') /\ i < Len(queue) + 1
  BY <1>1
<1>3. ASSUME NEW p \in Ops, NEW q \in Ops \ {t}, Before(p, q)' PROVE Before(p, q)
  <2>1. PICK i, j \in 1 .. Len(queue') : i < j /\ queue'[i] = p /\ queue'[j] = q
    BY <1>3 DEF Before
  <2>2. j \in 1 .. Len(queue)
    BY <1>1, <2>1
  <2>3. i \in 1 .. Len(queue)
    BY <1>1, <2>1, <2>2
  <2> QED
    BY <1>1, <1>3, <2>1, <2>2, <2>3 DEF Before
<1>4. ASSUME NEW p \in Ops, NEW q \in Ops, Before(p, q) PROVE Before(p, q)'
  BY <1>1, <1>2, <1>4 DEF Before
<1>5. ASSUME t \in Ops, NEW p \in Ops PROVE Before(p, t)' <=> InLine(p) /\ outcome[p] = None
  <2>1. ASSUME Before(p, t)' PROVE InLine(p) /\ outcome[p] = None
    <3>1. PICK i, j \in 1 .. Len(queue') : i < j /\ queue'[i] = p /\ queue'[j] = t
      BY <2>1 DEF Before
    <3>2. i \in 1 .. Len(queue)
      BY <1>1, <3>1
    <3> QED
      BY <1>1, <2>1, <3>1, <3>2 DEF Before, InLine
  <2>2. ASSUME InLine(p), outcome[p] = None PROVE Before(p, t)'
    <3>1. PICK i \in 1 .. Len(queue) : queue[i] = p
      BY <2>2 DEF InLine
    <3>2. i \in 1 .. Len(queue') /\ Len(queue) + 1 \in 1 .. Len(queue') /\ i < Len(queue) + 1
      BY <1>1, <1>2
    <3> QED
      BY <1>1, <1>5, <2>2, <3>1, <3>2 DEF Before
  <2> QED
    BY <2>1, <2>2
<1> QED
  BY <1>3, <1>4, <1>5

\* Steps of the contract, in terms of what is reported and of the order in line.
SameReport(S) == \A p \in S : ReportedState(p)' = ReportedState(p)

SameOrder == \A p, q \in Ops : Before(p, q)' <=> Before(p, q)

Pruned == {p \in Ops : p \in memory /\ p \notin memory'}

LapsedReport(p) ==
    ReportedState(p)' = IF p \in Pruned /\ ReportedState(p) = "reserved" THEN "expired" ELSE ReportedState(p)

ContractStep == [Contract!Next]_(Contract!vars)

LEMMA StutterStep ==
    ASSUME SameReport(Ops), SameOrder, UNCHANGED effects
    PROVE  ContractStep
BY DEF SameReport, SameOrder, ContractStep, Contract!vars

LEMMA FinishStep ==
    ASSUME NEW o \in Ops, NEW r \in {"succeeded", "failed", "timed_out", "lost"},
           ReportedState(o) = "issued", \A p \in Ops : ~Before(p, o),
           ReportedState(o)' = r, SameReport(Ops \ {o}),
           \A p, q \in Ops : Before(p, q)' <=> Before(p, q) /\ p # o,
           UNCHANGED effects, r = "succeeded" => effects[o] = 1
    PROVE  ContractStep
<1>1. Contract!Oldest(o)
  BY DEF Contract!Oldest
<1>2. Contract!Finish(o, r)
  BY <1>1 DEF SameReport, Contract!Finish
<1> QED
  BY <1>2 DEF ContractStep, Contract!Next, Contract!Outcomes

\* A record that was not touched is as before, or its reservation has lapsed.
LEMMA ReportOfUntouched ==
    ASSUME SupervisorInv, SupervisorInv', NEW p \in Ops, phase'[p] = phase[p], outcome'[p] = outcome[p],
           returned'[p] = returned[p], p \in memory' => p \in memory
    PROVE  LapsedReport(p)
<1>1. StateCases(p) /\ StateCases(p)'
  BY StateOfOperation, NextStateOfOperation
<1>2. outcome[p] \in Outcomes \cup {None} /\ (outcome[p] # None => Issued(p)) /\ phase[p] \in Phases
  BY DEF SupervisorInv, TypeOK, RegistryTypeOK, OutcomeInv, OutcomeOfIssued
<1>3. returned[p] = "rejected" => outcome[p] = None /\ Issued(p)
  BY SupervisorAssumption
     DEF SupervisorInv, OutcomeInv, ReturnedWhenGone, SupervisorAssumption
<1> QED
  BY <1>1, <1>2, <1>3 DEF StateCases, LapsedReport, Pruned, Issued, Outcomes

\* The same if nothing was pruned.
LEMMA ReportOfKept ==
    ASSUME SupervisorInv, SupervisorInv', NEW p \in Ops, phase'[p] = phase[p], outcome'[p] = outcome[p],
           returned'[p] = returned[p], memory' = memory
    PROVE  ReportedState(p)' = ReportedState(p)
BY ReportOfUntouched DEF LapsedReport, Pruned

LEMMA CallsImplement ==
    ASSUME SupervisorInv, SupervisorInv', Calls
    PROVE  ContractStep
<1>1. ASSUME NEW o \in Ops, NEW c \in Commands, Reserve(o, c) PROVE ContractStep
  <2>1. /\ phase[o] = "unborn" /\ phase'[o] = "reserved" /\ o \in memory'
        /\ \A p \in Ops \ {o} : phase'[p] = phase[p] /\ (p \in memory' => p \in memory)
        /\ UNCHANGED <<outcome, returned, queue, effects>>
    BY <1>1, PruneShrinks
       DEF Reserve, AddRecord, taskVars, workerVars, SupervisorInv, TypeOK, RegistryTypeOK
  <2>2. ReportedState(o) = "unknown" /\ ReportedState(o)' = "reserved" /\ o \notin Pruned
    BY <2>1, StateOfOperation, NextStateOfOperation DEF StateCases, Pruned
  <2>3. \A p \in Ops \ {o} : LapsedReport(p)
    BY <2>1, ReportOfUntouched
  <2>4. SameOrder
    BY <2>1 DEF SameOrder, Before
  <2>5. Contract!Reserve(o, Pruned)
    BY <2>1, <2>2, <2>3, <2>4 DEF SameOrder, LapsedReport, Contract!Reserve, Contract!Lapsed
  <2>6. Pruned \in SUBSET Ops
    BY DEF Pruned
  <2> QED
    BY <2>5, <2>6 DEF ContractStep, Contract!Next
<1>2. ASSUME NEW o \in Ops, BeginReserved(o) \/ \E c \in Commands : BeginNew(o, c) PROVE ContractStep
  <2>1. /\ phase[o] = "unborn" \/ (phase[o] = "reserved" /\ o \in memory)
        /\ phase'[o] = "queued" /\ o \in memory' /\ Enqueue(o)
        /\ \A p \in Ops \ {o} : phase'[p] = phase[p] /\ (p \in memory' => p \in memory)
        /\ UNCHANGED <<outcome, returned, effects>>
    BY <1>2, PruneShrinks
       DEF BeginReserved, BeginNew, AddRecord, workerVars, SupervisorInv, TypeOK, RegistryTypeOK
  <2>2. ~Issued(o) /\ Issued(o)'
    BY <2>1 DEF Issued
  <2>3. outcome[o] = None /\ returned[o] = None /\ ~InLine(o)
    BY <2>2, SupervisorAssumption
       DEF SupervisorInv, OutcomeInv, OutcomeOfIssued, ReturnedWhenGone, ReplayInv, QueueInv,
           QueuedIssued, InLine, SupervisorAssumption
  <2>4. ReportedState(o) \in {"unknown", "reserved"} /\ o \notin Pruned
    BY <2>1, StateOfOperation DEF StateCases, Pruned
  <2>5. ReportedState(o)' = "issued"
    BY <2>1, <2>2, <2>3, NextStateOfOperation, SupervisorAssumption DEF StateCases, SupervisorAssumption
  <2>6. \A p \in Ops \ {o} : LapsedReport(p)
    BY <2>1, ReportOfUntouched
  <2>7. /\ \A p \in Ops, q \in Ops \ {o} : Before(p, q)' <=> Before(p, q)
        /\ \A p \in Ops : Before(p, o)' <=> ReportedState(p) = "issued"
    BY <2>1, <2>3, EnqueueBefore, IssuedIsInLine
  <2>8. Contract!Issue(o, Pruned)
    BY <2>1, <2>4, <2>5, <2>6, <2>7 DEF LapsedReport, Contract!Issue, Contract!Lapsed
  <2>9. Pruned \in SUBSET Ops
    BY DEF Pruned
  <2> QED
    BY <2>8, <2>9 DEF ContractStep, Contract!Next
<1>3. ASSUME NEW o \in Ops, ResponseCreated(o) PROVE ContractStep
  <2>1. /\ UNCHANGED <<memory, outcome, returned, queue, effects>> /\ outcome[o] # None
        /\ \A p \in Ops \ {o} : phase'[p] = phase[p]
    BY <1>3, SupervisorAssumption
       DEF ResponseCreated, EnterPhase, taskVars, workerVars, SupervisorInv, TypeOK, RegistryTypeOK,
           OutcomeInv, ReturnedWhenGone, SupervisorAssumption
  <2>2. ReportedState(o) = outcome[o] /\ ReportedState(o)' = outcome[o]
    BY <2>1, StateOfOperation, NextStateOfOperation DEF StateCases
  <2>3. SameReport(Ops)
    BY <2>1, <2>2, ReportOfKept DEF SameReport
  <2>4. SameOrder
    BY <2>1 DEF SameOrder, Before
  <2> QED
    BY <2>1, <2>3, <2>4, StutterStep
<1>4. CASE Query
  <2>1. /\ UNCHANGED <<phase, outcome, returned, queue, effects>>
        /\ \A p \in Ops : p \in memory' => p \in memory
    BY <1>4, PruneShrinks DEF Query, taskVars, workerVars
  <2>2. \A p \in Ops : LapsedReport(p)
    BY <2>1, ReportOfUntouched
  <2>3. SameOrder
    BY <2>1 DEF SameOrder, Before
  <2>4. Contract!Lapse(Pruned)
    BY <2>1, <2>2, <2>3 DEF SameOrder, LapsedReport, Contract!Lapse, Contract!Lapsed
  <2>5. Pruned \in SUBSET Ops
    BY DEF Pruned
  <2> QED
    BY <2>4, <2>5 DEF ContractStep, Contract!Next
<1>5. CASE RequestClose
  <2>1. UNCHANGED <<memory, phase, outcome, returned, effects>> /\ Enqueue(Close)
    BY <1>5 DEF RequestClose, registryVars, workerVars
  <2>2. SameReport(Ops)
    BY <2>1, ReportOfKept DEF SameReport
  <2>3. SameOrder
    BY <2>1, EnqueueBefore, SupervisorAssumption DEF SameOrder, SupervisorAssumption
  <2> QED
    BY <2>1, <2>2, <2>3, StutterStep
<1> QED
  BY <1>1, <1>2, <1>3, <1>4, <1>5 DEF Calls

\* A routine ends its operation, or what is reported stays.
LEMMA OperationImplements ==
    ASSUME SupervisorInv, SupervisorInv', NEW o \in Ops, OperationStep(o)
    PROVE  ContractStep
<1>0. /\ TypeOK /\ Running(o) /\ Issued(o) /\ returned[o] = None /\ UNCHANGED effects
      /\ outcome[o] # None <=> run.step = "persist"
  BY OperationShape, RoutineShape, HeadIsIssued DEF SupervisorInv, Harmless, SendsOnce
<1>1. CASE run.step # "persist" /\ GoesOn(o)
  <2>1. /\ UNCHANGED <<memory, outcome, returned, queue>>
        /\ \A p \in Ops \ {o} : phase'[p] = phase[p]
        /\ Issued(o)'
    BY <1>0, <1>1 DEF GoesOn, EnterPhase, Issued, TypeOK, RegistryTypeOK
  <2>2. ReportedState(o)' = ReportedState(o)
    BY <1>0, <2>1, StateOfOperation, NextStateOfOperation, SupervisorAssumption
       DEF StateCases, SupervisorAssumption
  <2>3. SameReport(Ops)
    BY <2>1, <2>2, ReportOfKept DEF SameReport
  <2>4. SameOrder
    BY <2>1 DEF SameOrder, Before
  <2> QED
    BY <1>0, <2>3, <2>4, StutterStep
<1>2. CASE run.step # "persist" /\ Rejected(o)
  <2>1. /\ UNCHANGED <<memory, phase, outcome>> /\ queue' = Tail(queue)
        /\ returned' = [returned EXCEPT ![o] = "rejected"]
    BY <1>2 DEF Rejected, Leave, registryVars
  <2>2. returned'[o] = "rejected" /\ \A p \in Ops \ {o} : returned'[p] = returned[p]
    BY <1>0, <2>1 DEF TypeOK, TaskTypeOK
  <2>3. ReportedState(o)' = "lost"
    BY <2>2, NextStateOfOperation DEF StateCases
  <2>4. SameReport(Ops \ {o})
    BY <2>1, <2>2, ReportOfKept DEF SameReport
  <2>5. \A p, q \in Ops : Before(p, q)' <=> Before(p, q) /\ p # o
    BY <1>0, <2>1, TailBefore DEF Running
  <2> QED
    BY <1>0, <1>2, <2>3, <2>4, <2>5, HeadIsOldest, FinishStep
<1>3. ASSUME NEW r \in {"succeeded", "failed", "timed_out"}, run.step # "persist", Terminal(o, r),
             r = "succeeded" => CarrierCalled /\ reply = "ok"
      PROVE  ContractStep
  <2>1. /\ UNCHANGED <<memory, returned, queue>>
        /\ outcome' = [outcome EXCEPT ![o] = r]
        /\ \A p \in Ops \ {o} : phase'[p] = phase[p]
    BY <1>0, <1>3 DEF Terminal, TypeOK, RegistryTypeOK
  <2>2. /\ outcome'[o] = r /\ r # None /\ \A p \in Ops \ {o} : outcome'[p] = outcome[p]
    BY <1>0, <2>1, SupervisorAssumption
       DEF TypeOK, RegistryTypeOK, Outcomes, SupervisorAssumption
  <2>3. ReportedState(o)' = r
    BY <2>2, NextStateOfOperation DEF StateCases
  <2>4. SameReport(Ops \ {o})
    BY <2>1, <2>2, ReportOfKept DEF SameReport
  <2>5. ReportedState(o) = "issued" /\ \A p \in Ops : ~Before(p, o)
    BY <1>0, <1>3, HeadIsOldest
  <2>6. \A p, q \in Ops : Before(p, q)' <=> Before(p, q) /\ p # o
    BY <2>1, <2>2, <2>5 DEF Before
  <2>7. r = "succeeded" => effects[o] = 1
    BY <1>0, <1>3
       DEF SupervisorInv, AnswerInv, OkOfHead, ReplayInv, EffectInv, SpentHasNoCarrier
  <2> QED
    BY <1>0, <2>3, <2>4, <2>5, <2>6, <2>7, FinishStep
<1>4. CASE Persist(o)
  <2>1. /\ UNCHANGED <<memory, outcome>> /\ queue' = Tail(queue)
        /\ returned' = [returned EXCEPT ![o] = outcome[o]]
        /\ UNCHANGED phase \/ EnterPhase(o, "persistence_complete")
        /\ run.step = "persist"
    BY <1>4 DEF Persist, Leave, At
  <2>2. /\ \A p \in Ops \ {o} : returned'[p] = returned[p] /\ phase'[p] = phase[p]
        /\ outcome[o] # None
    BY <1>0, <2>1 DEF EnterPhase, TypeOK, TaskTypeOK, RegistryTypeOK
  <2>3. ReportedState(o)' = outcome[o] /\ ReportedState(o) = outcome[o]
    BY <2>1, <2>2, StateOfOperation, NextStateOfOperation DEF StateCases
  <2>4. SameReport(Ops)
    BY <2>1, <2>2, <2>3, ReportOfKept DEF SameReport
  <2>5. SameOrder
    <3>1. \A p, q \in Ops : Before(p, q)' <=> Before(p, q) /\ p # o
      BY <1>0, <2>1, TailBefore DEF Running
    <3>2. \A q : ~Before(o, q)
      BY <2>2 DEF Before
    <3> QED
      BY <3>1, <3>2 DEF SameOrder
  <2> QED
    BY <1>0, <2>4, <2>5, StutterStep
<1> QED
  BY <1>0, <1>1, <1>2, <1>3, <1>4, OperationOutcome DEF Fails, Succeeds

\* The worker that carries an operation out does so for the head, for the first time.
LEMMA HandleImplements ==
    ASSUME SupervisorInv, NEW w \in Workers, NEW value, Handle(w, value)
    PROVE  ContractStep
<1>0. TypeOK /\ WorkInv /\ UNCHANGED <<memory, phase, outcome, returned, queue>> /\ work[w] \in Requests
  BY DEF SupervisorInv, Handle, registryVars, taskVars, TypeOK, WorkerTypeOK
<1>1. SameReport(Ops) /\ SameOrder
  BY <1>0 DEF SameReport, SameOrder, ReportedState, Before
<1>2. CASE UNCHANGED effects
  BY <1>1, <1>2, StutterStep
<1>3. CASE Carries(work[w]) /\ effects' = [effects EXCEPT ![work[w].op] = @ + 1]
  <2>1. PICK o \in Ops : o = work[w].op
    BY <1>0 DEF Requests
  <2>2. Running(o) /\ work[w] # None
    BY <2>1 DEF Handle, SupervisorInv, WorkInv, WorkOfHead, Running
  <2>3. outcome[o] = None
    <3>1. run.step = "persist" => Settled
      BY DEF Settled, Calling, Exiting
    <3>2. run.step # "persist"
      BY <1>0, <2>2, <3>1, SettledIsIdle
    <3> QED
      BY <2>2, <3>2, HeadIsIssued DEF SupervisorInv
  <2>4. effects[o] = 0 /\ effects \in [Ops -> Nat]
    <3>1. w \in Carriers(o)
      BY <1>3, <2>1, <2>2 DEF Carriers
    <3> QED
      BY <1>0, <3>1 DEF SupervisorInv, ReplayInv, EffectInv, SpentHasNoCarrier, TypeOK, WorkerTypeOK
  <2>5. ReportedState(o) = "issued" /\ \A p \in Ops : ~Before(p, o)
    BY <2>2, <2>3, HeadIsOldest
  <2>6. effects' = [effects EXCEPT ![o] = 1]
    BY <1>3, <2>1, <2>4
  <2>7. Contract!CarryOut(o)
    BY <1>1, <2>4, <2>5, <2>6 DEF SameReport, SameOrder, Contract!CarryOut, Contract!Oldest
  <2> QED
    BY <2>7 DEF ContractStep, Contract!Next
<1> QED
  BY <1>2, <1>3 DEF Handle, CarryOut

\* Steps of the supervisor are steps of the contract.
LEMMA NextImplements ==
    ASSUME SupervisorInv, SupervisorInv', [Next]_vars
    PROVE  ContractStep
<1>1. ASSUME UNCHANGED <<memory, phase, outcome, returned, queue, effects>> PROVE ContractStep
  BY <1>1, StutterStep DEF SameReport, SameOrder, ReportedState, Before
<1>2. CASE StartClose
  BY <1>1, <1>2 DEF StartClose, Replace, Terminate, Signal, registryVars, workerVars
<1>3. CASE CloseDone
  <2>1. /\ UNCHANGED <<memory, phase, outcome, returned, effects>>
        /\ queue # <<>> /\ Head(queue) = Close /\ queue' = Tail(queue)
    BY <1>3 DEF CloseDone, CloseRuns, registryVars, workerVars
  <2>2. SameOrder
    BY <2>1, TailBefore, SupervisorAssumption DEF SameOrder, SupervisorAssumption
  <2>3. SameReport(Ops)
    BY <2>1 DEF SameReport, ReportedState
  <2> QED
    BY <2>1, <2>2, <2>3, StutterStep
<1>4. CASE KillAfterGrace \/ (\E r \in pending : Timeout(r)) \/ UNCHANGED vars
  BY <1>1, <1>4 DEF KillAfterGrace, Timeout, Gone, vars, registryVars, taskVars, workerVars
<1>5. ASSUME NEW w \in Workers, Deliver(w) \/ ExternalTerm(w) \/ Detach(w) \/ Exit(w) \/ Crash(w)
      PROVE  ContractStep
  BY <1>1, <1>5
     DEF Deliver, ExternalTerm, Detach, Exit, Crash, Gone, Signal, registryVars, taskVars
<1> QED
  BY <1>2, <1>3, <1>4, <1>5, CallsImplement, OperationImplements, HandleImplements
     DEF Next, QueueStep, WorkerStep

\* The supervisor keeps its contract: in issue order, at most once, "succeeded" only
\* after the effect, and one outcome for good.
THEOREM ContractIsImplemented == Spec => ImplementsContract
<1>1. Init => Contract!Init
  <2> SUFFICES ASSUME Init PROVE Contract!Init
    OBVIOUS
  <2>1. \A o \in Ops : ReportedState(o) = "unknown"
    BY SupervisorAssumption DEF Init, ReportedState, SupervisorAssumption
  <2>2. \A p, q \in Ops : ~Before(p, q)
    BY DEF Init, Before
  <2> QED
    BY <2>1, <2>2 DEF Init, Contract!Init
<1>2. SupervisorInv /\ SupervisorInv' /\ [Next]_vars => [Contract!Next]_(Contract!vars)
  BY NextImplements DEF ContractStep
<1> QED
  BY <1>1, <1>2, SupervisorInvHolds, PTL DEF Spec, ImplementsContract, Contract!Spec

===============================================================================
