--------------------------- MODULE SupervisorProofs ---------------------------
(* Theorems about Supervisor, for every set of operations and worker slots. *)
EXTENDS Supervisor, FiniteSetTheorems, TLAPS

(***************************************************************************)
(* What the helpers return, and that they keep the types.                  *)
(***************************************************************************)

\* The stamp of a new record is a number.
LEMMA NextStampType == NextStamp \in Nat
<1>1. IsFiniteSet({o \in Ops : stamp[o] > 0})
  BY SupervisorAssumption, FS_Subset DEF SupervisorAssumption
<1> QED
  BY <1>1, FS_CardinalityType DEF NextStamp

\* What prune() leaves was there before.
LEMMA PruneShrinks == \A kept \in PruneResults : kept \subseteq memory
BY DEF PruneResults, Newest

\* reserve() and begin() of a new operation keep the registry's types.
LEMMA AddRecordType ==
    ASSUME RegistryTypeOK, NEW o \in Ops, NEW c \in Commands, NEW p \in Phases,
           AddRecord(o, c, p)
    PROVE  /\ memory' \subseteq Ops
           /\ stamp' \in [Ops -> Nat]
           /\ command' \in [Ops -> Commands \cup {None}]
           /\ phase' \in [Ops -> Phases]
<1>1. memory' \subseteq Ops
  BY PruneShrinks DEF AddRecord, RegistryTypeOK
<1>2. stamp' \in [Ops -> Nat]
  BY NextStampType DEF AddRecord, RegistryTypeOK
<1> QED
  BY <1>1, <1>2 DEF AddRecord, RegistryTypeOK

\* A worker that is told to stop, or killed, is of the same type.
LEMMA SignalType ==
    ASSUME WorkerTypeOK, NEW w \in Workers, Signal(w)
    PROVE  /\ proc' \in [Workers -> Lives]
           /\ work' \in [Workers -> Requests \cup {None}]
           /\ channel' \in [Workers -> Seq(Answers)]
           /\ effects' \in [Ops -> Nat]
<1>1. proc' \in [Workers -> Lives]
  BY DEF Signal, WorkerTypeOK, Lives
<1>2. work' \in [Workers -> Requests \cup {None}]
  BY DEF Signal, Interrupt, WorkerTypeOK
<1>3. channel' \in [Workers -> Seq(Answers)]
  <2>1. CASE UNCHANGED channel
    BY <2>1 DEF WorkerTypeOK
  <2>2. CASE /\ work[w] # None
             /\ channel' = [channel EXCEPT ![w] =
                              Append(@, [req |-> work[w], value |-> "disconnected"])]
    <3>1. [req |-> work[w], value |-> "disconnected"] \in Answers
      BY <2>2 DEF WorkerTypeOK, Answers, Replies
    <3>2. Append(channel[w], [req |-> work[w], value |-> "disconnected"]) \in Seq(Answers)
      BY <3>1 DEF WorkerTypeOK
    <3> QED
      BY <2>2, <3>2 DEF WorkerTypeOK
  <2> QED
    BY <2>1, <2>2 DEF Signal, Interrupt
<1> QED
  BY <1>1, <1>2, <1>3 DEF Signal, WorkerTypeOK

\* terminateWorker keeps the transport's types.
LEMMA TerminateType ==
    ASSUME WorkerTypeOK, NEW w \in Workers \cup {None}, Terminate(w)
    PROVE  WorkerTypeOK'
<1>1. CASE w = None
  BY <1>1 DEF Terminate, WorkerTypeOK, workerVars
<1>2. CASE w # None
  <2>1. w \in Workers /\ Signal(w)
    BY <1>2 DEF Terminate
  <2> QED
    BY <1>2, <2>1, SignalType DEF Terminate, WorkerTypeOK
<1> QED
  BY <1>1, <1>2

\* request() keeps the transport's types.
LEMMA RequestType ==
    ASSUME WorkerTypeOK, NEW o \in Ops, NEW k \in Kinds, Request(o, k)
    PROVE  WorkerTypeOK'
<1>1. CASE Usable(child)
  <2>1. child \in Workers
    BY <1>1 DEF Usable, WorkerTypeOK
  <2>2. [op |-> o, kind |-> k, worker |-> child] \in Requests
    BY <2>1 DEF Requests
  <2>3. pending' \subseteq Requests
    BY <1>1, <2>2 DEF Request, WorkerTypeOK
  <2>4. work' \in [Workers -> Requests \cup {None}]
    BY <1>1, <2>1, <2>2 DEF Request, WorkerTypeOK
  <2> QED
    BY <1>1, <2>3, <2>4 DEF Request, WorkerTypeOK
<1>2. CASE ~Usable(child)
  BY <1>2 DEF Request, WorkerTypeOK, Replies, workerVars
<1> QED
  BY <1>1, <1>2

\* The exit of a process, however it came about, keeps them.
LEMMA GoneType ==
    ASSUME WorkerTypeOK, NEW w \in Workers, Gone(w)
    PROVE  WorkerTypeOK'
<1>1. reply' \in Replies \cup {None}
  BY DEF Gone, WorkerTypeOK, Replies
<1>2. proc' \in [Workers -> Lives]
  BY DEF Gone, WorkerTypeOK, Lives
<1> QED
  BY <1>1, <1>2 DEF Gone, WorkerTypeOK

\* A continuation that sends nothing keeps them.
LEMMA ConsumedType ==
    ASSUME WorkerTypeOK, Consumed
    PROVE  WorkerTypeOK'
BY DEF WorkerTypeOK, Consumed, workerVars

\* fail() keeps the types of the registry and of the running task.
LEMMA TerminalType ==
    ASSUME RegistryTypeOK, TaskTypeOK, NEW o \in Ops, NEW r \in Outcomes, Terminal(o, r)
    PROVE  RegistryTypeOK' /\ TaskTypeOK'
<1>1. [Idle EXCEPT !.step = "persist"] \in Routines
  BY DEF Idle, Routines, Steps, Goals
<1> QED
  BY <1>1 DEF Terminal, RegistryTypeOK, TaskTypeOK, Phases

LEMMA LeaveType ==
    ASSUME TaskTypeOK, NEW o \in Ops, NEW r \in Outcomes \cup {None, "rejected"},
           queue # <<>>, Leave(o, r)
    PROVE  /\ queue' \in Seq(Ops \cup {Close})
           /\ run' \in Routines
           /\ returned' \in [Ops -> Outcomes \cup {None, "rejected"}]
<1>1. Idle \in Routines
  BY DEF Idle, Routines, Steps, Goals
<1>2. Tail(queue) \in Seq(Ops \cup {Close})
  BY DEF TaskTypeOK
<1> QED
  BY <1>1, <1>2 DEF Leave, TaskTypeOK

LEMMA RejectedType ==
    ASSUME RegistryTypeOK, TaskTypeOK, NEW o \in Ops, queue # <<>>, Rejected(o)
    PROVE  RegistryTypeOK' /\ TaskTypeOK'
<1>1. RegistryTypeOK'
  BY DEF Rejected, RegistryTypeOK, registryVars
<1>2. TaskTypeOK'
  BY LeaveType DEF Rejected, TaskTypeOK
<1> QED
  BY <1>1, <1>2

LEMMA FailType ==
    ASSUME RegistryTypeOK, TaskTypeOK, NEW o \in Ops, NEW code, queue # <<>>, Fail(o, code)
    PROVE  RegistryTypeOK' /\ TaskTypeOK'
BY TerminalType, RejectedType DEF Fail, Outcomes

\* Replacing a worker keeps the types of the transport and of the routine.
LEMMA ReplaceType ==
    ASSUME WorkerTypeOK, NEW goal \in Goals, NEW code \in Codes \cup {None},
           NEW w \in Workers \cup {None}, Replace(goal, code, w)
    PROVE  WorkerTypeOK' /\ run' \in Routines
<1>1. WorkerTypeOK'
  BY TerminateType DEF Replace
<1>2. run' \in Routines
  BY DEF Replace, Routines, Steps
<1> QED
  BY <1>1, <1>2

\* Both catch clauses keep every type.
LEMMA CatchType ==
    ASSUME TypeOK, NEW o \in Ops, NEW code \in Codes \cup {None}, queue # <<>>,
           Catch(o, code)
    PROVE  TypeOK'
<1>1. CASE Fail(o, code) /\ Consumed /\ UNCHANGED envVars
  BY <1>1, FailType, ConsumedType DEF TypeOK, EnvTypeOK, envVars
<1>2. ASSUME NEW goal \in {"abandon", "replace"},
             Replace(goal, code, child),
             \/ EnterPhase(o, "worker_result_received")
             \/ UNCHANGED phase,
             UNCHANGED <<memory, stamp, command, outcome, journal,
                         queue, returned, closing, closed, envVars>>
      PROVE  TypeOK'
  <2>1. goal \in Goals /\ child \in Workers \cup {None}
    BY DEF Goals, TypeOK, WorkerTypeOK
  <2>2. WorkerTypeOK' /\ run' \in Routines
    BY <1>2, <2>1, ReplaceType DEF TypeOK
  <2>3. TaskTypeOK' /\ EnvTypeOK'
    BY <1>2, <2>2 DEF TypeOK, TaskTypeOK, EnvTypeOK, envVars
  <2>4. RegistryTypeOK'
    BY <1>2 DEF TypeOK, RegistryTypeOK, EnterPhase, Phases
  <2> QED
    BY <2>2, <2>3, <2>4 DEF TypeOK
<1> QED
  BY <1>1, <1>2 DEF Catch

LEMMA EnsureFailsType ==
    ASSUME TypeOK, NEW o \in Ops, NEW code \in Codes \cup {None}, queue # <<>>,
           EnsureFails(o, code)
    PROVE  TypeOK'
<1>1. CASE Fail(o, run.code) /\ Consumed /\ UNCHANGED envVars
  BY <1>1, FailType, ConsumedType DEF TypeOK, EnvTypeOK, envVars
<1>2. CASE Catch(o, code)
  BY <1>2, CatchType
<1> QED
  BY <1>1, <1>2 DEF EnsureFails

\* A step that goes on within a task keeps the rest as it is.
LEMMA InternalType ==
    ASSUME TypeOK, Internal, run' \in Routines, WorkerTypeOK'
    PROVE  TypeOK'
BY DEF TypeOK, Internal, RegistryTypeOK, TaskTypeOK, EnvTypeOK, registryVars, envVars

LEMMA GoToType ==
    ASSUME TaskTypeOK, NEW s \in Steps, GoTo(s)
    PROVE  run' \in Routines
BY DEF GoTo, TaskTypeOK, Routines

(***************************************************************************)
(* Type correctness.                                                       *)
(***************************************************************************)

LEMMA InitType == Init => TypeOK
<1> SUFFICES ASSUME Init PROVE TypeOK
  OBVIOUS
<1>1. RegistryTypeOK
  BY DEF Init, RegistryTypeOK, Phases
<1>2. TaskTypeOK
  <2>1. queue = <<>> /\ run \in Routines
    BY DEF Init, Idle, Routines, Steps, Goals
  <2>2. <<>> \in Seq(Ops \cup {Close})
    OBVIOUS
  <2> QED
    BY <2>1, <2>2 DEF Init, TaskTypeOK
<1>3. WorkerTypeOK
  BY DEF Init, WorkerTypeOK, Lives
<1>4. EnvTypeOK
  <2>1. 0 \in 0 .. MaxFaults
    BY SupervisorAssumption DEF SupervisorAssumption
  <2> QED
    BY <2>1 DEF Init, EnvTypeOK
<1> QED
  BY <1>1, <1>2, <1>3, <1>4 DEF TypeOK

LEMMA StutterType ==
    ASSUME TypeOK, UNCHANGED vars
    PROVE  TypeOK'
BY DEF TypeOK, RegistryTypeOK, TaskTypeOK, WorkerTypeOK, EnvTypeOK, vars,
       registryVars, taskVars, transportVars, workerVars, envVars

\* Calls of the MCP layer change the registry and append to the queue.
LEMMA CallsType ==
    ASSUME TypeOK, Calls
    PROVE  TypeOK'
<1> USE DEF TypeOK, taskVars, transportVars, workerVars, envVars
<1>0. ASSUME NEW t \in Ops \cup {Close}, Enqueue(t)
      PROVE  queue' \in Seq(Ops \cup {Close})
  BY <1>0 DEF Enqueue, TaskTypeOK
<1>1. ASSUME NEW o \in Ops, NEW c \in Commands, Reserve(o, c) PROVE TypeOK'
  <2>1. RegistryTypeOK'
    BY <1>1, AddRecordType DEF Reserve, RegistryTypeOK, Phases
  <2> QED
    BY <1>1, <2>1 DEF Reserve, TaskTypeOK, WorkerTypeOK, EnvTypeOK
<1>2. ASSUME NEW o \in Ops, NEW c \in Commands, BeginNew(o, c) PROVE TypeOK'
  <2>1. RegistryTypeOK'
    BY <1>2, AddRecordType DEF BeginNew, RegistryTypeOK, Phases
  <2> QED
    BY <1>0, <1>2, <2>1 DEF BeginNew, TaskTypeOK, WorkerTypeOK, EnvTypeOK
<1>3. ASSUME NEW o \in Ops, BeginReserved(o) PROVE TypeOK'
  <2>1. RegistryTypeOK'
    BY <1>3, PruneShrinks DEF BeginReserved, RegistryTypeOK, Phases
  <2> QED
    BY <1>0, <1>3, <2>1 DEF BeginReserved, TaskTypeOK, WorkerTypeOK, EnvTypeOK
<1>4. ASSUME NEW o \in Ops, ResponseCreated(o) PROVE TypeOK'
  <2>1. JournalOutcome(o) \in Outcomes \cup {None}
    BY DEF JournalOutcome, RegistryTypeOK, Outcomes
  <2>2. RegistryTypeOK'
    BY <1>4, <2>1 DEF ResponseCreated, AppendJournal, EnterPhase, RegistryTypeOK, Phases
  <2> QED
    BY <1>4, <2>2 DEF ResponseCreated, TaskTypeOK, WorkerTypeOK, EnvTypeOK
<1>5. CASE Query
  <2>1. RegistryTypeOK'
    BY <1>5, PruneShrinks DEF Query, RegistryTypeOK
  <2> QED
    BY <1>5, <2>1 DEF Query, TaskTypeOK, WorkerTypeOK, EnvTypeOK
<1>6. CASE RequestClose
  BY <1>0, <1>6 DEF RequestClose, RegistryTypeOK, TaskTypeOK, WorkerTypeOK, EnvTypeOK,
                    registryVars
<1> QED
  BY <1>1, <1>2, <1>3, <1>4, <1>5, <1>6 DEF Calls

\* Steps of an operation that fork, reuse, start or give up a worker.
LEMMA EnsureType ==
    ASSUME TypeOK, NEW o \in Ops,
           \/ EnsureClosing(o) \/ EnsureReuse(o) \/ (\E w \in Workers : EnsureFork(o, w))
           \/ InitializeOk(o) \/ InitializeFails(o) \/ InitializeGivenUp(o)
           \/ ReplacedWorkerExited(o)
    PROVE  TypeOK'
<1>0. run \in Routines /\ WorkerTypeOK
  BY DEF TypeOK, TaskTypeOK
<1>1. CASE EnsureClosing(o)
  BY <1>1, EnsureFailsType DEF EnsureClosing, At, Running, Codes
<1>2. CASE EnsureReuse(o)
  BY <1>0, <1>2, GoToType, ConsumedType, InternalType DEF EnsureReuse, Steps, TypeOK
<1>3. ASSUME NEW w \in Workers, EnsureFork(o, w) PROVE TypeOK'
  <2>1. [op |-> o, kind |-> "initialize", worker |-> w] \in Requests
    BY DEF Requests, Kinds
  <2>2. WorkerTypeOK'
    <3>1. channel' \in [Workers -> Seq(Answers)]
      <4>1. <<>> \in Seq(Answers)
        OBVIOUS
      <4> QED
        BY <1>0, <1>3, <4>1 DEF EnsureFork, WorkerTypeOK
    <3>2. work' \in [Workers -> Requests \cup {None}] /\ pending' \subseteq Requests
      BY <1>0, <1>3, <2>1 DEF EnsureFork, WorkerTypeOK
    <3>3. proc' \in [Workers -> Lives]
      BY <1>0, <1>3 DEF EnsureFork, WorkerTypeOK, Lives
    <3> QED
      BY <1>0, <1>3, <3>1, <3>2, <3>3 DEF EnsureFork, WorkerTypeOK
  <2>3. run' \in Routines
    BY <1>0, <1>3 DEF EnsureFork, Routines, Steps
  <2> QED
    BY <1>3, <2>2, <2>3, InternalType DEF EnsureFork
<1>4. CASE InitializeOk(o)
  <2>1. run' \in Routines
    BY <1>0, <1>4 DEF InitializeOk, Routines, Steps
  <2> QED
    BY <1>0, <1>4, <2>1, ConsumedType, InternalType DEF InitializeOk
<1>5. CASE InitializeFails(o)
  <2>1. run' \in Routines
    BY <1>0, <1>5 DEF InitializeFails, Routines, Steps, Codes
  <2>2. run.target \in Workers \cup {None}
    BY <1>0 DEF Routines
  <2> QED
    BY <1>0, <1>5, <2>1, <2>2, TerminateType, InternalType DEF InitializeFails
<1>6. CASE InitializeGivenUp(o)
  <2>1. run.code \in Codes \cup {None}
    BY <1>0 DEF Routines
  <2> QED
    BY <1>6, <2>1, EnsureFailsType DEF InitializeGivenUp, At, Running
<1>7. CASE ReplacedWorkerExited(o)
  <2>1. CASE Fail(o, run.code) /\ Consumed /\ UNCHANGED envVars
    BY <1>7, <2>1, FailType, ConsumedType
       DEF ReplacedWorkerExited, At, Running, TypeOK, EnvTypeOK, envVars
  <2>2. CASE /\ run' = [run EXCEPT !.step = "ensure", !.target = None]
             /\ Internal
             /\ Consumed
    <3>1. run' \in Routines
      BY <1>0, <2>2 DEF Routines, Steps
    <3> QED
      BY <1>0, <2>2, <3>1, ConsumedType, InternalType
  <2> QED
    BY <1>7, <2>1, <2>2 DEF ReplacedWorkerExited
<1> QED
  BY <1>1, <1>2, <1>3, <1>4, <1>5, <1>6, <1>7

\* Steps of execute outside ensureWorker.
LEMMA ExecuteType ==
    ASSUME TypeOK, NEW o \in Ops,
           \/ StartExecute(o) \/ Preflight(o) \/ Reload(o) \/ Reloaded(o)
           \/ ReloadStarted(o) \/ Dispatch(o) \/ Recovered(o) \/ Succeed(o)
           \/ CallFails(o) \/ Persist(o)
    PROVE  TypeOK'
<1>0. run \in Routines /\ WorkerTypeOK
  BY DEF TypeOK, TaskTypeOK
<1>1. CASE StartExecute(o)
  <2>1. CASE Rejected(o)
    BY <1>0, <1>1, <2>1, RejectedType, ConsumedType
       DEF StartExecute, At, Running, TypeOK, EnvTypeOK, envVars
  <2>2. CASE ~Rejected(o)
    <3>1. run' \in Routines /\ WorkerTypeOK'
      BY <1>0, <1>1, <2>2, GoToType, ConsumedType DEF StartExecute, Steps, TypeOK
    <3>2. RegistryTypeOK'
      BY <1>1, <2>2 DEF StartExecute, TypeOK, RegistryTypeOK, EnterPhase, Phases
    <3> QED
      BY <1>1, <2>2, <3>1, <3>2
         DEF StartExecute, TypeOK, TaskTypeOK, EnvTypeOK, envVars
  <2> QED
    BY <2>1, <2>2
<1>2. CASE Preflight(o)
  <2>1. CASE Catch(o, "failed")
    BY <1>2, <2>1, CatchType DEF Preflight, At, Running, Codes
  <2>2. CASE ~Catch(o, "failed")
    <3>1. run' \in Routines
      BY <1>2, <2>2, GoToType DEF Preflight, Steps, TypeOK
    <3> QED
      BY <1>0, <1>2, <2>2, <3>1, ConsumedType, InternalType DEF Preflight
  <2> QED
    BY <2>1, <2>2
<1>3. CASE Reload(o)
  <2>1. "reload" \in Goals /\ child \in Workers \cup {None}
    BY <1>0 DEF Goals, WorkerTypeOK
  <2> QED
    BY <1>0, <1>3, <2>1, ReplaceType, InternalType DEF Reload
<1>4. CASE Reloaded(o)
  <2>1. run' \in Routines
    BY <1>0, <1>4 DEF Reloaded, GoTo, Routines, Steps, Goals
  <2>2. WorkerTypeOK'
    BY <1>0, <1>4, RequestType, ConsumedType DEF Reloaded, Kinds
  <2> QED
    BY <1>4, <2>1, <2>2, InternalType DEF Reloaded
<1>5. CASE ReloadStarted(o)
  <2>1. run' \in Routines
    BY <1>0, <1>5 DEF ReloadStarted, Routines, Steps, Goals
  <2> QED
    BY <1>0, <1>5, <2>1, ConsumedType, InternalType DEF ReloadStarted
<1>6. CASE Dispatch(o)
  <2>1. CASE Rejected(o) /\ Consumed
    BY <1>0, <1>6, <2>1, RejectedType, ConsumedType
       DEF Dispatch, At, Running, TypeOK, EnvTypeOK, envVars
  <2>2. CASE ~(Rejected(o) /\ Consumed)
    <3>1. run' \in Routines
      BY <1>6, <2>2, GoToType DEF Dispatch, Steps, TypeOK
    <3>2. WorkerTypeOK'
      BY <1>0, <1>6, <2>2, RequestType DEF Dispatch, Kinds
    <3>3. RegistryTypeOK'
      BY <1>6, <2>2 DEF Dispatch, TypeOK, RegistryTypeOK, EnterPhase, Phases
    <3> QED
      BY <1>6, <2>2, <3>1, <3>2, <3>3 DEF Dispatch, TypeOK, TaskTypeOK, EnvTypeOK, envVars
  <2> QED
    BY <2>1, <2>2
<1>7. CASE Recovered(o)
  BY <1>7, FailType, ConsumedType
     DEF Recovered, At, Running, TypeOK, EnvTypeOK, envVars
<1>8. CASE Succeed(o)
  <2>1. RegistryTypeOK' /\ TaskTypeOK'
    BY <1>8, TerminalType, RejectedType DEF Succeed, At, Running, TypeOK, Outcomes
  <2>2. EnvTypeOK'
    BY <1>8 DEF Succeed, TypeOK, EnvTypeOK, CapturedAuth
  <2> QED
    BY <1>0, <1>8, <2>1, <2>2, ConsumedType DEF Succeed, TypeOK
<1>9. CASE CallFails(o)
  <2>1. (IF reply \in HardRecovery THEN reply ELSE "failed") \in Codes \cup {None}
    BY DEF HardRecovery, Codes
  <2> QED
    BY <1>9, <2>1, CatchType DEF CallFails, At, Running
<1>10. CASE Persist(o)
  <2>1. JournalOutcome(o) \in Outcomes \cup {None}
    BY DEF JournalOutcome, TypeOK, RegistryTypeOK, Outcomes
  <2>2. RegistryTypeOK'
    BY <1>10, <2>1 DEF Persist, AppendJournal, TypeOK, RegistryTypeOK, EnterPhase, Phases
  <2>3. TaskTypeOK'
    <3>1. outcome[o] \in Outcomes \cup {None, "rejected"}
      BY DEF TypeOK, RegistryTypeOK
    <3> QED
      BY <1>10, <3>1, LeaveType DEF Persist, At, Running, TypeOK, TaskTypeOK
  <2> QED
    BY <1>10, <2>2, <2>3
       DEF Persist, TypeOK, WorkerTypeOK, EnvTypeOK, transportVars, workerVars, envVars
<1> QED
  BY <1>1, <1>2, <1>3, <1>4, <1>5, <1>6, <1>7, <1>8, <1>9, <1>10

\* Steps of forceRecover.
LEMMA RecoverType ==
    ASSUME TypeOK, NEW o \in Ops,
           \/ StartRecover(o) \/ StopForRecover(o) \/ RecoveredWorker(o) \/ Reopened(o)
           \/ RecoverSucceeds(o)
    PROVE  TypeOK'
<1>0. run \in Routines /\ WorkerTypeOK
  BY DEF TypeOK, TaskTypeOK
<1>1. CASE StartRecover(o)
  <2>1. CASE Rejected(o) \/ Terminal(o, "failed")
    BY <1>0, <1>1, <2>1, RejectedType, TerminalType, ConsumedType
       DEF StartRecover, At, Running, TypeOK, EnvTypeOK, envVars, Outcomes
  <2>2. CASE /\ EnterPhase(o, "worker_preflight")
             /\ GoTo("preflight")
             /\ UNCHANGED <<memory, stamp, command, outcome, journal,
                            queue, returned, closing, closed>>
    <3>1. run' \in Routines /\ WorkerTypeOK'
      BY <1>0, <1>1, <2>2, GoToType, ConsumedType DEF StartRecover, Steps, TypeOK
    <3>2. RegistryTypeOK'
      BY <2>2 DEF TypeOK, RegistryTypeOK, EnterPhase, Phases
    <3> QED
      BY <1>1, <2>2, <3>1, <3>2 DEF StartRecover, TypeOK, TaskTypeOK, EnvTypeOK, envVars
  <2> QED
    BY <1>1, <2>1, <2>2 DEF StartRecover
<1>2. CASE StopForRecover(o)
  <2>1. CASE Catch(o, "failed")
    BY <1>2, <2>1, CatchType DEF StopForRecover, At, Running, Codes
  <2>2. CASE /\ EnterPhase(o, "worker_request_sent")
             /\ Replace("recover", None, child)
             /\ UNCHANGED <<memory, stamp, command, outcome, journal,
                            queue, returned, closing, closed, envVars>>
    <3>1. "recover" \in Goals /\ child \in Workers \cup {None}
      BY <1>0 DEF Goals, WorkerTypeOK
    <3>2. WorkerTypeOK' /\ run' \in Routines
      BY <1>0, <2>2, <3>1, ReplaceType
    <3>3. RegistryTypeOK'
      BY <2>2 DEF TypeOK, RegistryTypeOK, EnterPhase, Phases
    <3> QED
      BY <2>2, <3>2, <3>3 DEF TypeOK, TaskTypeOK, EnvTypeOK, envVars
  <2> QED
    BY <1>2, <2>1, <2>2 DEF StopForRecover
<1>3. CASE RecoveredWorker(o)
  <2>1. run' \in Routines
    BY <1>0, <1>3 DEF RecoveredWorker, GoTo, Routines, Steps, Goals
  <2>2. WorkerTypeOK'
    BY <1>0, <1>3, RequestType DEF RecoveredWorker, Kinds
  <2> QED
    BY <1>3, <2>1, <2>2, InternalType DEF RecoveredWorker
<1>4. CASE Reopened(o)
  <2>1. run' \in Routines
    BY <1>0, <1>4 DEF Reopened, Routines, Goals
  <2>2. WorkerTypeOK'
    BY <1>0, <1>4, RequestType DEF Reopened, Kinds
  <2> QED
    BY <1>4, <2>1, <2>2, InternalType DEF Reopened
<1>5. CASE RecoverSucceeds(o)
  <2>1. CASE Terminal(o, "succeeded") /\ Consumed /\ UNCHANGED envVars
    BY <1>0, <2>1, TerminalType, ConsumedType DEF TypeOK, EnvTypeOK, envVars, Outcomes
  <2>2. CASE Catch(o, "failed")
    BY <1>5, <2>2, CatchType DEF RecoverSucceeds, At, Running, Codes
  <2> QED
    BY <1>5, <2>1, <2>2 DEF RecoverSucceeds
<1> QED
  BY <1>1, <1>2, <1>3, <1>4, <1>5

\* The steps of close().
LEMMA CloseType ==
    ASSUME TypeOK, StartClose \/ CloseDone
    PROVE  TypeOK'
<1>1. CASE StartClose
  <2>1. "close" \in Goals /\ child \in Workers \cup {None}
    BY DEF Goals, TypeOK, WorkerTypeOK
  <2>2. WorkerTypeOK' /\ run' \in Routines
    BY <1>1, <2>1, ReplaceType DEF StartClose, TypeOK
  <2> QED
    BY <1>1, <2>2
       DEF StartClose, TypeOK, RegistryTypeOK, TaskTypeOK, EnvTypeOK, registryVars, envVars
<1>2. CASE CloseDone
  <2>1. Idle \in Routines
    BY DEF Idle, Routines, Steps, Goals
  <2>2. Tail(queue) \in Seq(Ops \cup {Close})
    BY <1>2 DEF CloseDone, CloseRuns, TypeOK, TaskTypeOK
  <2> QED
    BY <1>2, <2>1, <2>2
       DEF CloseDone, TypeOK, RegistryTypeOK, TaskTypeOK, WorkerTypeOK, EnvTypeOK,
           registryVars, transportVars, workerVars, envVars
<1> QED
  BY <1>1, <1>2

\* Steps of worker processes, their channel, timers and the kernel.
LEMMA GoneKeepsRest ==
    ASSUME TypeOK, NEW w \in Workers, Gone(w), faults' \in 0 .. MaxFaults
    PROVE  TypeOK'
<1>1. WorkerTypeOK'
  BY GoneType DEF TypeOK
<1> QED
  BY <1>1 DEF Gone, TypeOK, RegistryTypeOK, TaskTypeOK, EnvTypeOK, registryVars, taskVars

LEMMA FaultType ==
    ASSUME EnvTypeOK, Fault
    PROVE  faults' \in 0 .. MaxFaults
BY SupervisorAssumption DEF SupervisorAssumption, EnvTypeOK, Fault

LEMMA TimerType ==
    ASSUME TypeOK, KillAfterGrace \/ (\E r \in pending : Timeout(r))
    PROVE  TypeOK'
<1>1. CASE KillAfterGrace
  <2>1. run.target \in Workers
    BY <1>1 DEF KillAfterGrace, Exited, TypeOK, TaskTypeOK, Routines
  <2> QED
    BY <1>1, <2>1, GoneKeepsRest DEF KillAfterGrace, TypeOK, EnvTypeOK
<1>2. ASSUME NEW r \in pending, Timeout(r) PROVE TypeOK'
  <2>1. WorkerTypeOK'
    BY <1>2 DEF Timeout, TypeOK, WorkerTypeOK, Replies, workerVars
  <2> QED
    BY <1>2, <2>1
       DEF Timeout, TypeOK, RegistryTypeOK, TaskTypeOK, EnvTypeOK,
           registryVars, taskVars, envVars
<1> QED
  BY <1>1, <1>2

LEMMA WorkerStepType ==
    ASSUME TypeOK, NEW w \in Workers, WorkerStep(w)
    PROVE  TypeOK'
<1>0. WorkerTypeOK /\ EnvTypeOK
  BY DEF TypeOK
<1>1. ASSUME NEW v \in {"ok", "error", "mismatch"}, Handle(w, v) PROVE TypeOK'
  <2>1. work[w] \in Requests
    BY <1>0, <1>1 DEF Handle, WorkerTypeOK
  <2>2. work[w].op \in Ops
    BY <2>1 DEF Requests
  <2>3. effects' \in [Ops -> Nat]
    <3>1. effects[work[w].op] + 1 \in Nat
      BY <1>0, <2>2 DEF WorkerTypeOK
    <3>2. \/ effects' = [effects EXCEPT ![work[w].op] = @ + 1]
          \/ UNCHANGED effects
      BY <1>1 DEF Handle, CarryOut
    <3> QED
      BY <1>0, <3>1, <3>2 DEF WorkerTypeOK
  <2>4. handoff' \in BOOLEAN
    BY <1>0, <1>1 DEF Handle, CarryOut, EnvTypeOK
  <2>5. work' \in [Workers -> Requests \cup {None}]
    BY <1>0, <1>1 DEF Handle, WorkerTypeOK
  <2>6. channel' \in [Workers -> Seq(Answers)]
    <3>1. [req |-> work[w], value |-> v] \in Answers
      BY <2>1 DEF Answers, Replies
    <3>2. Append(channel[w], [req |-> work[w], value |-> v]) \in Seq(Answers)
      BY <1>0, <3>1 DEF WorkerTypeOK
    <3> QED
      BY <1>0, <1>1, <3>2 DEF Handle, WorkerTypeOK
  <2> QED
    BY <1>1, <2>3, <2>4, <2>5, <2>6
       DEF Handle, TypeOK, RegistryTypeOK, TaskTypeOK, WorkerTypeOK, EnvTypeOK,
           registryVars, taskVars, transportVars
<1>2. CASE Deliver(w)
  <2>1. Head(channel[w]) \in Answers /\ Tail(channel[w]) \in Seq(Answers)
    BY <1>0, <1>2 DEF Deliver, WorkerTypeOK
  <2>2. Head(channel[w]).value \in Replies
    BY <2>1 DEF Answers
  <2>3. pending' \subseteq Requests /\ reply' \in Replies \cup {None}
    BY <1>0, <1>2, <2>2 DEF Deliver, WorkerTypeOK
  <2>4. channel' \in [Workers -> Seq(Answers)]
    BY <1>0, <1>2, <2>1 DEF Deliver, WorkerTypeOK
  <2> QED
    BY <1>2, <2>3, <2>4
       DEF Deliver, TypeOK, RegistryTypeOK, TaskTypeOK, WorkerTypeOK, EnvTypeOK,
           registryVars, taskVars, envVars
<1>3. CASE ExternalTerm(w)
  BY <1>0, <1>3, SignalType, FaultType
     DEF ExternalTerm, TypeOK, RegistryTypeOK, TaskTypeOK, WorkerTypeOK, EnvTypeOK,
         registryVars, taskVars, transportVars
<1>4. CASE Detach(w)
  <2>1. proc' \in [Workers -> Lives]
    BY <1>0, <1>4 DEF Detach, WorkerTypeOK, Lives
  <2> QED
    BY <1>4, <2>1
       DEF Detach, TypeOK, RegistryTypeOK, TaskTypeOK, WorkerTypeOK, EnvTypeOK,
           registryVars, taskVars, transportVars, envVars
<1>5. CASE Exit(w)
  BY <1>0, <1>5, GoneKeepsRest DEF Exit, EnvTypeOK
<1>6. CASE Crash(w)
  BY <1>0, <1>6, GoneKeepsRest, FaultType DEF Crash
<1> QED
  BY <1>1, <1>2, <1>3, <1>4, <1>5, <1>6 DEF WorkerStep

\* Every variable keeps its type, whatever the sizes of the instance.
THEOREM TypeCorrect == Spec => []TypeOK
<1>1. TypeOK /\ [Next]_vars => TypeOK'
  <2> SUFFICES ASSUME TypeOK, [Next]_vars PROVE TypeOK'
    OBVIOUS
  <2>1. CASE Next
    <3>1. CASE QueueStep
      BY <3>1, EnsureType, ExecuteType, RecoverType, CloseType DEF QueueStep, OperationStep
    <3> QED
      BY <2>1, <3>1, CallsType, TimerType, WorkerStepType DEF Next
  <2>2. CASE UNCHANGED vars
    BY <2>2, StutterType
  <2> QED
    BY <2>1, <2>2
<1> QED
  BY <1>1, InitType, PTL DEF Spec

(***************************************************************************)
(* No worker runs behind the supervisor's back.  The invariant is inductive *)
(* once the types are known: a process is forked only when the child is no *)
(* longer running, and terminateWorker signals what it forgets.            *)
(***************************************************************************)

\* What terminateWorker forgets it has told to stop.
LEMMA TerminateLeavesNoOrphan ==
    ASSUME WorkerTypeOK, NoOrphanWorker, NEW w \in Workers \cup {None}, Terminate(w)
    PROVE  NoOrphanWorker'
<1>1. CASE w = None
  BY <1>1 DEF Terminate, NoOrphanWorker, workerVars
<1>2. CASE w # None
  <2>1. /\ proc'[w] # "up"
        /\ \A v \in Workers \ {w} : proc'[v] = proc[v]
    BY <1>2 DEF Terminate, Signal, WorkerTypeOK
  <2> QED
    BY <1>2, <2>1 DEF Terminate, NoOrphanWorker, WorkerTypeOK
<1> QED
  BY <1>1, <1>2

\* A request changes neither the child nor the life of a process.
LEMMA RequestLeavesNoOrphan ==
    ASSUME NoOrphanWorker, NEW o \in Ops, NEW k \in Kinds, Request(o, k)
    PROVE  NoOrphanWorker'
BY DEF Request, NoOrphanWorker, workerVars

\* Neither does a continuation that sends nothing.
LEMMA ConsumedLeavesNoOrphan ==
    ASSUME NoOrphanWorker, Consumed
    PROVE  NoOrphanWorker'
BY DEF Consumed, NoOrphanWorker, workerVars

LEMMA GoneLeavesNoOrphan ==
    ASSUME WorkerTypeOK, NoOrphanWorker, NEW w \in Workers, Gone(w)
    PROVE  NoOrphanWorker'
BY DEF Gone, NoOrphanWorker, WorkerTypeOK

LEMMA CatchLeavesNoOrphan ==
    ASSUME TypeOK, NoOrphanWorker, NEW o \in Ops, NEW code,
           Catch(o, code) \/ EnsureFails(o, code)
    PROVE  NoOrphanWorker'
<1>1. child \in Workers \cup {None} /\ WorkerTypeOK
  BY DEF TypeOK, WorkerTypeOK
<1> QED
  BY <1>1, TerminateLeavesNoOrphan, ConsumedLeavesNoOrphan DEF Catch, EnsureFails, Replace

LEMMA OperationLeavesNoOrphan ==
    ASSUME TypeOK, NoOrphanWorker, NEW o \in Ops, OperationStep(o)
    PROVE  NoOrphanWorker'
<1>1. child \in Workers \cup {None} /\ WorkerTypeOK
  BY DEF TypeOK, WorkerTypeOK
<1>2. run.target \in Workers \cup {None}
  BY DEF TypeOK, TaskTypeOK, Routines
<1>3. ASSUME NEW w \in Workers, EnsureFork(o, w) PROVE NoOrphanWorker'
  <2>1. \A v \in Workers : proc[v] # "up"
    BY <1>3, SupervisorAssumption
       DEF EnsureFork, Usable, NoOrphanWorker, SupervisorAssumption
  <2> QED
    BY <1>1, <1>3, <2>1 DEF EnsureFork, NoOrphanWorker, WorkerTypeOK
<1>4. CASE InitializeFails(o)
  BY <1>1, <1>2, <1>4, TerminateLeavesNoOrphan DEF InitializeFails
<1>5. CASE \/ StartExecute(o) \/ ReloadStarted(o) \/ EnsureReuse(o) \/ StartRecover(o)
           \/ InitializeOk(o) \/ ReplacedWorkerExited(o) \/ Succeed(o) \/ Recovered(o)
  BY <1>5, ConsumedLeavesNoOrphan
     DEF StartExecute, ReloadStarted, EnsureReuse, StartRecover, InitializeOk,
         ReplacedWorkerExited, Succeed, Recovered
<1>6. CASE Reload(o) \/ StopForRecover(o) \/ Preflight(o)
  BY <1>1, <1>6, TerminateLeavesNoOrphan, ConsumedLeavesNoOrphan, CatchLeavesNoOrphan
     DEF Reload, StopForRecover, Preflight, Replace
<1>7. CASE Reloaded(o) \/ Dispatch(o) \/ RecoveredWorker(o) \/ Reopened(o)
  BY <1>7, RequestLeavesNoOrphan, ConsumedLeavesNoOrphan
     DEF Reloaded, Dispatch, RecoveredWorker, Reopened, Kinds
<1>8. CASE \/ EnsureClosing(o) \/ InitializeGivenUp(o) \/ CallFails(o)
           \/ RecoverSucceeds(o)
  BY <1>8, CatchLeavesNoOrphan, ConsumedLeavesNoOrphan
     DEF EnsureClosing, InitializeGivenUp, CallFails, RecoverSucceeds
<1>9. CASE Persist(o)
  BY <1>9 DEF Persist, NoOrphanWorker, transportVars, workerVars
<1> QED
  BY <1>3, <1>4, <1>5, <1>6, <1>7, <1>8, <1>9 DEF OperationStep

LEMMA NextLeavesNoOrphan ==
    ASSUME TypeOK, NoOrphanWorker, [Next]_vars
    PROVE  NoOrphanWorker'
<1>0. WorkerTypeOK
  BY DEF TypeOK
<1>1. CASE Calls
  BY <1>1 DEF Calls, Reserve, BeginNew, BeginReserved, ResponseCreated, Query,
              RequestClose, NoOrphanWorker, transportVars, workerVars
<1>2. CASE QueueStep
  <2>1. CASE StartClose
    <3>1. child \in Workers \cup {None}
      BY DEF TypeOK, WorkerTypeOK
    <3> QED
      BY <1>0, <2>1, <3>1, TerminateLeavesNoOrphan DEF StartClose, Replace
  <2>2. CASE CloseDone
    BY <2>2 DEF CloseDone, NoOrphanWorker, transportVars, workerVars
  <2> QED
    BY <1>2, <2>1, <2>2, OperationLeavesNoOrphan DEF QueueStep
<1>3. CASE KillAfterGrace
  <2>1. run.target \in Workers
    BY <1>3 DEF KillAfterGrace, Exited, TypeOK, TaskTypeOK, Routines
  <2> QED
    BY <1>0, <1>3, <2>1, GoneLeavesNoOrphan DEF KillAfterGrace
<1>4. CASE \E r \in pending : Timeout(r)
  BY <1>4 DEF Timeout, NoOrphanWorker, workerVars
<1>5. ASSUME NEW w \in Workers, WorkerStep(w) PROVE NoOrphanWorker'
  <2>1. CASE Exit(w) \/ Crash(w)
    BY <1>0, <2>1, GoneLeavesNoOrphan DEF Exit, Crash
  <2>2. CASE ExternalTerm(w) \/ Detach(w)
    BY <1>0, <2>2
       DEF ExternalTerm, Signal, Detach, NoOrphanWorker, WorkerTypeOK, transportVars
  <2>3. CASE Deliver(w) \/ \E v \in {"ok", "error", "mismatch"} : Handle(w, v)
    BY <2>3 DEF Deliver, Handle, NoOrphanWorker, transportVars
  <2> QED
    BY <1>5, <2>1, <2>2, <2>3 DEF WorkerStep
<1>6. CASE UNCHANGED vars
  BY <1>6 DEF vars, NoOrphanWorker, transportVars, workerVars
<1> QED
  BY <1>1, <1>2, <1>3, <1>4, <1>5, <1>6 DEF Next

\* A worker process that has not been told to stop is always the current child.
THEOREM NoWorkerIsOrphaned == Spec => []NoOrphanWorker
<1>1. Init => NoOrphanWorker
  BY DEF Init, NoOrphanWorker
<1>2. TypeOK /\ NoOrphanWorker /\ [Next]_vars => NoOrphanWorker'
  BY NextLeavesNoOrphan
<1> QED
  BY <1>1, <1>2, TypeCorrect, PTL DEF Spec

(***************************************************************************)
(* close() is final.  What makes it so: the entry of close() is queued     *)
(* together with the closing flag, an idle queue has no routine in progress *)
(* (so the child that close() forgets is not one that a later step of an   *)
(* operation puts back), and no worker is forked once the flag is set.     *)
(***************************************************************************)

CloseQueuedWhenClosing == \A i \in 1 .. Len(queue) : queue[i] = Close => closing

IdleWhenEmpty == queue = <<>> => run.step = "wait"

CloseForgetsChild == CloseRuns /\ run.step = "exit" => child = None

ClosedHasNoChild == closed => closing /\ child = None

CloseInv == CloseQueuedWhenClosing /\ IdleWhenEmpty /\ CloseForgetsChild /\ ClosedHasNoChild

\* A step of an operation leaves close() alone: it goes on at the head of the
\* queue or leaves it idle, and takes a new child only before the closing flag.
LEMMA OperationShape ==
    ASSUME NEW o \in Ops, OperationStep(o)
    PROVE  /\ Running(o)
           /\ UNCHANGED <<closing, closed>>
           /\ queue' = queue \/ (queue' = Tail(queue) /\ run' = Idle)
           /\ child' \in {child, None} \/ ~closing
<1>1. ASSUME NEW code, Fail(o, code)
      PROVE  /\ UNCHANGED <<closing, closed>>
             /\ queue' = queue \/ (queue' = Tail(queue) /\ run' = Idle)
  BY <1>1 DEF Fail, Terminal, Rejected, Leave
<1>2. ASSUME NEW w, NEW k, Terminate(w) \/ Request(o, k) \/ Consumed
      PROVE  child' \in {child, None}
  BY <1>2 DEF Terminate, Request, Consumed
<1>3. ASSUME NEW code, Catch(o, code) \/ EnsureFails(o, code)
      PROVE  /\ UNCHANGED <<closing, closed>>
             /\ queue' = queue \/ (queue' = Tail(queue) /\ run' = Idle)
             /\ child' \in {child, None}
  BY <1>1, <1>2, <1>3 DEF Catch, EnsureFails, Replace
<1>4. ASSUME NEW w \in Workers, EnsureFork(o, w)
      PROVE  /\ Running(o) /\ UNCHANGED <<closing, closed>> /\ queue' = queue /\ ~closing
  BY <1>4 DEF EnsureFork, At, Internal
<1>5. CASE EnsureClosing(o) \/ InitializeGivenUp(o) \/ CallFails(o)
  BY <1>3, <1>5 DEF EnsureClosing, InitializeGivenUp, CallFails, At
<1>6. CASE EnsureReuse(o) \/ InitializeOk(o) \/ Preflight(o) \/ ReloadStarted(o)
  BY <1>2, <1>3, <1>6
     DEF EnsureReuse, InitializeOk, Preflight, ReloadStarted, At, Internal
<1>7. CASE InitializeFails(o) \/ Reload(o)
  BY <1>2, <1>7 DEF InitializeFails, Reload, Replace, At, Internal
<1>8. CASE Reloaded(o) \/ RecoveredWorker(o) \/ Reopened(o)
  BY <1>2, <1>8 DEF Reloaded, RecoveredWorker, Reopened, At, Internal
<1>9. CASE ReplacedWorkerExited(o) \/ Recovered(o)
  BY <1>1, <1>2, <1>9 DEF ReplacedWorkerExited, Recovered, At, Internal
<1>10. CASE StartExecute(o) \/ Dispatch(o) \/ Succeed(o)
  BY <1>2, <1>10
     DEF StartExecute, Dispatch, Succeed, Terminal, Rejected, Leave, At
<1>11. CASE Persist(o)
  BY <1>11 DEF Persist, Leave, At, transportVars
<1>12. CASE StartRecover(o) \/ StopForRecover(o)
  BY <1>2, <1>3, <1>12
     DEF StartRecover, StopForRecover, Replace, Terminal, Rejected, Leave, At
<1>13. CASE RecoverSucceeds(o)
  BY <1>2, <1>3, <1>13 DEF RecoverSucceeds, Terminal, At
<1> QED
  BY <1>4, <1>5, <1>6, <1>7, <1>8, <1>9, <1>10, <1>11, <1>12, <1>13 DEF OperationStep

\* What is queued behind the head was queued before.
LEMMA TailKeepsCloseQueued ==
    ASSUME TypeOK, CloseQueuedWhenClosing, queue # <<>>, queue' = Tail(queue),
           UNCHANGED closing
    PROVE  CloseQueuedWhenClosing'
<1>1. ASSUME NEW i \in 1 .. Len(queue'), queue'[i] = Close PROVE closing'
  <2>1. queue \in Seq(Ops \cup {Close})
    BY DEF TypeOK, TaskTypeOK
  <2>2. i + 1 \in 1 .. Len(queue) /\ queue'[i] = queue[i + 1]
    BY <1>1, <2>1
  <2> QED
    BY <1>1, <2>2 DEF CloseQueuedWhenClosing
<1> QED
  BY <1>1 DEF CloseQueuedWhenClosing

\* Steps that leave the tasks alone and take no new child.
LEMMA OtherStepsKeepCloseInv ==
    ASSUME CloseInv, UNCHANGED taskVars, child' \in {child, None}
    PROVE  CloseInv'
BY DEF CloseInv, CloseQueuedWhenClosing, IdleWhenEmpty, CloseForgetsChild,
       ClosedHasNoChild, CloseRuns, taskVars

LEMMA OperationKeepsCloseInv ==
    ASSUME TypeOK, CloseInv, NEW o \in Ops, OperationStep(o)
    PROVE  CloseInv'
<1>0. /\ queue # <<>> /\ Head(queue) = o
      /\ UNCHANGED <<closing, closed>>
      /\ queue' = queue \/ (queue' = Tail(queue) /\ run' = Idle)
      /\ child' \in {child, None} \/ ~closing
  BY OperationShape DEF Running
<1>1. CloseQueuedWhenClosing'
  <2>1. CASE queue' = queue
    BY <1>0, <2>1 DEF CloseInv, CloseQueuedWhenClosing
  <2>2. CASE queue' = Tail(queue)
    BY <1>0, <2>2, TailKeepsCloseQueued DEF CloseInv
  <2> QED
    BY <1>0, <2>1, <2>2
<1>2. IdleWhenEmpty'
  BY <1>0 DEF IdleWhenEmpty, Idle
<1>3. CloseForgetsChild'
  BY <1>0, SupervisorAssumption DEF CloseForgetsChild, CloseRuns, Idle, SupervisorAssumption
<1>4. ClosedHasNoChild'
  BY <1>0 DEF CloseInv, ClosedHasNoChild
<1> QED
  BY <1>1, <1>2, <1>3, <1>4 DEF CloseInv

LEMMA CallsKeepCloseInv ==
    ASSUME TypeOK, CloseInv, Calls
    PROVE  CloseInv'
<1>1. CASE UNCHANGED <<taskVars, transportVars>>
  BY <1>1, OtherStepsKeepCloseInv DEF transportVars
<1>2. ASSUME NEW t \in Ops \cup {Close}, Enqueue(t), t = Close => closing',
             closing => closing', UNCHANGED <<run, closed, child>>
      PROVE  CloseInv'
  <2>1. queue \in Seq(Ops \cup {Close})
    BY DEF TypeOK, TaskTypeOK
  <2>2. /\ queue' # <<>>
        /\ queue # <<>> => Head(queue') = Head(queue)
        /\ Len(queue') = Len(queue) + 1
        /\ \A i \in 1 .. Len(queue) : queue'[i] = queue[i]
        /\ queue'[Len(queue) + 1] = t
    BY <1>2, <2>1 DEF Enqueue
  <2>3. CloseQueuedWhenClosing'
    <3>1. ASSUME NEW i \in 1 .. Len(queue'), queue'[i] = Close PROVE closing'
      <4>1. i \in 1 .. Len(queue) \/ i = Len(queue) + 1
        BY <2>1, <2>2
      <4> QED
        BY <1>2, <2>2, <3>1, <4>1 DEF CloseInv, CloseQueuedWhenClosing
    <3> QED
      BY <3>1 DEF CloseQueuedWhenClosing
  <2>4. IdleWhenEmpty'
    BY <2>2 DEF IdleWhenEmpty
  <2>5. CloseForgetsChild'
    BY <1>2, <2>2 DEF CloseInv, IdleWhenEmpty, CloseForgetsChild, CloseRuns
  <2>6. ClosedHasNoChild'
    BY <1>2 DEF CloseInv, ClosedHasNoChild
  <2> QED
    BY <2>3, <2>4, <2>5, <2>6 DEF CloseInv
<1>3. CASE \E o \in Ops : BeginReserved(o) \/ \E c \in Commands : BeginNew(o, c)
  BY <1>2, <1>3, SupervisorAssumption
     DEF BeginReserved, BeginNew, transportVars, SupervisorAssumption
<1>4. CASE RequestClose
  BY <1>2, <1>4 DEF RequestClose, transportVars
<1> QED
  BY <1>1, <1>3, <1>4 DEF Calls, Reserve, ResponseCreated, Query

LEMMA CloseKeepsCloseInv ==
    ASSUME TypeOK, CloseInv, StartClose \/ CloseDone
    PROVE  CloseInv'
<1>1. CASE StartClose
  <2>1. child' \in {child, None} /\ child' = None
    BY <1>1 DEF StartClose, Replace, Terminate
  <2> QED
    BY <1>1, <2>1
       DEF StartClose, CloseRuns, CloseInv, CloseQueuedWhenClosing, IdleWhenEmpty,
           CloseForgetsChild, ClosedHasNoChild
<1>2. CASE CloseDone
  <2>1. queue \in Seq(Ops \cup {Close}) /\ queue # <<>> /\ Head(queue) = Close
    BY <1>2 DEF CloseDone, CloseRuns, TypeOK, TaskTypeOK
  <2>2. closing /\ child = None
    <3>1. queue[1] = Close /\ 1 \in 1 .. Len(queue)
      BY <2>1
    <3> QED
      BY <1>2, <3>1 DEF CloseDone, CloseInv, CloseQueuedWhenClosing, CloseForgetsChild
  <2>3. CloseQueuedWhenClosing'
    BY <1>2, <2>1, TailKeepsCloseQueued DEF CloseDone, CloseInv
  <2> QED
    BY <1>2, <2>2, <2>3
       DEF CloseDone, CloseInv, IdleWhenEmpty, CloseForgetsChild, ClosedHasNoChild,
           Idle, transportVars
<1> QED
  BY <1>1, <1>2

LEMMA NextKeepsCloseInv ==
    ASSUME TypeOK, CloseInv, [Next]_vars
    PROVE  CloseInv'
<1>1. CASE QueueStep
  BY <1>1, OperationKeepsCloseInv, CloseKeepsCloseInv DEF QueueStep
<1>2. CASE KillAfterGrace \/ \E r \in pending : Timeout(r)
  BY <1>2, OtherStepsKeepCloseInv DEF KillAfterGrace, Gone, Timeout
<1>3. CASE \E w \in Workers : WorkerStep(w)
  BY <1>3, OtherStepsKeepCloseInv
     DEF WorkerStep, Handle, Deliver, ExternalTerm, Detach, Exit, Crash, Gone, transportVars
<1>4. CASE UNCHANGED vars
  BY <1>4, OtherStepsKeepCloseInv DEF vars, transportVars
<1> QED
  BY <1>1, <1>2, <1>3, <1>4, CallsKeepCloseInv DEF Next

\* Once close() has ended there is no worker, and there never is one again.
THEOREM CloseIsFinal == Spec => []ClosedIsFinal
<1>1. Init => CloseInv
  BY DEF Init, CloseInv, CloseQueuedWhenClosing, IdleWhenEmpty, CloseForgetsChild,
         ClosedHasNoChild, CloseRuns, Idle
<1>2. TypeOK /\ CloseInv /\ [Next]_vars => CloseInv'
  BY NextKeepsCloseInv
<1>3. CloseInv /\ NoOrphanWorker => ClosedIsFinal
  BY SupervisorAssumption
     DEF CloseInv, ClosedHasNoChild, NoOrphanWorker, ClosedIsFinal, SupervisorAssumption
<1> QED
  BY <1>1, <1>2, <1>3, TypeCorrect, NoWorkerIsOrphaned, PTL DEF Spec

(***************************************************************************)
(* One worker is at work.  The supervisor and its child hold one           *)
(* conversation: between two requests nothing is under way on either side, *)
(* a request is answered last, and a child that did not answer is waited   *)
(* for until it is gone before the routine goes on.                        *)
(***************************************************************************)

\* Steps that await an answer, and those that await an exit.
Calling == run.step \in {"init", "call"}
Exiting == run.step \in {"exit", "initExit"}

\* What a worker answers after it has dealt with a request.
Results == {"ok", "error", "mismatch"}

GoneIsIdle == \A v \in Workers : proc[v] = "gone" => work[v] = None

\* After a result there is nothing more to come.
ResultIsLast ==
    \A v \in Workers : \A i \in 1 .. Len(channel[v]) :
        channel[v][i].value # "disconnected" => work[v] = None /\ i = Len(channel[v])

PendingAtChild == \A r \in pending : r.worker = child /\ pending = {r}

ReplySettles == (reply # None => pending = {}) /\ (~Calling => reply = None /\ pending = {})

ChildIsQuiet ==
    child # None /\ (~Calling \/ reply \in Results) => work[child] = None /\ channel[child] = <<>>

\* Who is at work, and for which operation.
WorkOfHead ==
    \A v \in Workers : work[v] # None =>
        /\ queue # <<>> /\ work[v].op = Head(queue)
        /\ v = child \/ (Exiting /\ v = run.target)

TargetOfRun ==
    /\ Exiting => child = None
    /\ run.step = "init" => child \in {None, run.target}

WorkInv ==
    /\ GoneIsIdle /\ ResultIsLast /\ PendingAtChild /\ ReplySettles
    /\ ChildIsQuiet /\ WorkOfHead /\ TargetOfRun

\* The routine has the result or the exit that it awaits.
Settled == (Calling => reply \in Results) /\ (Exiting => Exited)

\* Then nobody is at work, and nothing is pending.
LEMMA SettledIsIdle ==
    ASSUME TypeOK, WorkInv, Settled
    PROVE  /\ \A v \in Workers : work[v] = None
           /\ pending = {}
           /\ child # None => channel[child] = <<>>
<1>1. None \notin Results /\ None \notin Workers /\ child \in Workers \cup {None}
  BY SupervisorAssumption DEF Results, Replies, TypeOK, WorkerTypeOK, SupervisorAssumption
<1>2. pending = {}
  BY <1>1 DEF WorkInv, ReplySettles, Settled
<1>3. child # None => work[child] = None /\ channel[child] = <<>>
  BY DEF WorkInv, ChildIsQuiet, Settled
<1>4. ASSUME NEW v \in Workers, work[v] # None PROVE FALSE
  <2>1. v # child
    BY <1>1, <1>3, <1>4
  <2>2. Exiting /\ v = run.target
    BY <1>4, <2>1 DEF WorkInv, WorkOfHead
  <2>3. proc[v] = "gone"
    BY <1>1, <2>2 DEF Settled, Exited
  <2> QED
    BY <1>4, <2>3 DEF WorkInv, GoneIsIdle
<1> QED
  BY <1>2, <1>3, <1>4

\* A routine that goes on with what it awaited, or leaves the queue, keeps the rest.
LEMMA ConsumedAtRest ==
    ASSUME TypeOK, WorkInv, Settled, Consumed, ~Calling', ~Exiting'
    PROVE  WorkInv'
<1>1. UNCHANGED <<child, pending, proc, work, channel>> /\ reply' = None
  BY DEF Consumed, workerVars
<1>2. (\A v \in Workers : work[v] = None) /\ pending = {} /\ (child # None => channel[child] = <<>>)
  BY SettledIsIdle
<1>3. GoneIsIdle' /\ ResultIsLast' /\ PendingAtChild'
  BY <1>1 DEF WorkInv, GoneIsIdle, ResultIsLast, PendingAtChild
<1>4. ReplySettles'
  BY <1>1, <1>2 DEF ReplySettles
<1>5. ChildIsQuiet'
  BY <1>1, <1>2 DEF ChildIsQuiet, TypeOK, WorkerTypeOK
<1>6. WorkOfHead' /\ TargetOfRun'
  BY <1>1, <1>2 DEF WorkOfHead, TargetOfRun, Calling, Exiting
<1> QED
  BY <1>3, <1>4, <1>5, <1>6 DEF WorkInv

\* A process that is told to stop answers nothing but "disconnected", and only for
\* a request it has not dealt with.
LEMMA SignalAtWork ==
    ASSUME TypeOK, WorkInv, NEW w \in Workers, Signal(w)
    PROVE  /\ GoneIsIdle' /\ ResultIsLast'
           /\ \A v \in Workers : work'[v] \in {work[v], None} /\ (work[v] = None => channel'[v] = channel[v])
<1>1. WorkerTypeOK
  BY DEF TypeOK
<1>2. \A v \in Workers : work'[v] \in {work[v], None} /\ (work[v] = None => channel'[v] = channel[v])
  BY <1>1 DEF Signal, Interrupt, WorkerTypeOK
<1>3. GoneIsIdle'
  BY <1>1, <1>2 DEF Signal, Interrupt, WorkerTypeOK, WorkInv, GoneIsIdle
<1>4. ASSUME NEW v \in Workers, NEW i \in 1 .. Len(channel'[v]), channel'[v][i].value # "disconnected"
      PROVE  work'[v] = None /\ i = Len(channel'[v])
  <2>1. CASE channel'[v] = channel[v]
    BY <1>2, <1>4, <2>1 DEF WorkInv, ResultIsLast
  <2>2. CASE channel'[v] # channel[v]
    <3>1. work[v] # None
      BY <1>2, <2>2
    <3> DEFINE m == [req |-> work[w], value |-> "disconnected"]
    <3>2. channel'[v] = Append(channel[v], m)
      BY <1>1, <2>2 DEF Signal, Interrupt, WorkerTypeOK
    <3>3. channel'[v][Len(channel[v]) + 1] = m
          /\ Len(channel'[v]) = Len(channel[v]) + 1 /\ Len(channel[v]) \in Nat
          /\ \A k \in 1 .. Len(channel[v]) : channel'[v][k] = channel[v][k]
      BY <1>1, <3>2 DEF WorkerTypeOK
    <3>4. i \in 1 .. Len(channel[v])
      BY <1>4, <3>3
    <3> QED
      BY <1>4, <3>1, <3>3, <3>4 DEF WorkInv, ResultIsLast
  <2> QED
    BY <2>1, <2>2
<1> QED
  BY <1>2, <1>3, <1>4 DEF ResultIsLast

\* The worker that a replacement or a failed start is about is forgotten, and then
\* only it may still be at work.
LEMMA TerminatedAtRest ==
    ASSUME TypeOK, WorkInv, NEW w \in Workers \cup {None}, Terminate(w), Exiting => Exited,
           w = child \/ (run.step = "init" /\ w = run.target),
           Exiting', run'.target = w, queue' = queue
    PROVE  WorkInv'
<1>0. /\ child \in Workers \cup {None} /\ None \notin Workers
      /\ \A r \in pending : r.worker \in Workers
  BY SupervisorAssumption DEF TypeOK, WorkerTypeOK, SupervisorAssumption, Requests
<1>1. reply' = None /\ child' = None /\ pending' = {}
  <2>1. child' = None /\ (w # None => \A r \in pending' : r \in pending /\ r.worker # w)
    BY <1>0 DEF Terminate, WorkInv, TargetOfRun
  <2>2. child \in {w, None}
    BY <1>0 DEF WorkInv, TargetOfRun
  <2> QED
    BY <1>0, <2>1, <2>2 DEF Terminate, WorkInv, PendingAtChild
<1>2. /\ GoneIsIdle' /\ ResultIsLast'
      /\ \A v \in Workers : work'[v] \in {work[v], None}
  BY SignalAtWork DEF Terminate, WorkInv, GoneIsIdle, ResultIsLast, workerVars
<1>3. ~Calling'
  BY DEF Calling, Exiting
<1>4. WorkOfHead'
  <2>1. ASSUME NEW v \in Workers, work'[v] # None PROVE work'[v].op = Head(queue) /\ queue # <<>> /\ v = w
    <3>1. work[v] # None /\ work'[v] = work[v]
      BY <1>2, <2>1
    <3>2. /\ queue # <<>> /\ work[v].op = Head(queue)
          /\ v = child \/ (Exiting /\ v = run.target)
      BY <3>1 DEF WorkInv, WorkOfHead
    <3>3. v = child
      BY <1>0, <3>1, <3>2 DEF Exited, WorkInv, GoneIsIdle
    <3> QED
      BY <1>0, <3>1, <3>2, <3>3 DEF WorkInv, TargetOfRun
  <2> QED
    BY <2>1 DEF WorkOfHead
<1> QED
  BY <1>1, <1>2, <1>3, <1>4
     DEF WorkInv, PendingAtChild, ReplySettles, ChildIsQuiet, TargetOfRun, Exiting

\* A request begins a new conversation with an idle child.
LEMMA RequestAtRest ==
    ASSUME TypeOK, WorkInv, Settled, NEW o \in Ops, NEW k \in Kinds, Running(o), Request(o, k),
           run'.step = "call", queue' = queue
    PROVE  WorkInv'
<1>0. child \in Workers \cup {None} /\ None \notin Workers /\ "disconnected" \notin Results
  BY SupervisorAssumption DEF TypeOK, WorkerTypeOK, SupervisorAssumption, Results
<1>1. (\A v \in Workers : work[v] = None) /\ pending = {} /\ (child # None => channel[child] = <<>>)
  BY SettledIsIdle
<1>2. Calling' /\ ~Exiting'
  BY DEF Calling, Exiting
<1>3. CASE ~Usable(child)
  <2>1. UNCHANGED <<child, pending, proc, work, channel>> /\ reply' = "disconnected"
    BY <1>3 DEF Request, workerVars
  <2> QED
    BY <1>0, <1>1, <1>2, <2>1
       DEF WorkInv, GoneIsIdle, ResultIsLast, PendingAtChild, ReplySettles, ChildIsQuiet, WorkOfHead,
           TargetOfRun, Calling
<1>4. CASE Usable(child)
  <2> DEFINE r == [op |-> o, kind |-> k, worker |-> child]
  <2>1. /\ UNCHANGED <<child, proc, channel>> /\ reply' = None /\ pending' = {r}
        /\ work' = work \/ (proc[child] = "up" /\ work' = [work EXCEPT ![child] = r])
    BY <1>1, <1>4 DEF Request
  <2>2. child \in Workers /\ proc[child] # "gone" /\ r.worker = child /\ r.op = Head(queue) /\ queue # <<>>
    BY <1>0, <1>4 DEF Usable, Running
  <2>3. \A v \in Workers : work'[v] # None => v = child /\ work'[v] = r
    BY <1>1, <2>1, <2>2 DEF TypeOK, WorkerTypeOK
  <2> HIDE DEF r
  <2>4. GoneIsIdle' /\ PendingAtChild' /\ ReplySettles'
    BY <1>2, <2>1, <2>2, <2>3 DEF GoneIsIdle, PendingAtChild, ReplySettles
  <2>5. ResultIsLast'
    <3>1. ASSUME NEW v \in Workers, NEW i \in 1 .. Len(channel[v]) PROVE work'[v] = None
      <4>1. v # child
        BY <1>0, <1>1, <2>2, <3>1
      <4> QED
        BY <2>3, <4>1
    <3> QED
      BY <2>1, <3>1 DEF WorkInv, ResultIsLast
  <2>6. ChildIsQuiet'
    BY <1>2, <2>1, SupervisorAssumption DEF ChildIsQuiet, Results, Replies, SupervisorAssumption
  <2>7. WorkOfHead'
    BY <2>1, <2>2, <2>3 DEF WorkOfHead
  <2>8. TargetOfRun'
    BY <1>2 DEF TargetOfRun
  <2> QED
    BY <2>4, <2>5, <2>6, <2>7, <2>8 DEF WorkInv
<1> QED
  BY <1>3, <1>4

\* So does the start of a new worker; nobody else is at work.
LEMMA ForkAtRest ==
    ASSUME TypeOK, WorkInv, NEW o \in Ops, NEW w \in Workers, EnsureFork(o, w)
    PROVE  WorkInv'
<1> DEFINE r == [op |-> o, kind |-> "initialize", worker |-> w]
<1>1. Settled
  BY DEF EnsureFork, At, Settled, Calling, Exiting
<1>2. (\A v \in Workers : work[v] = None) /\ pending = {}
  BY <1>1, SettledIsIdle
<1>3. /\ child' = w /\ proc' = [proc EXCEPT ![w] = "up"] /\ work' = [work EXCEPT ![w] = r]
      /\ channel' = [channel EXCEPT ![w] = <<>>] /\ pending' = {r} /\ reply' = None
      /\ run'.step = "init" /\ run'.target = w /\ queue' = queue
  BY <1>2 DEF EnsureFork, Internal, TypeOK, TaskTypeOK, Routines
<1>4. r.worker = w /\ r.op = Head(queue) /\ queue # <<>>
  BY DEF EnsureFork, At, Running
<1>5. Calling' /\ ~Exiting' /\ None \notin Results
  BY <1>3, SupervisorAssumption DEF Calling, Exiting, Results, Replies, SupervisorAssumption
<1> HIDE DEF r
<1>6. GoneIsIdle' /\ WorkOfHead'
  BY <1>2, <1>3, <1>4 DEF GoneIsIdle, WorkOfHead, TypeOK, WorkerTypeOK
<1>7. ResultIsLast'
  <2>1. ASSUME NEW v \in Workers, NEW i \in 1 .. Len(channel'[v]), channel'[v][i].value # "disconnected"
        PROVE  work'[v] = None /\ i = Len(channel'[v])
    <3>1. CASE v = w
      <4>1. channel'[v] = <<>>
        BY <1>3, <3>1 DEF TypeOK, WorkerTypeOK
      <4> QED
        BY <2>1, <4>1
    <3>2. CASE v # w
      BY <1>3, <2>1, <3>2 DEF WorkInv, ResultIsLast, TypeOK, WorkerTypeOK
    <3> QED
      BY <3>1, <3>2
  <2> QED
    BY <2>1 DEF ResultIsLast
<1>8. PendingAtChild' /\ ReplySettles' /\ ChildIsQuiet' /\ TargetOfRun'
  BY <1>3, <1>4, <1>5 DEF PendingAtChild, ReplySettles, ChildIsQuiet, TargetOfRun
<1> QED
  BY <1>6, <1>7, <1>8 DEF WorkInv

\* fail() ends the routine, or its operation leaves the queue.
LEMMA FailEnds == ASSUME NEW o, NEW code, Fail(o, code) PROVE run'.step \in {"persist", "wait"}
BY DEF Fail, Terminal, Rejected, Leave, Idle

\* The catch clauses replace a child that has not answered.
LEMMA CatchAtRest ==
    ASSUME TypeOK, WorkInv, NEW o \in Ops, NEW code,
           Exiting => Exited,
           Calling => reply \in Results \/ code \in HardRecovery,
           Catch(o, code)
    PROVE  WorkInv'
<1>1. child \in Workers \cup {None}
  BY DEF TypeOK, WorkerTypeOK
<1>2. CASE \E goal : Replace(goal, code, child) /\ queue' = queue
  <2>1. Terminate(child) /\ run'.step = "exit" /\ run'.target = child
    BY <1>2 DEF Replace
  <2> QED
    BY <1>1, <1>2, <2>1, TerminatedAtRest DEF Exiting
<1>3. CASE code \notin HardRecovery /\ Fail(o, code) /\ Consumed
  <2>1. Settled
    BY <1>3 DEF Settled
  <2>2. ~Calling' /\ ~Exiting'
    BY <1>3, FailEnds DEF Calling, Exiting
  <2> QED
    BY <1>3, <2>1, <2>2, ConsumedAtRest
<1> QED
  BY <1>2, <1>3 DEF Catch

LEMMA EnsureFailsAtRest ==
    ASSUME TypeOK, WorkInv, NEW o \in Ops, NEW code, Settled, EnsureFails(o, code)
    PROVE  WorkInv'
<1>1. CASE Fail(o, run.code) /\ Consumed
  <2>1. ~Calling' /\ ~Exiting'
    BY <1>1, FailEnds DEF Calling, Exiting
  <2> QED
    BY <1>1, <2>1, ConsumedAtRest
<1>2. CASE Catch(o, code)
  BY <1>2, CatchAtRest DEF Settled
<1> QED
  BY <1>1, <1>2 DEF EnsureFails

\* Every step of a routine is a step of its one conversation.
LEMMA OperationKeepsWorkInv ==
    ASSUME TypeOK, WorkInv, NEW o \in Ops, OperationStep(o)
    PROVE  WorkInv'
<1>0. /\ child \in Workers \cup {None} /\ run.target \in Workers \cup {None} /\ reply \in Replies \cup {None}
      /\ None \notin Replies /\ "ok" \in Results /\ run \in Routines
  BY SupervisorAssumption DEF TypeOK, WorkerTypeOK, TaskTypeOK, Routines, SupervisorAssumption, Results
<1>1. ASSUME Settled, Consumed, run'.step \in {"ensure", "ready", "reload", "persist", "preflight", "wait"}
      PROVE  WorkInv'
  BY <1>1, ConsumedAtRest DEF Calling, Exiting
<1>2. ASSUME NEW code, Settled, Consumed, Fail(o, code) PROVE WorkInv'
  BY <1>1, <1>2, FailEnds
<1>3. ASSUME NEW goal, NEW code, Settled, Replace(goal, code, child), queue' = queue PROVE WorkInv'
  <2>1. Terminate(child) /\ run'.step = "exit" /\ run'.target = child
    BY <1>3 DEF Replace
  <2> QED
    BY <1>0, <1>3, <2>1, TerminatedAtRest DEF Exiting, Settled
<1>4. CASE \E w \in Workers : EnsureFork(o, w)
  BY <1>4, ForkAtRest
<1>5. CASE EnsureClosing(o) \/ InitializeGivenUp(o)
  <2>1. Settled
    BY <1>5 DEF EnsureClosing, InitializeGivenUp, At, Settled, Calling, Exiting
  <2> QED
    BY <1>5, <2>1, EnsureFailsAtRest DEF EnsureClosing, InitializeGivenUp
<1>6. CASE EnsureReuse(o) \/ InitializeOk(o) \/ ReloadStarted(o)
  <2>1. Settled /\ Consumed
    BY <1>0, <1>6 DEF EnsureReuse, InitializeOk, ReloadStarted, At, Settled, Calling, Exiting
  <2>2. run'.step \in {"ensure", "ready"}
    BY <1>0, <1>6 DEF EnsureReuse, InitializeOk, ReloadStarted, GoTo, Routines
  <2> QED
    BY <1>1, <2>1, <2>2
<1>7. CASE InitializeFails(o)
  <2>1. Terminate(run.target) /\ run'.step = "initExit" /\ run'.target = run.target /\ queue' = queue /\ run.step = "init"
    BY <1>0, <1>7 DEF InitializeFails, Internal, At, Routines
  <2> QED
    BY <1>0, <2>1, TerminatedAtRest DEF Exiting
<1>8. CASE ReplacedWorkerExited(o)
  <2>1. Settled /\ Consumed
    BY <1>8 DEF ReplacedWorkerExited, At, Settled, Calling, Exiting
  <2>2. CASE Fail(o, run.code)
    BY <1>2, <2>1, <2>2
  <2>3. CASE run' = [run EXCEPT !.step = "ensure", !.target = None]
    BY <1>0, <1>1, <2>1, <2>3 DEF Routines
  <2> QED
    BY <1>8, <2>2, <2>3 DEF ReplacedWorkerExited
<1>9. CASE StartExecute(o) \/ StartRecover(o)
  <2>1. Settled /\ Consumed
    BY <1>9 DEF StartExecute, StartRecover, At, Settled, Calling, Exiting
  <2>2. run'.step \in {"preflight", "persist", "wait"}
    BY <1>0, <1>9 DEF StartExecute, StartRecover, GoTo, Terminal, Rejected, Leave, Idle, Routines
  <2> QED
    BY <1>1, <2>1, <2>2
<1>10. CASE Preflight(o)
  <2>1. Settled
    BY <1>10 DEF Preflight, At, Settled, Calling, Exiting
  <2>2. CASE Consumed /\ (GoTo("ensure") \/ GoTo("reload"))
    BY <1>0, <1>1, <2>1, <2>2 DEF GoTo, Routines
  <2>3. CASE Catch(o, "failed")
    BY <2>1, <2>3, CatchAtRest DEF Settled
  <2> QED
    BY <1>10, <2>2, <2>3 DEF Preflight
<1>11. CASE Reload(o)
  <2>1. Settled /\ queue' = queue
    BY <1>11 DEF Reload, Internal, At, Settled, Calling, Exiting
  <2> QED
    BY <1>3, <1>11, <2>1 DEF Reload
<1>12. CASE Reloaded(o) \/ RecoveredWorker(o)
  <2>1. Settled /\ Running(o) /\ queue' = queue
    BY <1>12 DEF Reloaded, RecoveredWorker, Internal, At, Settled, Calling, Exiting
  <2>2. ASSUME NEW k \in Kinds, Request(o, k), run'.step = "call" PROVE WorkInv'
    BY <2>1, <2>2, RequestAtRest
  <2>3. CASE Consumed /\ run' = [run EXCEPT !.step = "ensure", !.goal = "dispatch"]
    BY <1>0, <1>1, <2>1, <2>3 DEF Routines
  <2>4. \/ \E k \in Kinds : Request(o, k) /\ run'.step = "call"
        \/ Consumed /\ run' = [run EXCEPT !.step = "ensure", !.goal = "dispatch"]
    BY <1>0, <1>12 DEF Reloaded, RecoveredWorker, GoTo, Kinds, Routines
  <2> QED
    BY <2>2, <2>3, <2>4
<1>13. CASE Dispatch(o)
  <2>1. Settled /\ Running(o)
    BY <1>13 DEF Dispatch, At, Settled, Calling, Exiting
  <2>2. CASE Request(o, "command") /\ GoTo("call") /\ queue' = queue
    <3>1. run'.step = "call"
      BY <1>0, <2>2 DEF GoTo, Routines
    <3> QED
      BY <2>1, <2>2, <3>1, RequestAtRest DEF Kinds
  <2>3. CASE Rejected(o) /\ Consumed
    BY <1>1, <2>1, <2>3 DEF Rejected, Leave, Idle
  <2> QED
    BY <1>13, <2>2, <2>3 DEF Dispatch
<1>14. CASE Succeed(o)
  <2>1. Settled /\ Consumed
    BY <1>0, <1>14 DEF Succeed, At, Settled, Calling, Exiting
  <2>2. run'.step \in {"persist", "wait"}
    BY <1>14 DEF Succeed, Terminal, Rejected, Leave, Idle
  <2> QED
    BY <1>1, <2>1, <2>2
<1>15. CASE CallFails(o)
  <2> DEFINE code == IF reply \in HardRecovery THEN reply ELSE "failed"
  <2>1. reply \in Results \/ code \in HardRecovery
    BY <1>0, <1>15 DEF CallFails, Replies, Results, HardRecovery
  <2>2. Catch(o, code) /\ run.step = "call"
    BY <1>15 DEF CallFails, At
  <2> HIDE DEF code
  <2> QED
    BY <2>1, <2>2, CatchAtRest DEF Exiting
<1>16. CASE Recovered(o)
  <2>1. Settled
    BY <1>16 DEF Recovered, At, Settled, Calling, Exiting
  <2> QED
    BY <1>2, <1>16, <2>1 DEF Recovered
<1>17. CASE Persist(o)
  <2>1. Settled /\ run'.step = "wait" /\ ~Calling /\ UNCHANGED <<transportVars, workerVars>>
    BY <1>17 DEF Persist, Leave, Idle, At, Settled, Calling, Exiting
  <2>2. Consumed
    BY <2>1 DEF Consumed, WorkInv, ReplySettles, transportVars
  <2> QED
    BY <1>1, <2>1, <2>2
<1>18. CASE StopForRecover(o)
  <2>1. Settled
    BY <1>18 DEF StopForRecover, At, Settled, Calling, Exiting
  <2>2. CASE Replace("recover", None, child) /\ queue' = queue
    BY <1>3, <2>1, <2>2
  <2>3. CASE Catch(o, "failed")
    BY <2>1, <2>3, CatchAtRest DEF Settled
  <2> QED
    BY <1>18, <2>2, <2>3 DEF StopForRecover
<1>19. CASE Reopened(o)
  <2>1. Settled /\ Running(o) /\ queue' = queue /\ run'.step = "call" /\ Request(o, "status")
    BY <1>0, <1>19 DEF Reopened, Internal, At, Settled, Calling, Exiting, Routines
  <2> QED
    BY <2>1, RequestAtRest DEF Kinds
<1>20. CASE RecoverSucceeds(o)
  <2>1. Settled
    BY <1>0, <1>20 DEF RecoverSucceeds, At, Settled, Calling, Exiting
  <2>2. CASE Terminal(o, "succeeded") /\ Consumed
    BY <1>1, <2>1, <2>2 DEF Terminal, Idle
  <2>3. CASE Catch(o, "failed")
    BY <2>1, <2>3, CatchAtRest DEF Settled
  <2> QED
    BY <1>20, <2>2, <2>3 DEF RecoverSucceeds
<1> QED
  BY <1>4, <1>5, <1>6, <1>7, <1>8, <1>9, <1>10, <1>11, <1>12, <1>13, <1>14, <1>15, <1>16, <1>17, <1>18,
     <1>19, <1>20 DEF OperationStep

\* Calls of the host queue up behind the head.
LEMMA CallsKeepWorkInv ==
    ASSUME TypeOK, WorkInv, Calls
    PROVE  WorkInv'
<1>1. UNCHANGED <<run, child, pending, reply, proc, work, channel>>
  BY DEF Calls, Reserve, BeginNew, BeginReserved, ResponseCreated, Query, RequestClose,
         taskVars, transportVars, workerVars
<1>2. queue' = queue \/ \E t \in Ops \cup {Close} : queue' = Append(queue, t)
  BY DEF Calls, Reserve, BeginNew, BeginReserved, ResponseCreated, Query, RequestClose,
         Enqueue, taskVars
<1>3. queue # <<>> => queue' # <<>> /\ Head(queue') = Head(queue)
  BY <1>2 DEF TypeOK, TaskTypeOK
<1>4. WorkOfHead'
  BY <1>1, <1>3 DEF WorkInv, WorkOfHead, Exiting
<1> QED
  BY <1>1, <1>4
     DEF WorkInv, GoneIsIdle, ResultIsLast, PendingAtChild, ReplySettles, ChildIsQuiet,
         TargetOfRun, Calling, Exiting

\* The end of a process settles the request that waits for it.
LEMMA GoneKeepsWorkInv ==
    ASSUME TypeOK, WorkInv, NEW w \in Workers, Gone(w)
    PROVE  WorkInv'
<1>1. /\ UNCHANGED <<queue, run, channel>>
      /\ \A v \in Workers : v # w => proc'[v] = proc[v] /\ work'[v] = work[v]
      /\ work'[w] = None
  BY DEF Gone, taskVars, TypeOK, WorkerTypeOK
<1>2. CASE child = w
  <2>1. child' = None /\ pending' = {} /\ reply' \in {reply, "disconnected"}
        /\ (pending = {} => reply' = reply)
    BY <1>2 DEF Gone, WorkInv, PendingAtChild
  <2> QED
    BY <1>1, <1>2, <2>1
       DEF WorkInv, GoneIsIdle, ResultIsLast, PendingAtChild, ReplySettles, ChildIsQuiet,
           WorkOfHead, TargetOfRun, Calling, Exiting
<1>3. CASE child # w
  <2>1. UNCHANGED <<child, pending, reply>>
    BY <1>3 DEF Gone, WorkInv, PendingAtChild
  <2>2. child # None => child \in Workers
    BY DEF TypeOK, WorkerTypeOK
  <2> QED
    BY <1>1, <1>3, <2>1, <2>2
       DEF WorkInv, GoneIsIdle, ResultIsLast, PendingAtChild, ReplySettles, ChildIsQuiet,
           WorkOfHead, TargetOfRun, Calling, Exiting
<1> QED
  BY <1>2, <1>3

\* An answer settles the one pending request, or nothing.
LEMMA DeliverKeepsWorkInv ==
    ASSUME TypeOK, WorkInv, NEW w \in Workers, Deliver(w)
    PROVE  WorkInv'
<1> DEFINE m == Head(channel[w])
<1>1. /\ UNCHANGED <<queue, run, child, proc, work>>
      /\ \A v \in Workers : v # w => channel'[v] = channel[v]
      /\ channel'[w] = Tail(channel[w])
  BY DEF Deliver, taskVars, TypeOK, WorkerTypeOK
<1>2. channel[w] \in Seq(Answers) /\ channel[w] # <<>>
  BY DEF Deliver, TypeOK, WorkerTypeOK
<1>3. /\ 1 \in 1 .. Len(channel[w]) /\ m = channel[w][1]
      /\ \A i \in 1 .. Len(channel'[w]) :
            i + 1 \in 1 .. Len(channel[w]) /\ channel'[w][i] = channel[w][i + 1]
      /\ Len(channel'[w]) + 1 = Len(channel[w])
      /\ Len(channel[w]) = 1 => channel'[w] = <<>>
  <2> DEFINE c == channel[w]
  <2>1. c \in Seq(Answers) /\ c # <<>> /\ channel'[w] = Tail(c) /\ m = Head(c)
    BY <1>1, <1>2
  <2> HIDE DEF c, m
  <2>2. /\ 1 \in 1 .. Len(c) /\ m = c[1] /\ Len(Tail(c)) + 1 = Len(c)
        /\ \A i \in 1 .. Len(Tail(c)) : i + 1 \in 1 .. Len(c) /\ Tail(c)[i] = c[i + 1]
    BY <2>1
  <2>3. Len(c) = 1 => Tail(c) = <<>>
    BY <2>1
  <2> QED
    BY <2>1, <2>2, <2>3 DEF c
<1>4. \/ m.req \in pending /\ m.req.worker = w /\ pending' = pending \ {m.req} /\ reply' = m.value
      \/ UNCHANGED <<pending, reply>>
  BY DEF Deliver
<1> HIDE DEF m
<1>5. ResultIsLast'
  <2>1. ASSUME NEW v \in Workers, NEW i \in 1 .. Len(channel'[v]), channel'[v][i].value # "disconnected"
        PROVE  work'[v] = None /\ i = Len(channel'[v])
    <3>1. CASE v = w
      <4>1. /\ i + 1 \in 1 .. Len(channel[w]) /\ channel[w][i + 1].value # "disconnected"
            /\ Len(channel'[w]) + 1 = Len(channel[w])
        BY <1>3, <2>1, <3>1
      <4>2. work[w] = None /\ i + 1 = Len(channel[w])
        BY <4>1 DEF WorkInv, ResultIsLast
      <4>3. Len(channel'[w]) \in Nat /\ i \in Int
        BY <1>1, <1>2
      <4>4. i = Len(channel'[w])
        BY <4>1, <4>2, <4>3
      <4> QED
        BY <1>1, <3>1, <4>2, <4>4
    <3>2. CASE v # w
      BY <1>1, <2>1, <3>2 DEF WorkInv, ResultIsLast
    <3> QED
      BY <3>1, <3>2
  <2> QED
    BY <2>1 DEF ResultIsLast
<1>6. CASE m.req \in pending /\ m.req.worker = w /\ pending' = pending \ {m.req} /\ reply' = m.value
  <2>1. child = w /\ pending' = {} /\ Calling
    BY <1>6 DEF WorkInv, PendingAtChild, ReplySettles
  <2>2. m.value \in Results => work[w] = None /\ channel'[w] = <<>>
    BY <1>3 DEF WorkInv, ResultIsLast, Results
  <2> QED
    BY <1>1, <1>5, <1>6, <2>1, <2>2
       DEF WorkInv, GoneIsIdle, PendingAtChild, ReplySettles, ChildIsQuiet,
           WorkOfHead, TargetOfRun, Calling, Exiting
<1>7. CASE UNCHANGED <<pending, reply>>
  <2>1. ChildIsQuiet'
    <3>1. child # None => child \in Workers
      BY DEF TypeOK, WorkerTypeOK
    <3> QED
      BY <1>1, <1>2, <1>7, <3>1 DEF WorkInv, ChildIsQuiet, Calling
  <2> QED
    BY <1>1, <1>5, <1>7, <2>1
       DEF WorkInv, GoneIsIdle, PendingAtChild, ReplySettles, WorkOfHead, TargetOfRun,
           Calling, Exiting
<1> QED
  BY <1>4, <1>6, <1>7

\* A worker answers the request it has dealt with, and has nothing to do then.
LEMMA HandleKeepsWorkInv ==
    ASSUME TypeOK, WorkInv, NEW w \in Workers, NEW value, Handle(w, value)
    PROVE  WorkInv'
<1> DEFINE m == [req |-> work[w], value |-> value]
<1>1. /\ UNCHANGED <<queue, run, child, pending, reply, proc>>
      /\ \A v \in Workers : v # w => channel'[v] = channel[v] /\ work'[v] = work[v]
      /\ work[w] # None /\ work'[w] = None
      /\ channel'[w] = channel[w] \/ channel'[w] = Append(channel[w], m)
  BY DEF Handle, taskVars, transportVars, TypeOK, WorkerTypeOK
<1>2. channel[w] \in Seq(Answers)
  BY DEF TypeOK, WorkerTypeOK
<1>3. \A i \in 1 .. Len(channel[w]) : channel[w][i].value = "disconnected"
  BY <1>1 DEF WorkInv, ResultIsLast
<1>4. ResultIsLast'
  <2>1. ASSUME NEW v \in Workers, NEW i \in 1 .. Len(channel'[v]), channel'[v][i].value # "disconnected"
        PROVE  work'[v] = None /\ i = Len(channel'[v])
    <3>1. CASE v # w
      BY <1>1, <2>1, <3>1 DEF WorkInv, ResultIsLast
    <3>2. CASE v = w /\ channel'[w] = channel[w]
      BY <1>3, <2>1, <3>2
    <3>3. CASE v = w /\ channel'[w] = Append(channel[w], m)
      <4>1. /\ Len(channel'[w]) = Len(channel[w]) + 1 /\ Len(channel[w]) \in Nat
            /\ \A k \in 1 .. Len(channel[w]) : channel'[w][k] = channel[w][k]
        BY <1>2, <3>3
      <4> QED
        BY <1>1, <1>3, <2>1, <3>3, <4>1
    <3> QED
      BY <1>1, <3>1, <3>2, <3>3
  <2> QED
    BY <2>1 DEF ResultIsLast
<1>5. ChildIsQuiet'
  BY <1>1 DEF WorkInv, ChildIsQuiet, Calling, TypeOK, WorkerTypeOK
<1> QED
  BY <1>1, <1>4, <1>5
     DEF WorkInv, GoneIsIdle, PendingAtChild, ReplySettles, WorkOfHead, TargetOfRun,
         Calling, Exiting

\* The rest of what happens around the workers.
LEMMA WorkerStepKeepsWorkInv ==
    ASSUME TypeOK, WorkInv, NEW w \in Workers, WorkerStep(w)
    PROVE  WorkInv'
<1>1. CASE Exit(w) \/ Crash(w)
  BY <1>1, GoneKeepsWorkInv DEF Exit, Crash
<1>2. CASE ExternalTerm(w)
  <2>1. Signal(w) /\ UNCHANGED <<queue, run, child, pending, reply>>
    BY <1>2 DEF ExternalTerm, taskVars, transportVars
  <2>2. /\ GoneIsIdle' /\ ResultIsLast'
        /\ \A v \in Workers : work'[v] \in {work[v], None} /\ (work[v] = None => channel'[v] = channel[v])
    BY <2>1, SignalAtWork
  <2>3. child # None => child \in Workers
    BY DEF TypeOK, WorkerTypeOK
  <2>4. ChildIsQuiet'
    BY <2>1, <2>2, <2>3 DEF WorkInv, ChildIsQuiet, Calling
  <2>5. WorkOfHead'
    BY <2>1, <2>2 DEF WorkInv, WorkOfHead, Exiting
  <2> QED
    BY <2>1, <2>2, <2>4, <2>5 DEF WorkInv, PendingAtChild, ReplySettles, TargetOfRun, Calling, Exiting
<1>3. CASE Detach(w)
  <2>1. UNCHANGED <<queue, run, child, pending, reply, work, channel>>
        /\ \A v \in Workers : proc'[v] = "gone" => proc[v] = "gone"
    BY <1>3 DEF Detach, taskVars, transportVars, TypeOK, WorkerTypeOK
  <2> QED
    BY <2>1
       DEF WorkInv, GoneIsIdle, ResultIsLast, PendingAtChild, ReplySettles, ChildIsQuiet,
           WorkOfHead, TargetOfRun, Calling, Exiting
<1> QED
  BY <1>1, <1>2, <1>3, HandleKeepsWorkInv, DeliverKeepsWorkInv DEF WorkerStep

\* close() gives the child up like a replacement, and waits for it.
LEMMA CloseKeepsWorkInv ==
    ASSUME TypeOK, WorkInv, StartClose \/ CloseDone
    PROVE  WorkInv'
<1>1. CASE StartClose
  <2>1. Terminate(child) /\ run'.step = "exit" /\ run'.target = child /\ queue' = queue
        /\ ~Exiting /\ child \in Workers \cup {None}
    BY <1>1 DEF StartClose, Replace, Exiting, TypeOK, WorkerTypeOK
  <2> QED
    BY <2>1, TerminatedAtRest DEF Exiting
<1>2. CASE CloseDone
  <2>1. Settled /\ ~Calling /\ run'.step = "wait" /\ UNCHANGED <<transportVars, workerVars>>
    BY <1>2 DEF CloseDone, Settled, Calling, Exiting, Idle
  <2>2. Consumed
    BY <2>1 DEF Consumed, WorkInv, ReplySettles, transportVars
  <2> QED
    BY <2>1, <2>2, ConsumedAtRest DEF Calling, Exiting
<1> QED
  BY <1>1, <1>2

LEMMA NextKeepsWorkInv ==
    ASSUME TypeOK, WorkInv, [Next]_vars
    PROVE  WorkInv'
<1>1. CASE QueueStep
  BY <1>1, OperationKeepsWorkInv, CloseKeepsWorkInv DEF QueueStep
<1>2. CASE KillAfterGrace
  <2>1. run.target \in Workers
    BY <1>2 DEF KillAfterGrace, Exited, TypeOK, TaskTypeOK, Routines
  <2> QED
    BY <1>2, <2>1, GoneKeepsWorkInv DEF KillAfterGrace
<1>3. CASE \E r \in pending : Timeout(r)
  <2>1. /\ pending # {} /\ pending' = {} /\ reply' = "timeout"
        /\ UNCHANGED <<queue, run, child, proc, work, channel>>
    BY <1>3 DEF Timeout, WorkInv, PendingAtChild, taskVars, workerVars
  <2> QED
    BY <2>1
       DEF WorkInv, GoneIsIdle, ResultIsLast, PendingAtChild, ReplySettles, ChildIsQuiet,
           WorkOfHead, TargetOfRun, Calling, Exiting, Results
<1>4. CASE UNCHANGED vars
  BY <1>4
     DEF vars, taskVars, transportVars, workerVars, WorkInv, GoneIsIdle, ResultIsLast,
         PendingAtChild, ReplySettles, ChildIsQuiet, WorkOfHead, TargetOfRun, Calling, Exiting
<1> QED
  BY <1>1, <1>2, <1>3, <1>4, CallsKeepWorkInv, WorkerStepKeepsWorkInv DEF Next

\* Whatever times out, drains, is replaced or dies, two workers are never at work
\* at once: a new one starts only when nobody has anything left to do.
THEOREM OneWorkerIsAtWork == Spec => []OneWorkerAtWork
<1>1. Init => WorkInv
  BY DEF Init, Idle, WorkInv, GoneIsIdle, ResultIsLast, PendingAtChild, ReplySettles,
         ChildIsQuiet, WorkOfHead, TargetOfRun, Exiting
<1>2. TypeOK /\ WorkInv /\ [Next]_vars => WorkInv'
  BY NextKeepsWorkInv
<1>3. WorkInv => OneWorkerAtWork
  BY SupervisorAssumption
     DEF WorkInv, WorkOfHead, TargetOfRun, OneWorkerAtWork, SupervisorAssumption
<1> QED
  BY <1>1, <1>2, <1>3, TypeCorrect, PTL DEF Spec

===============================================================================
