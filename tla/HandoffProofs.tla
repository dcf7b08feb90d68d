---------------------------- MODULE HandoffProofs ----------------------------
(***************************************************************************)
(* The human's browser is left alone, and a worker drives what its lease   *)
(* names: the promises of module Handoff for every number of workers and   *)
(* of browser processes.                                                   *)
(*                                                                         *)
(* A command runs step by step over what outlives its worker, so none of   *)
(* the promises is inductive.  HandoffInv adds what every step finds in    *)
(* the worker's memory (Connected), and the guard of a private browser: a  *)
(* lease of the handoff that no start may continue, or a record that says  *)
(* it awaits its user (PrivateIsGuarded).                                  *)
(***************************************************************************)
EXTENDS Handoff, TLAPS

\* From the request to the resume, over crashes and restarts, no worker is
\* connected to the human's browser or asks it to close, and what a worker
\* drives is what its lease names (handoff/*.ts).
HandoffStaysPrivate ==
    /\ [](TypeOK /\ PrivateStaysPrivate /\ DrivesWhatItOwns)
    /\ [][HumanIsNotInterrupted]_vars

-----------------------------------------------------------------------------
(* The inductive invariant.                                                *)

Records == [process : Ids, state : {"controlled", "awaiting_user"}]
HandoffBrowsers == [process : Ids, kind : {"playwright", "native", "plain"}, marker : BOOLEAN]
Pendings == [strategy : {"native_same_process", "process_relaunch"}, process : Ids]
Handoffs == [state : {"awaiting_user", "ready_for_agent_verification"}, process : Ids,
             continuous : BOOLEAN, offered : BOOLEAN]
Mems == [context : {"none", "playwright", "native"}, process : Ids \cup {None},
         holds : BOOLEAN, pending : Pendings \cup {None}, handoff : Handoffs \cup {None}]
\* There is a worker, and None stands for no value, and is none itself.
HandoffConstants ==
    /\ MaxWorkers \in Nat \ {0} /\ MaxProcesses \in Nat
    /\ None \notin Leases \cup Records \cup HandoffBrowsers \cup Pendings \cup Handoffs
                   \cup Ids

StartPlaces == {"prepare", "terminating", "record", "launch", "attach", "record controlled"}
ReleasePlaces == {"detached", "claim human", "launch human", "record human", "complete"}
HandoffPlaces == StartPlaces \cup ReleasePlaces \cup {"idle", "continue", "establish", "resumed", "stopping"}

HandoffTypes ==
    /\ lease \in Leases \cup {None}
    /\ record \in Records \cup {None}
    /\ browser \in HandoffBrowsers \cup {None}
    /\ launched \in 0 .. MaxProcesses /\ born \in 1 .. MaxWorkers /\ worker \in {0, born}
    /\ mem \in Mems /\ doing \in [at : HandoffPlaces, resume : BOOLEAN]
    /\ private \in BOOLEAN /\ asked \subseteq Ids

\* Processes and workers are numbered as they come, and the browser is the last.
Launched == 1 .. launched
Numbered ==
    /\ browser # None => browser.process = launched /\ launched \in Launched
    /\ record # None => record.process \in Launched
    /\ mem.handoff # None => mem.handoff.process \in Launched
    /\ mem.pending # None => mem.pending.process \in Launched
    /\ mem.process # None => mem.process \in Launched
    /\ doing.at = "record human" => launched \in Launched
    /\ lease # None => lease.owner \in 1 .. born

\* What the worker remembers at each step of its command. A worker that is not
\* about to observe its browser is connected only to one that runs; while a
\* handoff is released it is not connected, or still to the process it releases.
Connected ==
    /\ mem.context # "none" => mem.process # None
    /\ mem.context # "none" /\ doing.at # "establish" => Running(mem.process)
    /\ mem.context = "none" /\ doing.at # "stopping" => mem.process = None
    /\ doing.at \in StartPlaces \cup ReleasePlaces \cup {"stopping"} => mem.context = "none"
    /\ doing.at \in StartPlaces \cup {"establish", "resumed"} => mem.pending = None
    /\ doing.at \in ReleasePlaces \cup {"continue"} => mem.pending # None
    /\ mem.pending # None /\ mem.context # "none" => mem.process = mem.pending.process
    /\ doing.at \notin StartPlaces \cup {"establish", "resumed"} => ~doing.resume
    /\ doing.at = "record controlled" => doing.resume
    /\ doing.resume => mem.handoff # None
    /\ mem.handoff # None => mem.pending = None

\* Nor is anybody connected while no worker lives.
NobodyIsConnected == worker = 0 => mem.context = "none"

\* The lease is of what the worker drives, from the moment it is established.
LeaseNamesIt ==
    doing.at \in {"idle", "resumed"} /\ mem.context # "none" /\ mem.pending = None =>
        /\ lease # None /\ lease.owner = worker /\ lease.process = mem.process
        /\ lease.mode = IF mem.context = "native" THEN "native_cdp" ELSE "playwright"

\* A record that says the browser that runs is in its user's hands, or no such record.
AwaitsItsUser == record # None /\ Running(record.process) => record.state = "awaiting_user"
\* What keeps every worker from the human's browser: a lease of the handoff, by
\* its worker, who remembers it, or by one that is gone; or the record.
HumanLease ==
    /\ lease # None /\ lease.mode = "human_handoff" /\ lease.process = browser.process
    /\ lease.owner = worker => mem.handoff # None
    /\ AwaitsItsUser
HumanRecord ==
    /\ record # None /\ Running(record.process) /\ record.state = "awaiting_user"
    /\ lease # None => lease.mode # "playwright"
Guarded ==
    /\ browser # None /\ mem.context = "none" /\ mem.process = None /\ mem.pending = None
    /\ doing.at \in {"idle", "prepare", "record"} /\ ~doing.resume
    /\ mem.handoff # None => mem.handoff.state = "awaiting_user" /\ doing.at = "idle"
    /\ HumanLease \/ HumanRecord
    /\ doing.at = "record" => HumanRecord
PrivateIsGuarded ==
    /\ private => Guarded
    /\ doing.at = "complete" => AwaitsItsUser

HandoffInv ==
    HandoffTypes /\ Numbered /\ Connected /\ NobodyIsConnected /\ LeaseNamesIt /\ PrivateIsGuarded
\* The steps of a start, each with what it comes to: refused, on to the record,
\* an orphan's browser asked to go, an attachment, a launch, attached.
Begun == worker # 0 /\ doing.at \in {"prepare", "terminating", "record", "attach"}
Refused == Begun /\ Refuse
Prepared ==
    /\ Begun /\ lease' \in {lease, None, NewLease("native_cdp", "launching", None)}
    /\ mem' \in {mem, [mem EXCEPT !.holds = TRUE]} /\ Step("record")
    /\ UNCHANGED <<record, browser, launched, worker, born, history>>
OrphanAsked ==
    /\ Begun /\ lease # None /\ lease.mode = "playwright" /\ Running(lease.process)
    /\ asked' = asked \cup {lease.process}
    /\ Step("terminating")
    /\ UNCHANGED <<durable, worker, born, mem, private>>
Attaching ==
    /\ Begun /\ lease' \in {lease, NewLease("native_cdp", "launching", None)}
    /\ mem' = [mem EXCEPT !.holds = TRUE] /\ Step("attach")
    /\ UNCHANGED <<record, browser, launched, worker, born, history>>
Launching ==
    /\ Begun /\ lease' = NewLease("playwright", "launching", None) /\ record' = None
    /\ mem' = [mem EXCEPT !.holds = TRUE] /\ Step("launch")
    /\ UNCHANGED <<browser, launched, worker, born, history>>
Attached ==
    /\ Begun /\ record # None /\ Running(record.process)
    /\ record' = [record EXCEPT !.state = "controlled"]
    /\ mem' = [mem EXCEPT !.context = "native", !.process = record.process]
    /\ Step("establish")
    /\ UNCHANGED <<lease, browser, launched, worker, born, history>>
StartSteps == Refused \/ Prepared \/ OrphanAsked \/ Attaching \/ Launching \/ Attached

LEMMA StartIsOneOfThese ==
    ASSUME HandoffConstants, HandoffTypes,
           Prepare \/ Terminated \/ ReadRecord \/ Attach
    PROVE  StartSteps
<1> USE DEF StartSteps, Begun, At
<1>1. ASSUME Prepare PROVE StartSteps
  <2>1. CASE Inspection = "none"
    BY <1>1, <2>1 DEF Prepare, Proceed, Prepared
  <2>2. CASE Inspection = "current_owner"
    BY <1>1, <2>2 DEF Prepare, Proceed, Prepared, Refused
  <2>3. CASE Inspection = "owned_orphaned"
    <3>1. lease # None /\ Running(lease.process)
      <4>1. CASE lease = None
        BY <2>3, <4>1 DEF Inspection
      <4>2. CASE lease # None /\ lease.owner = worker
        BY <2>3, <4>2 DEF Inspection
      <4>3. CASE lease # None /\ lease.owner # worker /\ ~Matched
        BY <2>3, <4>3 DEF Inspection
      <4> QED
        BY <4>1, <4>2, <4>3 DEF Matched, Running
    <3>2. CASE lease.mode = "native_cdp"
      BY <1>1, <2>3, <3>2 DEF Prepare, Terminable, Proceed, Prepared
    <3>3. CASE lease.mode # "native_cdp" /\ Terminable
      BY <1>1, <2>3, <3>1, <3>3 DEF Prepare, Terminable, OrphanAsked, durable
    <3>4. CASE lease.mode # "native_cdp" /\ ~Terminable
      BY <1>1, <2>3, <3>4 DEF Prepare, Refused
    <3> QED BY <3>2, <3>3, <3>4
  <2>4. CASE Inspection \notin {"none", "current_owner", "owned_orphaned"}
    BY <1>1, <2>4 DEF Prepare, Proceed, Prepared, Refused
  <2> QED BY <2>1, <2>2, <2>3, <2>4
<1>2. ASSUME Terminated PROVE StartSteps
  BY <1>2 DEF Terminated, Proceed, Prepared, Refused
<1>3. ASSUME ReadRecord PROVE StartSteps
  BY <1>3 DEF ReadRecord, Refused, Attaching, Launching
<1>4. ASSUME Attach PROVE StartSteps
  BY <1>4 DEF Attach, Refused, Attached
<1> QED BY <1>1, <1>2, <1>3, <1>4

\* A start that fails changes the memory it leaves only in who has the browser.
LEMMA FailingKeeps ==
    ASSUME HandoffConstants, HandoffTypes, NEW m \in Mems, Fail(m),
           doing.resume => m.handoff # None
    PROVE  /\ mem' \in Mems /\ record' \in Records \cup {None} /\ doing' = Idle
           /\ mem'.context = m.context /\ mem'.process = m.process /\ mem'.holds = m.holds
           /\ mem'.pending = m.pending /\ (mem'.handoff = None <=> m.handoff = None)
           /\ m.handoff # None => mem'.handoff.process = m.handoff.process
           /\ record' = None <=> record = None
           /\ record # None => record'.process = record.process
           /\ record' # record => record'.state = "awaiting_user"
<1> USE DEF Fail
<1>1. CASE doing.resume
  <2>1. m.handoff \in Handoffs
    BY <1>1 DEF Mems
  <2>2. [m.handoff EXCEPT !.state = "awaiting_user"] \in Handoffs
    BY <2>1 DEF Handoffs
  <2>3. mem' = [m EXCEPT !.handoff = [m.handoff EXCEPT !.state = "awaiting_user"]]
    BY <1>1
  <2>4. mem' \in Mems /\ mem'.handoff = [m.handoff EXCEPT !.state = "awaiting_user"]
        /\ mem'.context = m.context /\ mem'.process = m.process /\ mem'.holds = m.holds
        /\ mem'.pending = m.pending
    BY <2>2, <2>3 DEF Mems
  <2>5. mem'.handoff # None /\ mem'.handoff.process = m.handoff.process
    BY <2>1, <2>2, <2>4 DEF HandoffConstants, Handoffs
  <2>6. record' = record \/ (record # None /\ record' = [record EXCEPT !.state = "awaiting_user"])
    BY <1>1
  <2>7. record' \in Records \cup {None} /\ (record' = None <=> record = None)
        /\ (record # None => record'.process = record.process)
        /\ (record' # record => record'.state = "awaiting_user")
    BY <2>6 DEF HandoffTypes, HandoffConstants, Records
  <2> QED
    BY <1>1, <2>4, <2>5, <2>7
<1>2. CASE ~doing.resume
  BY <1>2 DEF HandoffTypes
<1> QED BY <1>1, <1>2

StartFails ==
    /\ doing.at \in StartPlaces \cup {"establish"} /\ doing' = Idle
    /\ lease' \in {lease, None} /\ record' \in Records \cup {None} /\ mem' \in Mems
    /\ record' = None <=> record = None
    /\ record # None => record'.process = record.process
    /\ mem'.context = "none" /\ mem'.process = None /\ mem'.pending = None
    /\ mem'.handoff = None <=> mem.handoff = None
    /\ mem.handoff # None => mem'.handoff.process = mem.handoff.process
    /\ UNCHANGED <<browser, launched, worker, born, private, asked>>

LEMMA StartFailsSo ==
    ASSUME HandoffConstants, HandoffTypes, Connected,
           Refused \/ LaunchFails \/ AttachFails \/ Unobserved
    PROVE  StartFails
<1>1. mem \in Mems
  BY DEF HandoffTypes
<1>2. PICK m \in Mems, l \in {lease, None} :
        /\ m.context = "none" /\ m.process = None /\ m.pending = mem.pending /\ m.handoff = mem.handoff
        /\ lease' = l /\ Fail(m)
        /\ doing.at \in StartPlaces \cup {"establish"}
        /\ UNCHANGED <<browser, launched, worker, born, private, asked>>
  <2>1. CASE Refused
    <3>1. doing.at \in StartPlaces /\ mem.context = "none" /\ mem.process = None
      BY <2>1 DEF Refused, Begun, Connected, StartPlaces
    <3> QED
      BY <1>1, <2>1, <3>1 DEF Refused, Refuse, history
  <2>2. CASE LaunchFails
    <3> DEFINE m == [mem EXCEPT !.holds = ~Unlocked]
    <3>1. mem.context = "none" /\ mem.process = None /\ doing.at = "launch" /\ "launch" \in StartPlaces
      BY <2>2 DEF LaunchFails, At, Connected, StartPlaces
    <3>2. m \in Mems /\ m.context = "none" /\ m.process = None /\ m.pending = mem.pending
          /\ m.handoff = mem.handoff
      BY <1>1, <3>1 DEF Mems
    <3>3. lease' \in {lease, None} /\ Fail(m)
          /\ UNCHANGED <<browser, launched, worker, born, private, asked>>
      BY <2>2 DEF LaunchFails, Released, history
    <3> HIDE DEF m
    <3> QED BY <3>1, <3>2, <3>3
  <2>3. CASE AttachFails
    <3> DEFINE m == [mem EXCEPT !.context = "none", !.process = None]
    <3>1. doing.at \in StartPlaces \cup {"establish"}
      BY <2>3 DEF AttachFails, At, StartPlaces
    <3>2. m \in Mems /\ m.context = "none" /\ m.process = None /\ m.pending = mem.pending
          /\ m.handoff = mem.handoff
      BY <1>1 DEF Mems
    <3>3. lease' = lease /\ Fail(m)
          /\ UNCHANGED <<browser, launched, worker, born, private, asked>>
      BY <2>3 DEF AttachFails, history
    <3> HIDE DEF m
    <3> QED BY <3>1, <3>2, <3>3
  <2>4. CASE Unobserved
    <3> DEFINE m == [mem EXCEPT !.context = "none", !.process = None, !.holds = FALSE]
    <3>1. doing.at = "establish"
      BY <2>4 DEF Unobserved, At
    <3>2. m \in Mems /\ m.context = "none" /\ m.process = None /\ m.pending = mem.pending
          /\ m.handoff = mem.handoff
      BY <1>1 DEF Mems
    <3>3. lease' \in {lease, None} /\ Fail(m)
          /\ UNCHANGED <<browser, launched, worker, born, private, asked>>
      BY <2>4 DEF Unobserved, Released, history
    <3> HIDE DEF m
    <3> QED BY <3>1, <3>2, <3>3
  <2> QED BY <2>1, <2>2, <2>3, <2>4
<1>3. mem.pending = None /\ (doing.resume => mem.handoff # None)
  BY <1>2 DEF Connected
<1> QED
  BY <1>2, <1>3, FailingKeeps DEF StartFails

\* A new lease is the worker's, as it was asked for; a phase changes no more than that.
LEMMA NewLeaseIsALease ==
    ASSUME HandoffConstants, HandoffTypes, worker # 0,
           NEW mode \in {"playwright", "native_cdp", "human_handoff"},
           NEW phase \in {"launching", "owned_active", "human_input"}, NEW process \in Ids \cup {None}
    PROVE  LET l == NewLease(mode, phase, process)
           IN  /\ l \in Leases /\ l # None /\ l.owner = worker /\ l.owner <= born
               /\ l.mode = mode /\ l.process = process
<1>1. worker \in 1 .. MaxWorkers /\ worker <= born
  BY DEF HandoffConstants, HandoffTypes
<1>2. NewLease(mode, phase, process) \in Leases
  BY <1>1 DEF NewLease, Leases
<1> QED
  BY <1>1, <1>2 DEF NewLease, HandoffConstants

LEMMA PhaseIsALease ==
    ASSUME HandoffConstants, HandoffTypes,
           NEW phase \in {"owned_active", "close_requested", "process_exited"}
    PROVE  LET l == Phase(phase)
           IN  /\ l \in Leases \cup {None} /\ (l = None <=> lease = None)
               /\ lease # None => l.owner = lease.owner /\ l.mode = lease.mode /\ l.process = lease.process
<1>1. CASE mem.holds /\ lease # None
  <2>1. lease \in Leases
    BY <1>1 DEF HandoffTypes
  <2>2. [lease EXCEPT !.phase = phase] \in Leases
    BY <2>1 DEF Leases
  <2>3. Phase(phase) = [lease EXCEPT !.phase = phase]
    BY <1>1 DEF Phase
  <2> QED
    BY <1>1, <2>1, <2>2, <2>3 DEF Leases, HandoffConstants
<1>2. CASE ~(mem.holds /\ lease # None)
  BY <1>2 DEF Phase, HandoffTypes
<1> QED BY <1>1, <1>2

\* What keeps the records of the worker's memory well-formed.
LEMMA MemoryFields ==
    ASSUME HandoffConstants, HandoffTypes
    PROVE  /\ mem \in Mems
           /\ mem.handoff # None => mem.handoff \in Handoffs /\ mem.handoff.process \in Ids
           /\ mem.pending # None => mem.pending \in Pendings /\ mem.pending.process \in Ids
           /\ mem.process \in Ids \cup {None}
           /\ browser # None => browser \in HandoffBrowsers /\ browser.process \in Ids
           /\ record # None => record \in Records /\ record.process \in Ids
           /\ lease # None => lease \in Leases /\ lease.process \in Ids \cup {None}
           /\ worker # 0 => worker \in 1 .. MaxWorkers /\ worker = born
BY DEF HandoffConstants, HandoffTypes, Mems, Handoffs, Pendings, HandoffBrowsers, Records,
   Leases

\* The steps of a release and of a resume over a process that has exited, and the
\* human's launch, in what they come to.
ExitReleased ==
    /\ worker # 0 /\ doing.at \in {"continue", "detached"} /\ mem.pending # None
    /\ ~Running(mem.pending.process)
    /\ lease' = None \/ lease' \in {lease, Phase("process_exited")}
    /\ mem' \in Mems /\ mem'.pending # None /\ mem'.pending.process = mem.pending.process
    /\ mem'.context = mem.context /\ mem'.process = mem.process /\ mem'.handoff = mem.handoff
    /\ doing' \in {[doing EXCEPT !.at = "claim human"], Idle}
    /\ UNCHANGED <<record, browser, launched, worker, born, private, asked>>
HumanLaunched ==
    /\ worker # 0 /\ doing.at = "launch human" /\ browser = None
    /\ launched' = launched + 1 /\ launched + 1 \in Ids
    /\ browser' \in HandoffBrowsers /\ browser'.process = launched + 1
    /\ doing' \in {[doing EXCEPT !.at = "record human"], [doing EXCEPT !.at = "complete"]}
    /\ UNCHANGED <<lease, record, worker, born, mem, private, asked>>
ExitResumed ==
    /\ worker # 0 /\ doing.at = "idle" /\ mem.handoff # None /\ browser = None
    /\ lease' \in {lease, None}
    /\ mem' \in Mems /\ mem'.handoff # None /\ mem'.handoff.process = mem.handoff.process
    /\ mem'.context = mem.context /\ mem'.process = mem.process /\ mem'.pending = mem.pending
    /\ doing' \in {doing, [at |-> "prepare", resume |-> TRUE]}
    /\ UNCHANGED <<record, browser, launched, worker, born, asked>>
    /\ private' = FALSE \/ UNCHANGED <<doing, private>>

LEMMA ExitReleasedSo ==
    ASSUME HandoffConstants, HandoffTypes, Connected, ReleaseExited
    PROVE  ExitReleased
<1> DEFINE pending == [mem.pending EXCEPT !.strategy = "process_relaunch"]
<1>1. /\ worker # 0 /\ doing.at \in {"continue", "detached"} /\ ~Running(mem.pending.process)
      /\ mem' = [mem EXCEPT !.pending = pending, !.holds = FALSE] \/ mem' = [mem EXCEPT !.pending = pending]
      /\ lease' = None \/ lease' \in {lease, Phase("process_exited")}
      /\ doing' \in {[doing EXCEPT !.at = "claim human"], Idle}
      /\ UNCHANGED <<record, browser, launched, worker, born, private, asked>>
  BY DEF ReleaseExited, Released, Step, history
<1>2. mem.pending # None
  BY <1>1 DEF Connected, ReleasePlaces
<1>3. mem \in Mems /\ mem.pending \in Pendings /\ None \notin Pendings
  BY <1>2, MemoryFields DEF HandoffConstants
<1>4. pending \in Pendings /\ pending.process = mem.pending.process
  BY <1>3 DEF Pendings
<1> HIDE DEF pending
<1>5. /\ mem' \in Mems /\ mem'.pending = pending /\ mem'.context = mem.context
      /\ mem'.process = mem.process /\ mem'.handoff = mem.handoff
  BY <1>1, <1>3, <1>4 DEF Mems
<1> QED
  BY <1>1, <1>2, <1>3, <1>4, <1>5 DEF ExitReleased

LEMMA HumanLaunchedSo ==
    ASSUME HandoffConstants, HandoffTypes, LaunchHuman
    PROVE  HumanLaunched
<1>1. /\ worker # 0 /\ doing.at = "launch human" /\ browser = None /\ launched < MaxProcesses
      /\ launched' = launched + 1 /\ UNCHANGED <<lease, record, worker, born, mem, private, asked>>
  BY DEF LaunchHuman, At, Unlocked, history
<1>2. PICK kind \in {"native", "plain"} :
        /\ browser' = [process |-> launched + 1, kind |-> kind, marker |-> TRUE]
        /\ doing' \in {[doing EXCEPT !.at = "record human"], [doing EXCEPT !.at = "complete"]}
  BY DEF LaunchHuman, Step
<1>3. launched \in 0 .. MaxProcesses /\ MaxProcesses \in Nat
  BY DEF HandoffTypes, HandoffConstants
<1>4. launched + 1 \in Ids
  <2>1. launched < MaxProcesses
    BY <1>1
  <2> QED
    BY <1>3, <2>1 DEF Ids
<1>5. browser' \in HandoffBrowsers /\ browser'.process = launched + 1
  BY <1>2, <1>4 DEF HandoffBrowsers
<1> QED
  BY <1>1, <1>2, <1>4, <1>5 DEF HumanLaunched

LEMMA ExitResumedSo ==
    ASSUME HandoffConstants, HandoffTypes, ResumeExited
    PROVE  ExitResumed
<1> DEFINE ready == [mem.handoff EXCEPT !.state = "ready_for_agent_verification"]
           offered == [mem.handoff EXCEPT !.offered = TRUE]
<1>1. /\ worker # 0 /\ doing.at = "idle" /\ mem.handoff # None /\ browser = None
      /\ lease' \in {lease, None} /\ UNCHANGED <<record, browser, launched, worker, born, asked>>
      /\ \/ /\ mem' = [mem EXCEPT !.holds = FALSE, !.handoff = ready]
            /\ doing' = [at |-> "prepare", resume |-> TRUE] /\ private' = FALSE
         \/ mem' = [mem EXCEPT !.holds = FALSE, !.handoff = offered] /\ UNCHANGED <<doing, private>>
  BY DEF ResumeExited, At, Awaiting, Unlocked, Released
<1>2. mem \in Mems /\ mem.handoff \in Handoffs /\ None \notin Handoffs
  BY <1>1, MemoryFields DEF HandoffConstants
<1>3. /\ ready \in Handoffs /\ ready.process = mem.handoff.process
      /\ offered \in Handoffs /\ offered.process = mem.handoff.process
  BY <1>2 DEF Handoffs
<1> HIDE DEF ready, offered
<1>4. PICK handoff \in {ready, offered} : mem' = [mem EXCEPT !.holds = FALSE, !.handoff = handoff]
  BY <1>1
<1>5. /\ mem' \in Mems /\ mem'.handoff = handoff /\ mem'.context = mem.context
      /\ mem'.process = mem.process /\ mem'.pending = mem.pending
  BY <1>2, <1>3, <1>4 DEF Mems
<1>6. private' = FALSE \/ UNCHANGED <<doing, private>>
  BY <1>1
<1>7. doing' \in {doing, [at |-> "prepare", resume |-> TRUE]}
  BY <1>1
<1>8. mem'.handoff # None /\ mem'.handoff.process = mem.handoff.process
  BY <1>2, <1>3, <1>4, <1>5
<1> QED
  BY <1>1, <1>5, <1>6, <1>7, <1>8 DEF ExitResumed

\* A start under way does not get past the guard: it is refused, or the record will.
LEMMA PreparingIsGuarded ==
    ASSUME HandoffConstants, HandoffInv, Prepare
    PROVE  PrivateIsGuarded'
<1> USE DEF HandoffInv
<1>1. doing.at = "prepare" /\ worker # 0 /\ browser' = browser /\ private' = private /\ worker' = worker
  <2>1. doing.at = "prepare" /\ worker # 0
    BY DEF Prepare, At
  <2>2. StartSteps
    BY StartIsOneOfThese
  <2> QED
    BY <2>1, <2>2 DEF StartSteps, Begun, Refused, Refuse, Prepared, OrphanAsked, Attaching,
       Launching, Attached, history, durable
<1>2. doing \in [at : HandoffPlaces, resume : BOOLEAN] /\ mem \in Mems
  BY MemoryFields DEF HandoffTypes
<1>3. doing'.at # "complete"
  <2>1. StartSteps
    BY StartIsOneOfThese
  <2>2. CASE Refused
    BY <2>2 DEF Refused, Refuse, Fail, Idle
  <2>3. CASE Prepared \/ OrphanAsked \/ Attaching \/ Launching \/ Attached
    BY <1>2, <2>3 DEF Prepared, OrphanAsked, Attaching, Launching, Attached, Step
  <2> QED BY <2>1, <2>2, <2>3 DEF StartSteps
<1>4. ASSUME private, Refuse
      PROVE  PrivateIsGuarded'
  <2>1. ~doing.resume /\ Guarded
    BY <1>4 DEF PrivateIsGuarded, Guarded
  <2>2. UNCHANGED <<lease, record, browser, mem, worker>> /\ doing' = Idle
    BY <1>1, <1>4, <2>1 DEF Refuse, Fail
  <2>3. HumanLease' = HumanLease /\ HumanRecord' = HumanRecord
    BY <2>2 DEF HumanLease, HumanRecord, AwaitsItsUser, Running
  <2> QED
    BY <1>1, <2>1, <2>2, <2>3 DEF PrivateIsGuarded, Guarded, Idle
<1>5. ASSUME private, HumanRecord, NEW l, NEW m, Proceed(l, m), l # None => l.mode # "playwright",
             m = mem \/ m = [mem EXCEPT !.holds = TRUE]
      PROVE  PrivateIsGuarded'
  <2>1. Guarded
    BY <1>5 DEF PrivateIsGuarded
  <2>2. UNCHANGED <<record, browser>> /\ lease' = l
    BY <1>5 DEF Proceed
  <2>3. mem'.context = mem.context /\ mem'.process = mem.process /\ mem'.pending = mem.pending
        /\ mem'.handoff = mem.handoff
    <3>1. mem' = mem \/ mem' = [mem EXCEPT !.holds = TRUE]
      BY <1>5 DEF Proceed
    <3> QED
      BY <1>2, <3>1 DEF Mems
  <2>4. doing'.at = "record" /\ doing'.resume = doing.resume
    BY <1>2, <1>5 DEF Proceed, Step
  <2>5. HumanRecord'
    BY <1>5, <2>2 DEF HumanRecord, Running
  <2> QED
    BY <1>1, <1>3, <2>1, <2>2, <2>3, <2>4, <2>5 DEF PrivateIsGuarded, Guarded
<1>6. ASSUME private
      PROVE  PrivateIsGuarded'
  <2>1. mem.handoff = None /\ browser # None /\ (HumanLease \/ HumanRecord)
    BY <1>1, <1>6 DEF PrivateIsGuarded, Guarded
  <2>2. CASE lease = None
    <3>1. Inspection = "none" /\ HumanRecord
      BY <2>1, <2>2 DEF Inspection, HumanLease
    <3>2. Proceed(lease, mem)
      BY <3>1 DEF Prepare
    <3> QED BY <1>5, <1>6, <2>2, <3>1, <3>2
  <2>3. CASE lease # None /\ lease.owner = worker
    <3>1. Inspection = "current_owner" /\ HumanRecord
      BY <2>1, <2>3 DEF Inspection, HumanLease
    <3>2. Proceed(lease, mem) \/ Refuse
      BY <3>1 DEF Prepare
    <3> QED BY <1>4, <1>5, <1>6, <2>3, <3>1, <3>2 DEF HumanRecord
  <2>4. CASE lease # None /\ lease.owner # worker /\ Matched
    <3>1. Inspection = "owned_orphaned" /\ lease.mode # "playwright"
      BY <2>1, <2>4 DEF Inspection, HumanLease, HumanRecord
    <3>2. CASE lease.mode = "native_cdp"
      <4>1. Proceed(NewLease("native_cdp", "launching", None), [mem EXCEPT !.holds = TRUE])
        BY <3>1, <3>2 DEF Prepare, Terminable
      <4>2. NewLease("native_cdp", "launching", None).mode = "native_cdp"
        BY DEF NewLease
      <4>3. HumanRecord
        BY <2>1, <3>2 DEF HumanLease
      <4> QED BY <1>5, <1>6, <4>1, <4>2, <4>3
    <3>3. CASE lease.mode # "native_cdp"
      BY <1>4, <1>6, <3>1, <3>3 DEF Prepare, Terminable
    <3> QED BY <3>2, <3>3
  <2>5. CASE lease # None /\ lease.owner # worker /\ ~Matched
    <3>1. Inspection = "abandoned" /\ ~Unlocked
      BY <2>1, <2>5 DEF Inspection, Unlocked
    <3> QED BY <1>4, <1>6, <3>1 DEF Prepare
  <2> QED BY <2>2, <2>3, <2>4, <2>5
<1>7. ASSUME ~private
      PROVE  PrivateIsGuarded'
  BY <1>1, <1>3, <1>7 DEF PrivateIsGuarded
<1> QED BY <1>6, <1>7

\* Every step of the next-state relation, in what it comes to.
HandoffSteps ==
    \/ StartFails \/ Prepared \/ OrphanAsked \/ Attaching \/ Launching \/ Attached
    \/ ExitReleased \/ HumanLaunched \/ ExitResumed \/ Start \/ Launch \/ Establish
    \/ Request \/ Continue \/ StillPending \/ DetachNative \/ RecordAwaiting \/ ClaimHuman
    \/ LaunchHumanFails \/ RecordHuman \/ Complete \/ Restore \/ ResumeGone \/ Adopt
    \/ RecordControlled \/ ResumeLocked \/ Resumed \/ ResumeFails \/ Verify \/ Stop
    \/ StopFinishes \/ DetachForWorkerShutdown \/ Crash \/ Restart \/ BrowserExits

LEMMA NextIsOneOfThese ==
    ASSUME HandoffConstants, HandoffTypes, Connected, Next
    PROVE  HandoffSteps
BY StartIsOneOfThese, StartFailsSo, ExitReleasedSo, HumanLaunchedSo, ExitResumedSo
   DEF Next, StartSteps, HandoffSteps

\* The worker remembers what it may.
LEMMA MemoryIsTyped ==
    ASSUME HandoffConstants, HandoffInv, HandoffSteps
    PROVE  mem' \in Mems
<1> USE DEF HandoffInv
<1>m. /\ mem \in Mems /\ (mem.handoff # None => mem.handoff \in Handoffs)
      /\ (mem.pending # None => mem.pending \in Pendings)
  BY MemoryFields
<1>1. CASE StartFails \/ OrphanAsked \/ Attaching \/ Launching \/ ExitReleased
         \/ HumanLaunched
  BY <1>1, <1>m DEF StartFails, Idle, StartPlaces, OrphanAsked, Begun, Step, durable,
     Attaching, history, Launching, ExitReleased, HumanLaunched, Mems, Connected,
     HandoffConstants, Pendings, Handoffs, HandoffBrowsers
<1>2. CASE ExitResumed \/ Start \/ Establish
  BY <1>2, <1>m DEF ExitResumed, Start, At, Awaiting, Step, durable, history, Establish,
     Running, Mems, Connected, HandoffConstants, Pendings, Handoffs, HandoffBrowsers
<1>3. CASE Request
  BY <1>3, <1>m DEF Request, At, Step, Mems, Connected, HandoffConstants, Pendings, Handoffs,
     HandoffBrowsers
<1>4. CASE Continue
  BY <1>4, <1>m DEF Continue, At, Step, durable, history, Mems, Connected, HandoffConstants,
     Pendings, Handoffs, HandoffBrowsers
<1>5. CASE StillPending
  BY <1>5, <1>m DEF StillPending, Idle, durable, history, Mems, Connected, HandoffConstants,
     Pendings, Handoffs, HandoffBrowsers
<1>6. CASE DetachNative \/ RecordAwaiting \/ ClaimHuman
  BY <1>6, <1>m DEF DetachNative, At, SameProcess, Running, Step, history, RecordAwaiting,
     ClaimHuman, Mems, Connected, HandoffConstants, Pendings, Handoffs, HandoffBrowsers
<1>7. CASE LaunchHumanFails \/ RecordHuman \/ ResumeGone
  BY <1>7, <1>m DEF LaunchHumanFails, At, Unlocked, Released, Idle, history, RecordHuman,
     Step, ResumeGone, Awaiting, Running, Mems, Connected, HandoffConstants, Pendings,
     Handoffs, HandoffBrowsers
<1>8. CASE Adopt
  BY <1>8, <1>m DEF Adopt, At, Awaiting, Running, Transition, Matched, OwnerShowsHandoff,
     Proves, Mems, Connected, HandoffConstants, Pendings, Handoffs, HandoffBrowsers
<1>9. CASE RecordControlled
  BY <1>9, <1>m DEF RecordControlled, At, Step, history, Mems, Connected, HandoffConstants,
     Pendings, Handoffs, HandoffBrowsers
<1>10. CASE ResumeLocked
  BY <1>10, <1>m DEF ResumeLocked, At, Awaiting, Running, Unlocked, history, Mems, Connected,
     HandoffConstants, Pendings, Handoffs, HandoffBrowsers
<1>11. CASE Resumed
  BY <1>11, <1>m DEF Resumed, At, Idle, history, Mems, Connected, HandoffConstants, Pendings,
     Handoffs, HandoffBrowsers
<1>12. CASE ResumeFails
  BY <1>12, <1>m DEF ResumeFails, At, Fail, Idle, Running, history, Mems, Connected,
     HandoffConstants, Pendings, Handoffs, HandoffBrowsers
<1>13. CASE Verify
  BY <1>13, <1>m DEF Verify, At, durable, history, Mems, Connected, HandoffConstants,
     Pendings, Handoffs, HandoffBrowsers
<1>14. CASE Stop
  BY <1>14, <1>m DEF Stop, At, StopRefused, Awaiting, CloseOwned, Step, Mems, Connected,
     HandoffConstants, Pendings, Handoffs, HandoffBrowsers
<1>15. CASE DetachForWorkerShutdown
  BY <1>15, <1>m DEF DetachForWorkerShutdown, At, Awaiting, Blank, Idle, history, Mems,
     Connected, HandoffConstants, Pendings, Handoffs, HandoffBrowsers
<1>16. CASE Crash
  BY <1>16, <1>m DEF Crash, Blank, Idle, durable, history, Mems, Connected, HandoffConstants,
     Pendings, Handoffs, HandoffBrowsers
<1>17. CASE Restart \/ BrowserExits
  BY <1>17, <1>m DEF Restart, durable, history, BrowserExits, Idle, Mems, Connected,
     HandoffConstants, Pendings, Handoffs, HandoffBrowsers
<1>18. CASE Prepared
  <2>1. mem' = mem \/ mem' = [mem EXCEPT !.holds = TRUE]
    BY <1>18 DEF Prepared
  <2> QED
    BY <1>m, <2>1 DEF Mems
<1>19. CASE Attached
  <2>1. record.process \in Ids /\ mem' = [mem EXCEPT !.context = "native", !.process = record.process]
    BY <1>19, MemoryFields DEF Attached
  <2> QED
    BY <1>m, <2>1 DEF Mems
<1>20. CASE Launch
  <2>1. launched + 1 \in Ids
    BY <1>20 DEF Launch, HandoffTypes, HandoffConstants, Ids
  <2>2. mem' = [mem EXCEPT !.context = "playwright", !.process = launched + 1]
    BY <1>20 DEF Launch
  <2> QED
    BY <1>m, <2>1, <2>2 DEF Mems
<1>21. CASE Complete
  <2>1. CASE UNCHANGED mem
    BY <1>m, <2>1
  <2>2. CASE mem' # mem
    <3> DEFINE handoff == [state |-> "awaiting_user", process |-> browser.process,
                           continuous |-> browser.kind = "native", offered |-> FALSE]
    <3>1. browser # None /\ mem' = [mem EXCEPT !.holds = TRUE, !.pending = None, !.handoff = handoff]
      BY <1>21, <2>2 DEF Complete
    <3>2. handoff \in Handoffs
      BY <3>1, MemoryFields DEF Handoffs, HandoffBrowsers
    <3> HIDE DEF handoff
    <3> QED
      BY <1>m, <3>1, <3>2 DEF Mems
  <2> QED BY <2>1, <2>2
<1>22. CASE Restore
  <2> DEFINE handoff == [state |-> "awaiting_user", process |-> record.process, continuous |-> TRUE,
                         offered |-> FALSE]
  <2>1. record # None /\ mem' = [mem EXCEPT !.handoff = handoff]
    BY <1>22 DEF Restore, CanRestore
  <2>2. handoff \in Handoffs
    BY <2>1, MemoryFields DEF Handoffs
  <2> HIDE DEF handoff
  <2> QED
    BY <1>m, <2>1, <2>2 DEF Mems
<1>23. CASE StopFinishes
  <2>1. mem' = [mem EXCEPT !.process = None, !.holds = FALSE] \/ mem' = [mem EXCEPT !.process = None]
    BY <1>23 DEF StopFinishes
  <2> QED
    BY <1>m, <2>1 DEF Mems
<1> QED
  BY <1>1, <1>2, <1>3, <1>4, <1>5, <1>6, <1>7, <1>8, <1>9, <1>10, <1>11, <1>12, <1>13, <1>14,
     <1>15, <1>16, <1>17, <1>18, <1>19, <1>20, <1>21, <1>22, <1>23 DEF HandoffSteps

\* The lease is one.
LEMMA LeaseIsTyped ==
    ASSUME HandoffConstants, HandoffInv, HandoffSteps
    PROVE  lease' \in Leases \cup {None}
<1> USE DEF HandoffInv
<1>1. CASE StartFails \/ LaunchHumanFails \/ ExitResumed \/ StopFinishes
  BY <1>1 DEF StartFails, Idle, StartPlaces, LaunchHumanFails, At, Released, history,
     ExitResumed, StopFinishes, HandoffTypes
<1>2. CASE OrphanAsked \/ Attached \/ HumanLaunched \/ Start \/ Launch \/ Continue
         \/ StillPending \/ DetachNative \/ RecordAwaiting \/ RecordHuman \/ Restore
         \/ RecordControlled \/ Resumed \/ ResumeFails \/ Verify \/ Crash \/ Restart
         \/ BrowserExits
  BY <1>2 DEF OrphanAsked, Begun, Step, durable, Attached, history, HumanLaunched, Start, At,
     Launch, Continue, StillPending, Idle, DetachNative, SameProcess, RecordAwaiting,
     RecordHuman, Restore, RecordControlled, Resumed, ResumeFails, Fail, Verify, Crash,
     Blank, Restart, BrowserExits, HandoffTypes
<1>3. CASE Prepared
  <2>1. NewLease("native_cdp", "launching", None) \in Leases
    BY <1>3, NewLeaseIsALease DEF Prepared, Begun
  <2>2. lease' \in {lease, None, NewLease("native_cdp", "launching", None)}
    BY <1>3 DEF Prepared
  <2> QED
    BY <2>1, <2>2 DEF HandoffTypes
<1>4. CASE Attaching
  <2>1. NewLease("native_cdp", "launching", None) \in Leases
    BY <1>4, NewLeaseIsALease DEF Attaching, Begun
  <2> QED
    BY <1>4, <2>1 DEF Attaching, HandoffTypes
<1>5. CASE Launching
  BY <1>5, NewLeaseIsALease DEF Launching, Begun, Step, history, HandoffTypes
<1>6. CASE Establish
  BY <1>6, NewLeaseIsALease, MemoryFields DEF Establish, At, Step, history, HandoffTypes
<1>7. CASE Request
  BY <1>7, PhaseIsALease, MemoryFields DEF Request, At, Step, HandoffTypes
<1>8. CASE ExitReleased
  BY <1>8, PhaseIsALease, MemoryFields DEF ExitReleased, Idle, HandoffTypes
<1>9. CASE ClaimHuman
  BY <1>9, NewLeaseIsALease DEF ClaimHuman, At, Step, history, HandoffTypes
<1>10. CASE Complete
  BY <1>10, NewLeaseIsALease, MemoryFields DEF Complete, At, Idle, HandoffTypes
<1>11. CASE ResumeGone
  BY <1>11, PhaseIsALease, MemoryFields DEF ResumeGone, At, Released, HandoffTypes
<1>12. CASE Adopt
  BY <1>12, NewLeaseIsALease, MemoryFields DEF Adopt, At, HandoffTypes
<1>13. CASE ResumeLocked
  BY <1>13, PhaseIsALease, MemoryFields DEF ResumeLocked, At, history, HandoffTypes
<1>14. CASE Stop
  BY <1>14, PhaseIsALease, MemoryFields DEF Stop, At, StopRefused, CloseOwned, Step,
     HandoffTypes
<1>15. CASE DetachForWorkerShutdown
  BY <1>15, PhaseIsALease, MemoryFields DEF DetachForWorkerShutdown, At, Blank, Idle,
     history, HandoffTypes
<1> QED
  BY <1>1, <1>2, <1>3, <1>4, <1>5, <1>6, <1>7, <1>8, <1>9, <1>10, <1>11, <1>12, <1>13, <1>14,
     <1>15 DEF HandoffSteps

\* So is the record.
LEMMA RecordIsTyped ==
    ASSUME HandoffConstants, HandoffInv, HandoffSteps
    PROVE  record' \in Records \cup {None}
<1> USE DEF HandoffInv
<1>1. CASE StartFails \/ Launching \/ ResumeGone \/ StopFinishes
  BY <1>1 DEF StartFails, Idle, StartPlaces, Launching, Begun, Step, history, ResumeGone, At,
     Running, StopFinishes, HandoffTypes
<1>2. CASE Prepared \/ OrphanAsked \/ Attaching \/ ExitReleased \/ HumanLaunched
         \/ ExitResumed \/ Start \/ Launch \/ Establish \/ Request \/ Continue
         \/ StillPending \/ DetachNative \/ ClaimHuman \/ LaunchHumanFails \/ Complete
         \/ Restore \/ Adopt \/ ResumeLocked \/ Resumed \/ Verify \/ Stop \/ Crash
         \/ Restart \/ BrowserExits
  BY <1>2 DEF Prepared, Begun, Step, history, OrphanAsked, durable, Attaching, ExitReleased,
     Idle, HumanLaunched, ExitResumed, Start, At, Launch, Establish, Running, Request,
     Continue, StillPending, DetachNative, SameProcess, ClaimHuman, LaunchHumanFails,
     Complete, Restore, Adopt, ResumeLocked, Resumed, Verify, Stop, StopRefused, CloseOwned,
     Crash, Blank, Restart, BrowserExits, HandoffTypes
<1>3. CASE Attached
  BY <1>3, MemoryFields DEF Attached, Begun, Step, history, Records, HandoffTypes
<1>4. CASE RecordAwaiting
  BY <1>4, MemoryFields DEF RecordAwaiting, At, Running, Step, history, Records, Connected,
     ReleasePlaces, HandoffTypes
<1>5. CASE RecordHuman
  <2>1. doing.at = "record human" /\ record' = [process |-> launched, state |-> "awaiting_user"]
    BY <1>5 DEF RecordHuman, At
  <2>2. launched \in Launched /\ launched \in 0 .. MaxProcesses /\ MaxProcesses \in Nat
    BY <2>1 DEF Numbered, HandoffTypes, HandoffConstants
  <2>3. launched \in Ids
    BY <2>2 DEF Ids, Launched
  <2> QED
    BY <2>1, <2>3 DEF Records
<1>6. CASE RecordControlled
  BY <1>6, MemoryFields DEF RecordControlled, At, Step, history, Records, Connected,
     HandoffConstants, HandoffTypes
<1>7. CASE ResumeFails
  <2>1. Fail(mem) /\ doing.resume => mem.handoff # None
    BY <1>7 DEF ResumeFails
  <2> QED
    BY <1>7, <2>1, FailingKeeps, MemoryFields DEF ResumeFails
<1>8. CASE DetachForWorkerShutdown
  BY <1>8, MemoryFields DEF DetachForWorkerShutdown, At, Blank, Idle, history, Records,
     Connected, HandoffTypes
<1> QED
  BY <1>1, <1>2, <1>3, <1>4, <1>5, <1>6, <1>7, <1>8 DEF HandoffSteps

\* So is the browser.
LEMMA BrowserIsTyped ==
    ASSUME HandoffConstants, HandoffInv, HandoffSteps
    PROVE  browser' \in HandoffBrowsers \cup {None}
<1> USE DEF HandoffInv
<1>1. CASE Launch
  BY <1>1 DEF Launch, At, Step, history, HandoffConstants, HandoffBrowsers, Ids, HandoffTypes
<1>2. CASE DetachNative
  BY <1>2, MemoryFields DEF DetachNative, At, SameProcess, Running, Step, history,
     HandoffBrowsers, HandoffTypes
<1>3. CASE HumanLaunched
  BY <1>3 DEF HumanLaunched, HandoffTypes
<1>4. CASE Resumed
  BY <1>4, MemoryFields DEF Resumed, At, Idle, history, HandoffBrowsers, HandoffTypes
<1>5. CASE BrowserExits
  BY <1>5 DEF BrowserExits, Idle, HandoffTypes
<1>6. CASE StartFails \/ Prepared \/ OrphanAsked \/ Attaching \/ Launching \/ Attached
         \/ ExitReleased \/ ExitResumed \/ Start \/ Establish \/ Request \/ Continue
         \/ StillPending \/ RecordAwaiting \/ ClaimHuman \/ LaunchHumanFails \/ RecordHuman
         \/ Complete \/ Restore \/ ResumeGone \/ Adopt \/ RecordControlled \/ ResumeLocked
         \/ ResumeFails \/ Verify \/ Stop \/ StopFinishes \/ DetachForWorkerShutdown
         \/ Crash \/ Restart
  BY <1>6 DEF StartFails, Idle, StartPlaces, Prepared, Begun, Step, history, OrphanAsked,
     durable, Attaching, Launching, Attached, ExitReleased, ExitResumed, Start, At,
     Establish, Running, Request, Continue, StillPending, RecordAwaiting, ClaimHuman,
     LaunchHumanFails, RecordHuman, Complete, Restore, ResumeGone, Adopt, RecordControlled,
     ResumeLocked, ResumeFails, Fail, Verify, Stop, StopRefused, CloseOwned, StopFinishes,
     DetachForWorkerShutdown, Blank, Crash, Restart, HandoffTypes
<1> QED
  BY <1>1, <1>2, <1>3, <1>4, <1>5, <1>6 DEF HandoffSteps

\* Only processes are asked to close.
LEMMA AskedAreProcesses ==
    ASSUME HandoffConstants, HandoffInv, HandoffSteps
    PROVE  asked' \subseteq Ids
<1> USE DEF HandoffInv
<1>1. CASE OrphanAsked
  <2>1. lease.process \in Ids
    BY <1>1, MemoryFields DEF OrphanAsked, Running, HandoffConstants
  <2> QED
    BY <1>1, <2>1 DEF OrphanAsked, HandoffTypes
<1>2. CASE Request
  BY <1>2, MemoryFields DEF Request, At, Step, HandoffConstants, Connected, HandoffTypes
<1>3. CASE Stop
  BY <1>3, MemoryFields DEF Stop, At, StopRefused, CloseOwned, Step, HandoffConstants,
     Connected, HandoffTypes
<1>4. CASE StartFails \/ Prepared \/ Attaching \/ Launching \/ Attached \/ ExitReleased
         \/ HumanLaunched \/ ExitResumed \/ Start \/ Launch \/ Establish \/ Continue
         \/ StillPending \/ DetachNative \/ RecordAwaiting \/ ClaimHuman \/ LaunchHumanFails
         \/ RecordHuman \/ Complete \/ Restore \/ ResumeGone \/ Adopt \/ RecordControlled
         \/ ResumeLocked \/ Resumed \/ ResumeFails \/ Verify \/ StopFinishes
         \/ DetachForWorkerShutdown \/ Crash \/ Restart \/ BrowserExits
  BY <1>4 DEF StartFails, Idle, StartPlaces, Prepared, Begun, Step, history, Attaching,
     Launching, Attached, ExitReleased, HumanLaunched, ExitResumed, Start, At, durable,
     Launch, Establish, Running, Continue, StillPending, DetachNative, SameProcess,
     RecordAwaiting, ClaimHuman, LaunchHumanFails, RecordHuman, Complete, Restore,
     ResumeGone, Adopt, RecordControlled, ResumeLocked, Resumed, ResumeFails, Fail, Verify,
     StopFinishes, DetachForWorkerShutdown, Blank, Crash, Restart, BrowserExits, HandoffTypes
<1> QED
  BY <1>1, <1>2, <1>3, <1>4 DEF HandoffSteps

\* Workers and processes are counted.
LEMMA CountersAreTyped ==
    ASSUME HandoffConstants, HandoffInv, HandoffSteps
    PROVE  (launched \in 0 .. MaxProcesses /\ born \in 1 .. MaxWorkers /\ worker \in {0, born} /\ private \in BOOLEAN)'
<1> USE DEF HandoffInv
<1>1. CASE Complete \/ Restore \/ ResumeGone \/ Adopt \/ ExitResumed
         \/ DetachForWorkerShutdown
  BY <1>1 DEF Complete, At, Idle, Running, Restore, durable, ResumeGone, Adopt, ExitResumed,
     DetachForWorkerShutdown, Blank, history, HandoffTypes
<1>2. CASE Crash \/ BrowserExits
  BY <1>2 DEF Crash, Blank, Idle, durable, history, BrowserExits, HandoffTypes
<1>3. CASE StartFails \/ Prepared \/ OrphanAsked \/ Attaching \/ Launching \/ Attached
         \/ ExitReleased \/ Start \/ Establish \/ Request \/ Continue \/ StillPending
         \/ DetachNative \/ RecordAwaiting \/ ClaimHuman \/ LaunchHumanFails \/ RecordHuman
         \/ RecordControlled \/ ResumeLocked \/ Resumed \/ ResumeFails \/ Verify \/ Stop
         \/ StopFinishes
  BY <1>3 DEF StartFails, Idle, StartPlaces, Prepared, Begun, Step, history, OrphanAsked,
     durable, Attaching, Launching, Attached, ExitReleased, Start, At, Establish, Running,
     Request, Continue, StillPending, DetachNative, SameProcess, RecordAwaiting, ClaimHuman,
     LaunchHumanFails, RecordHuman, RecordControlled, ResumeLocked, Resumed, ResumeFails,
     Fail, Verify, Stop, StopRefused, CloseOwned, StopFinishes, HandoffTypes
<1>4. CASE Launch
  BY <1>4 DEF Launch, At, Step, history, HandoffConstants, HandoffTypes
<1>5. CASE HumanLaunched
  <2>1. launched' \in 1 .. MaxProcesses /\ UNCHANGED <<born, worker, private>>
    BY <1>5 DEF HumanLaunched, Ids
  <2>2. MaxProcesses \in Nat
    BY DEF HandoffConstants
  <2> QED
    BY <2>1, <2>2 DEF HandoffTypes
<1>6. CASE Restart
  BY <1>6 DEF Restart, durable, history, HandoffConstants, HandoffTypes
<1> QED
  BY <1>1, <1>2, <1>3, <1>4, <1>5, <1>6 DEF HandoffSteps

\* A command is at one of its steps.
LEMMA CommandIsTyped ==
    ASSUME HandoffConstants, HandoffInv, HandoffSteps
    PROVE  doing' \in [at : HandoffPlaces, resume : BOOLEAN]
<1> USE DEF HandoffInv
<1>d. doing \in [at : HandoffPlaces, resume : BOOLEAN]
  BY DEF HandoffTypes
<1>1. CASE StartFails
  BY <1>1, <1>d DEF StartFails, Idle, StartPlaces, HandoffPlaces, ReleasePlaces
<1>2. CASE Prepared
  BY <1>2, <1>d DEF Prepared, Begun, Step, history, HandoffPlaces, StartPlaces, ReleasePlaces
<1>3. CASE OrphanAsked
  BY <1>3, <1>d DEF OrphanAsked, Begun, Step, durable, HandoffPlaces, StartPlaces,
     ReleasePlaces
<1>4. CASE Attaching \/ Launching \/ Attached
  BY <1>4, <1>d DEF Attaching, Begun, Step, history, Launching, Attached, HandoffPlaces,
     StartPlaces, ReleasePlaces
<1>5. CASE HumanLaunched \/ Start \/ Launch \/ Establish \/ Request \/ Continue
  BY <1>5, <1>d DEF HumanLaunched, Start, At, Step, durable, history, Launch, Establish,
     Request, Continue, HandoffPlaces, StartPlaces, ReleasePlaces
<1>6. CASE StillPending
  BY <1>6, <1>d DEF StillPending, Idle, durable, history, HandoffPlaces, StartPlaces,
     ReleasePlaces
<1>7. CASE DetachNative
  BY <1>7, <1>d DEF DetachNative, At, SameProcess, Step, history, HandoffPlaces, StartPlaces,
     ReleasePlaces
<1>8. CASE RecordAwaiting
  BY <1>8, <1>d DEF RecordAwaiting, At, Step, history, HandoffPlaces, StartPlaces,
     ReleasePlaces
<1>9. CASE ClaimHuman
  BY <1>9, <1>d DEF ClaimHuman, At, Step, history, HandoffPlaces, StartPlaces, ReleasePlaces
<1>10. CASE LaunchHumanFails
  BY <1>10, <1>d DEF LaunchHumanFails, At, Idle, history, HandoffPlaces, StartPlaces,
     ReleasePlaces
<1>11. CASE RecordHuman
  BY <1>11, <1>d DEF RecordHuman, At, Step, history, HandoffPlaces, StartPlaces,
     ReleasePlaces
<1>12. CASE Complete
  BY <1>12, <1>d DEF Complete, At, Idle, HandoffPlaces, StartPlaces, ReleasePlaces
<1>13. CASE Adopt
  BY <1>13, <1>d DEF Adopt, At, HandoffPlaces, StartPlaces, ReleasePlaces
<1>14. CASE RecordControlled
  BY <1>14, <1>d DEF RecordControlled, At, Step, history, HandoffPlaces, StartPlaces,
     ReleasePlaces
<1>15. CASE Resumed
  BY <1>15, <1>d DEF Resumed, At, Idle, history, HandoffPlaces, StartPlaces, ReleasePlaces
<1>16. CASE ResumeFails
  BY <1>16, <1>d DEF ResumeFails, At, Fail, Idle, history, HandoffPlaces, StartPlaces,
     ReleasePlaces
<1>17. CASE Stop
  BY <1>17, <1>d DEF Stop, At, StopRefused, CloseOwned, Step, HandoffPlaces, StartPlaces,
     ReleasePlaces
<1>18. CASE StopFinishes
  BY <1>18, <1>d DEF StopFinishes, At, Idle, history, HandoffPlaces, StartPlaces,
     ReleasePlaces
<1>19. CASE DetachForWorkerShutdown
  BY <1>19, <1>d DEF DetachForWorkerShutdown, At, Blank, Idle, history, HandoffPlaces,
     StartPlaces, ReleasePlaces
<1>20. CASE Crash
  BY <1>20, <1>d DEF Crash, Blank, Idle, durable, history, HandoffPlaces, StartPlaces,
     ReleasePlaces
<1>21. CASE BrowserExits
  BY <1>21, <1>d DEF BrowserExits, Idle, HandoffPlaces, StartPlaces, ReleasePlaces
<1>22. CASE ResumeGone \/ Restore \/ ResumeLocked \/ Verify \/ Restart
  BY <1>22, <1>d DEF ResumeGone, At, Restore, durable, ResumeLocked, history, Verify,
     Restart, HandoffPlaces, StartPlaces, ReleasePlaces
<1>23. CASE ExitReleased
  <2>1. CASE doing' = [doing EXCEPT !.at = "claim human"]
    BY <1>d, <2>1 DEF HandoffPlaces, ReleasePlaces
  <2>2. CASE doing' = Idle
    BY <2>2 DEF Idle, HandoffPlaces
  <2> QED
    BY <1>23, <2>1, <2>2 DEF ExitReleased
<1>24. CASE ExitResumed
  <2>1. CASE doing' = doing
    BY <1>d, <2>1
  <2>2. CASE doing' = [at |-> "prepare", resume |-> TRUE]
    BY <2>2 DEF HandoffPlaces, StartPlaces
  <2> QED
    BY <1>24, <2>1, <2>2 DEF ExitResumed
<1> QED
  BY <1>1, <1>2, <1>3, <1>4, <1>5, <1>6, <1>7, <1>8, <1>9, <1>10, <1>11, <1>12, <1>13, <1>14,
     <1>15, <1>16, <1>17, <1>18, <1>19, <1>20, <1>21, <1>22, <1>23, <1>24 DEF HandoffSteps

\* The browser that runs is the last that was launched.
LEMMA BrowserIsTheLast ==
    ASSUME HandoffConstants, HandoffInv, HandoffSteps
    PROVE  (browser # None => browser.process = launched /\ launched \in Launched)'
<1> USE DEF HandoffInv
<1>n. /\ mem \in Mems /\ None \notin Handoffs /\ None \notin Pendings /\ None \notin Records
      /\ None \notin HandoffBrowsers
      /\ (mem.handoff # None => mem.handoff \in Handoffs) /\ (mem.pending # None => mem.pending \in Pendings)
      /\ (record # None => record \in Records) /\ (browser # None => browser \in HandoffBrowsers)
  BY MemoryFields DEF HandoffConstants
<1>l. /\ launched' = launched => Launched' = Launched
      /\ launched' = launched + 1 => Launched \subseteq Launched' /\ launched' \in Launched'
  <2>1. launched \in Nat
    BY DEF HandoffTypes, HandoffConstants
  <2> QED
    BY <2>1 DEF Launched
<1>1. CASE Launch
  BY <1>1, <1>l DEF Launch, At, Step, history, Numbered
<1>2. CASE HumanLaunched
  BY <1>2, <1>l DEF HumanLaunched, Numbered
<1>3. CASE BrowserExits
  BY <1>3, <1>l DEF BrowserExits, Idle, Numbered
<1>4. CASE StartFails \/ Prepared \/ OrphanAsked \/ Attaching \/ Launching \/ Attached
         \/ ExitReleased \/ ExitResumed \/ Start \/ Establish \/ Request \/ Continue
         \/ StillPending \/ RecordAwaiting \/ ClaimHuman \/ LaunchHumanFails \/ RecordHuman
         \/ Complete \/ Restore \/ ResumeGone \/ Adopt \/ RecordControlled \/ ResumeLocked
         \/ ResumeFails \/ Verify \/ Stop \/ StopFinishes \/ DetachForWorkerShutdown
         \/ Crash \/ Restart
  BY <1>4, <1>l DEF StartFails, Idle, StartPlaces, Prepared, Begun, Step, history,
     OrphanAsked, durable, Attaching, Launching, Attached, ExitReleased, ExitResumed, Start,
     At, Establish, Request, Continue, StillPending, RecordAwaiting, ClaimHuman,
     LaunchHumanFails, RecordHuman, Complete, Restore, ResumeGone, Adopt, RecordControlled,
     ResumeLocked, ResumeFails, Fail, Verify, Stop, StopRefused, CloseOwned, StopFinishes,
     DetachForWorkerShutdown, Blank, Crash, Restart, Numbered
<1>5. CASE DetachNative
  <2>1. browser # None /\ browser' = [browser EXCEPT !.marker = TRUE] /\ UNCHANGED launched
    BY <1>5 DEF DetachNative, SameProcess, Running
  <2> QED
    BY <1>n, <1>l, <2>1 DEF Numbered, HandoffBrowsers
<1>6. CASE Resumed
  <2>1. UNCHANGED launched /\ ((browser' = [browser EXCEPT !.marker = FALSE] /\ browser # None) \/ UNCHANGED browser)
    BY <1>6 DEF Resumed
  <2> QED
    BY <1>n, <1>l, <2>1 DEF Numbered, HandoffBrowsers
<1> QED
  BY <1>1, <1>2, <1>3, <1>4, <1>5, <1>6 DEF HandoffSteps

\* The record is of a process that was launched.
LEMMA RecordIsOfALaunch ==
    ASSUME HandoffConstants, HandoffInv, HandoffSteps
    PROVE  (record # None => record.process \in Launched)'
<1> USE DEF HandoffInv
<1>n. /\ mem \in Mems /\ None \notin Handoffs /\ None \notin Pendings /\ None \notin Records
      /\ None \notin HandoffBrowsers
      /\ (mem.handoff # None => mem.handoff \in Handoffs) /\ (mem.pending # None => mem.pending \in Pendings)
      /\ (record # None => record \in Records) /\ (browser # None => browser \in HandoffBrowsers)
  BY MemoryFields DEF HandoffConstants
<1>l. /\ launched' = launched => Launched' = Launched
      /\ launched' = launched + 1 => Launched \subseteq Launched' /\ launched' \in Launched'
  <2>1. launched \in Nat
    BY DEF HandoffTypes, HandoffConstants
  <2> QED
    BY <2>1 DEF Launched
<1>1. CASE StartFails \/ Attached
  BY <1>1, <1>l, <1>n DEF StartFails, Idle, StartPlaces, Attached, Begun, Step, history,
     Numbered, Records, Connected
<1>2. CASE RecordControlled
  BY <1>2, <1>l, <1>n DEF RecordControlled, At, Step, history, Numbered, Records, Connected
<1>3. CASE ResumeFails
  BY <1>3, <1>l, <1>n DEF ResumeFails, At, Fail, Idle, history, Numbered, Records, Connected
<1>4. CASE DetachForWorkerShutdown
  BY <1>4, <1>l, <1>n DEF DetachForWorkerShutdown, At, Blank, Idle, history, Numbered,
     Records, Connected
<1>5. CASE Launch
  BY <1>5, <1>l, <1>n DEF Launch, At, Step, history, Numbered, Records, Connected
<1>6. CASE Prepared \/ OrphanAsked \/ Attaching \/ Launching \/ ExitReleased \/ ExitResumed
         \/ Start \/ Establish \/ Request \/ Continue \/ StillPending \/ DetachNative
         \/ ClaimHuman \/ LaunchHumanFails \/ Complete \/ Restore \/ ResumeGone \/ Adopt
         \/ ResumeLocked \/ Resumed \/ Verify \/ Stop \/ StopFinishes \/ Crash \/ Restart
         \/ BrowserExits
  BY <1>6, <1>l, <1>n DEF Prepared, Begun, Step, history, OrphanAsked, durable, Attaching,
     Launching, ExitReleased, Idle, ExitResumed, Start, At, Establish, Request, Continue,
     StillPending, DetachNative, SameProcess, ClaimHuman, LaunchHumanFails, Complete,
     Restore, ResumeGone, Adopt, ResumeLocked, Resumed, Verify, Stop, StopRefused,
     CloseOwned, StopFinishes, Crash, Blank, Restart, BrowserExits, Numbered, Records,
     Connected
<1>7. CASE RecordAwaiting
  <2>1. mem.pending # None /\ UNCHANGED launched
    BY <1>7 DEF RecordAwaiting, At, Connected, ReleasePlaces
  <2>2. record'.process = mem.pending.process
    BY <1>7 DEF RecordAwaiting
  <2> QED
    BY <1>l, <2>1, <2>2 DEF Numbered
<1>8. CASE RecordHuman
  <2>1. record'.process = launched /\ UNCHANGED launched /\ doing.at = "record human"
    BY <1>8 DEF RecordHuman, At
  <2> QED
    BY <1>l, <2>1 DEF Numbered
<1>9. CASE HumanLaunched
  <2>1. Launched \subseteq Launched' /\ UNCHANGED <<record, mem>>
    BY <1>9, <1>l DEF HumanLaunched
  <2> QED
    BY <1>l, <1>n, <2>1 DEF Numbered
<1> QED
  BY <1>1, <1>2, <1>3, <1>4, <1>5, <1>6, <1>7, <1>8, <1>9 DEF HandoffSteps

\* So is what the worker remembers.
LEMMA MemoryIsOfLaunches ==
    ASSUME HandoffConstants, HandoffInv, HandoffSteps
    PROVE  /\ (mem.handoff # None => mem.handoff.process \in Launched)'
           /\ (mem.pending # None => mem.pending.process \in Launched)'
           /\ (mem.process # None => mem.process \in Launched)'
<1> USE DEF HandoffInv
<1>n. /\ mem \in Mems /\ None \notin Handoffs /\ None \notin Pendings /\ None \notin Records
      /\ None \notin HandoffBrowsers
      /\ (mem.handoff # None => mem.handoff \in Handoffs) /\ (mem.pending # None => mem.pending \in Pendings)
      /\ (record # None => record \in Records) /\ (browser # None => browser \in HandoffBrowsers)
  BY MemoryFields DEF HandoffConstants
<1>l. /\ launched' = launched => Launched' = Launched
      /\ launched' = launched + 1 => Launched \subseteq Launched' /\ launched' \in Launched'
  <2>1. launched \in Nat
    BY DEF HandoffTypes, HandoffConstants
  <2> QED
    BY <2>1 DEF Launched
<1>1. CASE StartFails \/ Prepared \/ Attaching \/ Launching \/ Attached \/ ExitReleased
  BY <1>1, <1>l, <1>n DEF StartFails, Idle, StartPlaces, Prepared, Begun, Step, history,
     Attaching, Launching, Attached, ExitReleased, Numbered, Mems, Handoffs, Pendings,
     Connected
<1>2. CASE ExitResumed
  BY <1>2, <1>l, <1>n DEF ExitResumed, Numbered, Mems, Handoffs, Pendings, Connected
<1>3. CASE Launch
  BY <1>3, <1>l, <1>n DEF Launch, At, Unlocked, Step, history, Numbered, Mems, Handoffs,
     Pendings, Connected
<1>4. CASE Establish
  BY <1>4, <1>l, <1>n DEF Establish, At, Running, Step, history, Numbered, Mems, Handoffs,
     Pendings, Connected
<1>5. CASE Request
  BY <1>5, <1>l, <1>n DEF Request, At, Step, Numbered, Mems, Handoffs, Pendings, Connected
<1>6. CASE DetachNative
  BY <1>6, <1>l, <1>n DEF DetachNative, At, SameProcess, Running, Step, history, Numbered,
     Mems, Handoffs, Pendings, Connected
<1>7. CASE ClaimHuman
  BY <1>7, <1>l, <1>n DEF ClaimHuman, At, Step, history, Numbered, Mems, Handoffs, Pendings,
     Connected
<1>8. CASE LaunchHumanFails
  BY <1>8, <1>l, <1>n DEF LaunchHumanFails, At, Unlocked, Released, Idle, history, Numbered,
     Mems, Handoffs, Pendings, Connected
<1>9. CASE Restore
  BY <1>9, <1>l, <1>n DEF Restore, At, CanRestore, Running, Permits, Inspection, Matched,
     Transition, Proves, OwnerShowsHandoff, durable, Numbered, Mems, Handoffs, Pendings,
     Connected
<1>10. CASE ResumeGone
  BY <1>10, <1>l, <1>n DEF ResumeGone, At, Awaiting, Running, Unlocked, Released, Numbered,
     Mems, Handoffs, Pendings, Connected
<1>11. CASE Adopt
  BY <1>11, <1>l, <1>n DEF Adopt, At, Awaiting, Running, Transition, Matched,
     OwnerShowsHandoff, Proves, Numbered, Mems, Handoffs, Pendings, Connected
<1>12. CASE RecordControlled
  BY <1>12, <1>l, <1>n DEF RecordControlled, At, Step, history, Numbered, Mems, Handoffs,
     Pendings, Connected
<1>13. CASE ResumeFails
  BY <1>13, <1>l, <1>n DEF ResumeFails, At, Fail, Idle, Running, history, Numbered, Mems,
     Handoffs, Pendings, Connected
<1>14. CASE Verify \/ Stop
  BY <1>14, <1>l, <1>n DEF Verify, At, durable, history, Stop, StopRefused, Awaiting,
     CloseOwned, Step, Numbered, Mems, Handoffs, Pendings, Connected
<1>15. CASE DetachForWorkerShutdown
  BY <1>15, <1>l, <1>n DEF DetachForWorkerShutdown, At, Awaiting, Blank, Idle, history,
     Numbered, Mems, Handoffs, Pendings, Connected
<1>16. CASE Crash
  BY <1>16, <1>l, <1>n DEF Crash, Blank, Idle, durable, history, Numbered, Mems, Handoffs,
     Pendings, Connected
<1>17. CASE BrowserExits
  BY <1>17, <1>l, <1>n DEF BrowserExits, Idle, Numbered, Mems, Handoffs, Pendings, Connected
<1>18. CASE OrphanAsked \/ Start \/ Continue \/ StillPending \/ RecordAwaiting
         \/ RecordHuman \/ ResumeLocked \/ Resumed \/ Restart
  BY <1>18, <1>l, <1>n DEF OrphanAsked, Begun, Step, durable, Start, At, Awaiting, history,
     Continue, StillPending, Idle, RecordAwaiting, Running, RecordHuman, ResumeLocked,
     Unlocked, Resumed, Restart, Numbered, Mems, Handoffs, Pendings, Connected
<1>19. CASE HumanLaunched
  <2>1. Launched \subseteq Launched' /\ UNCHANGED <<record, mem>>
    BY <1>19, <1>l DEF HumanLaunched
  <2> QED
    BY <1>l, <1>n, <2>1 DEF Numbered
<1>20. CASE Complete
  <2>1. CASE UNCHANGED mem
    BY <1>20, <1>l, <2>1 DEF Complete, Numbered
  <2>2. CASE mem' # mem
    <3>1. /\ browser # None
          /\ mem' = [mem EXCEPT !.holds = TRUE, !.pending = None,
                                !.handoff = [state |-> "awaiting_user", process |-> browser.process,
                                             continuous |-> browser.kind = "native", offered |-> FALSE]]
          /\ UNCHANGED launched
      BY <1>20, <2>2 DEF Complete
    <3>2. mem'.pending = None /\ mem'.process = mem.process /\ mem'.handoff.process = browser.process
      BY <1>n, <3>1 DEF Mems
    <3> QED
      BY <1>l, <1>n, <3>1, <3>2 DEF Numbered
  <2> QED BY <2>1, <2>2
<1>21. CASE StopFinishes
  <2>1. UNCHANGED launched
        /\ (mem' = [mem EXCEPT !.process = None, !.holds = FALSE] \/ mem' = [mem EXCEPT !.process = None])
    BY <1>21 DEF StopFinishes, history
  <2>2. mem'.process = None /\ mem'.handoff = mem.handoff /\ mem'.pending = mem.pending
    BY <1>n, <2>1 DEF Mems
  <2> QED
    BY <1>l, <2>1, <2>2 DEF Numbered
<1> QED
  BY <1>1, <1>2, <1>3, <1>4, <1>5, <1>6, <1>7, <1>8, <1>9, <1>10, <1>11, <1>12, <1>13, <1>14,
     <1>15, <1>16, <1>17, <1>18, <1>19, <1>20, <1>21 DEF HandoffSteps

\* A record of the human's browser is written once it was launched.
LEMMA HumanRecordIsOfALaunch ==
    ASSUME HandoffConstants, HandoffInv, HandoffSteps
    PROVE  (doing.at = "record human" => launched \in Launched)'
<1> USE DEF HandoffInv
<1>d. doing \in [at : HandoffPlaces, resume : BOOLEAN]
  BY DEF HandoffTypes
<1>l. /\ launched' = launched => Launched' = Launched
      /\ launched' = launched + 1 => Launched \subseteq Launched' /\ launched' \in Launched'
  <2>1. launched \in Nat
    BY DEF HandoffTypes, HandoffConstants
  <2> QED
    BY <2>1 DEF Launched
<1>1. CASE StartFails
  BY <1>1, <1>l, <1>d DEF StartFails, Idle, StartPlaces, Numbered
<1>2. CASE Prepared
  BY <1>2, <1>l, <1>d DEF Prepared, Begun, Step, history, Numbered
<1>3. CASE OrphanAsked
  BY <1>3, <1>l, <1>d DEF OrphanAsked, Begun, Step, durable, Numbered
<1>4. CASE Attaching \/ Launching \/ Attached
  BY <1>4, <1>l, <1>d DEF Attaching, Begun, Step, history, Launching, Attached, Numbered
<1>5. CASE Start \/ Launch \/ Establish
  BY <1>5, <1>l, <1>d DEF Start, At, Step, durable, history, Launch, Establish, Numbered
<1>6. CASE Request \/ Continue
  BY <1>6, <1>l, <1>d DEF Request, At, Step, Continue, durable, history, Numbered
<1>7. CASE StillPending
  BY <1>7, <1>l, <1>d DEF StillPending, Idle, durable, history, Numbered
<1>8. CASE DetachNative \/ RecordAwaiting \/ ClaimHuman
  BY <1>8, <1>l, <1>d DEF DetachNative, At, SameProcess, Step, history, RecordAwaiting,
     ClaimHuman, Numbered
<1>9. CASE LaunchHumanFails
  BY <1>9, <1>l, <1>d DEF LaunchHumanFails, At, Idle, history, Numbered
<1>10. CASE RecordHuman
  BY <1>10, <1>l, <1>d DEF RecordHuman, At, Step, history, Numbered
<1>11. CASE Complete
  BY <1>11, <1>l, <1>d DEF Complete, At, Idle, Numbered
<1>12. CASE Restore \/ ResumeGone
  BY <1>12, <1>l, <1>d DEF Restore, At, durable, ResumeGone, Numbered
<1>13. CASE Adopt
  BY <1>13, <1>l, <1>d DEF Adopt, At, Numbered
<1>14. CASE RecordControlled \/ ResumeLocked
  BY <1>14, <1>l, <1>d DEF RecordControlled, At, Step, history, ResumeLocked, Numbered
<1>15. CASE Resumed
  BY <1>15, <1>l, <1>d DEF Resumed, At, Idle, history, Numbered
<1>16. CASE ResumeFails
  BY <1>16, <1>l, <1>d DEF ResumeFails, At, Fail, Idle, history, Numbered
<1>17. CASE Verify
  BY <1>17, <1>l, <1>d DEF Verify, At, durable, history, Numbered
<1>18. CASE Stop
  BY <1>18, <1>l, <1>d DEF Stop, At, StopRefused, CloseOwned, Step, Numbered
<1>19. CASE StopFinishes
  BY <1>19, <1>l, <1>d DEF StopFinishes, At, Idle, history, Numbered
<1>20. CASE DetachForWorkerShutdown
  BY <1>20, <1>l, <1>d DEF DetachForWorkerShutdown, At, Blank, Idle, history, Numbered
<1>21. CASE Crash
  BY <1>21, <1>l, <1>d DEF Crash, Blank, Idle, durable, history, Numbered
<1>22. CASE Restart \/ BrowserExits
  BY <1>22, <1>l, <1>d DEF Restart, durable, history, BrowserExits, Idle, Numbered
<1>23. CASE ExitReleased
  <2>1. CASE doing' = [doing EXCEPT !.at = "claim human"]
    BY <1>d, <2>1
  <2>2. CASE doing' = Idle
    BY <2>2 DEF Idle
  <2> QED
    BY <1>23, <2>1, <2>2 DEF ExitReleased
<1>24. CASE HumanLaunched
  <2>1. launched' \in Launched'
    BY <1>24, <1>l DEF HumanLaunched
  <2> QED
    BY <2>1
<1>25. CASE ExitResumed
  <2>1. CASE doing' = [at |-> "prepare", resume |-> TRUE]
    BY <2>1
  <2>2. CASE doing' = doing
    BY <1>25, <2>2 DEF ExitResumed
  <2> QED
    BY <1>25, <2>1, <2>2 DEF ExitResumed
<1> QED
  BY <1>1, <1>2, <1>3, <1>4, <1>5, <1>6, <1>7, <1>8, <1>9, <1>10, <1>11, <1>12, <1>13, <1>14,
     <1>15, <1>16, <1>17, <1>18, <1>19, <1>20, <1>21, <1>22, <1>23, <1>24, <1>25 DEF
     HandoffSteps

\* A lease is of a worker that was born.
LEMMA LeaseIsOfAWorker ==
    ASSUME HandoffConstants, HandoffInv, HandoffSteps
    PROVE  (lease # None => lease.owner \in 1 .. born)'
<1> USE DEF HandoffInv
<1>o. /\ NewLease("native_cdp", "launching", None).owner = worker
      /\ NewLease("playwright", "launching", None).owner = worker
      /\ NewLease("human_handoff", "launching", None).owner = worker
      /\ \A p : NewLease("human_handoff", "human_input", p).owner = worker
      /\ \A p, mode : NewLease(mode, "owned_active", p).owner = worker
  BY DEF NewLease
<1>r. Released \in {lease, None}
  BY DEF Released
<1>w. worker # 0 => worker \in 1 .. born
  BY DEF HandoffTypes, HandoffConstants
<1>1. CASE StartFails \/ Prepared \/ Attaching
  BY <1>1, <1>o, <1>r, <1>w DEF StartFails, Idle, StartPlaces, Prepared, Begun, Step,
     history, Attaching, Numbered
<1>2. CASE Launching
  BY <1>2, <1>o, <1>r, <1>w DEF Launching, Begun, Step, history, Numbered
<1>3. CASE Establish
  BY <1>3, <1>o, <1>r, <1>w DEF Establish, At, Step, history, Numbered
<1>4. CASE ClaimHuman
  BY <1>4, <1>o, <1>r, <1>w DEF ClaimHuman, At, Step, history, Numbered
<1>5. CASE LaunchHumanFails
  BY <1>5, <1>o, <1>r, <1>w DEF LaunchHumanFails, At, Idle, history, Numbered
<1>6. CASE Complete
  BY <1>6, <1>o, <1>r, <1>w DEF Complete, At, Idle, Numbered
<1>7. CASE Adopt
  BY <1>7, <1>o, <1>r, <1>w DEF Adopt, At, Numbered
<1>8. CASE ExitResumed
  BY <1>8, <1>o, <1>r, <1>w DEF ExitResumed, Numbered
<1>9. CASE StopFinishes
  BY <1>9, <1>o, <1>r, <1>w DEF StopFinishes, At, Idle, history, Numbered
<1>10. CASE OrphanAsked \/ Attached \/ HumanLaunched \/ Start \/ Launch \/ Continue
         \/ StillPending \/ DetachNative \/ RecordAwaiting \/ RecordHuman \/ Restore
         \/ RecordControlled \/ Resumed \/ ResumeFails \/ Verify \/ Crash \/ BrowserExits
  BY <1>10, <1>o, <1>r, <1>w DEF OrphanAsked, Begun, Step, durable, Attached, history,
     HumanLaunched, Start, At, Launch, Continue, StillPending, Idle, DetachNative,
     SameProcess, RecordAwaiting, RecordHuman, Restore, RecordControlled, Resumed,
     ResumeFails, Fail, Verify, Crash, Blank, BrowserExits, Numbered
<1>11. CASE Request
  BY <1>11, <1>o, <1>r, <1>w, PhaseIsALease DEF Request, At, Step, Numbered
<1>12. CASE ExitReleased
  BY <1>12, <1>o, <1>r, <1>w, PhaseIsALease DEF ExitReleased, Idle, Numbered
<1>13. CASE ResumeGone
  BY <1>13, <1>o, <1>r, <1>w, PhaseIsALease DEF ResumeGone, At, Numbered
<1>14. CASE ResumeLocked
  BY <1>14, <1>o, <1>r, <1>w, PhaseIsALease DEF ResumeLocked, At, history, Numbered
<1>15. CASE Stop
  BY <1>15, <1>o, <1>r, <1>w, PhaseIsALease DEF Stop, At, StopRefused, CloseOwned, Step,
     Numbered
<1>16. CASE DetachForWorkerShutdown
  BY <1>16, <1>o, <1>r, <1>w, PhaseIsALease DEF DetachForWorkerShutdown, At, Blank, Idle,
     history, Numbered
<1>17. CASE Restart
  <2>1. born' = born + 1 /\ UNCHANGED lease
    BY <1>17 DEF Restart, durable
  <2>2. born \in Nat
    BY DEF HandoffTypes, HandoffConstants
  <2>3. 1 .. born \subseteq 1 .. born'
    BY <2>1, <2>2
  <2> QED
    BY <2>1, <2>3 DEF Numbered
<1> QED
  BY <1>1, <1>2, <1>3, <1>4, <1>5, <1>6, <1>7, <1>8, <1>9, <1>10, <1>11, <1>12, <1>13, <1>14,
     <1>15, <1>16, <1>17 DEF HandoffSteps

\* Each step leaves what the next one finds in memory.
LEMMA ConnectionsAreKept ==
    ASSUME HandoffConstants, HandoffInv, HandoffSteps
    PROVE  Connected'
<1> USE DEF HandoffInv
<1>n. /\ mem \in Mems /\ None \notin Handoffs /\ None \notin Pendings /\ None \notin Ids
      /\ (mem.handoff # None => mem.handoff \in Handoffs) /\ (mem.pending # None => mem.pending \in Pendings)
      /\ (browser # None => browser \in HandoffBrowsers)
  BY MemoryFields DEF HandoffConstants
<1>d. doing \in [at : HandoffPlaces, resume : BOOLEAN]
  BY DEF HandoffTypes
<1>1. CASE StartFails
  BY <1>1, <1>n, <1>d DEF StartFails, Idle, StartPlaces, Connected, ReleasePlaces, Mems,
     HandoffBrowsers, Handoffs, Pendings
<1>2. CASE Prepared
  BY <1>2, <1>n, <1>d DEF Prepared, Begun, Step, history, Connected, StartPlaces,
     ReleasePlaces, Mems, HandoffBrowsers, Handoffs, Pendings
<1>3. CASE OrphanAsked
  BY <1>3, <1>n, <1>d DEF OrphanAsked, Begun, Step, durable, Connected, StartPlaces,
     ReleasePlaces, Mems, HandoffBrowsers, Handoffs, Pendings
<1>4. CASE Attaching \/ Launching
  BY <1>4, <1>n, <1>d DEF Attaching, Begun, Step, history, Launching, Connected, StartPlaces,
     ReleasePlaces, Mems, HandoffBrowsers, Handoffs, Pendings
<1>5. CASE HumanLaunched
  BY <1>5, <1>n, <1>d DEF HumanLaunched, Connected, StartPlaces, ReleasePlaces, Mems,
     HandoffBrowsers, Handoffs, Pendings
<1>6. CASE Start
  BY <1>6, <1>n, <1>d DEF Start, At, Awaiting, Step, durable, history, Connected,
     StartPlaces, ReleasePlaces, Mems, HandoffBrowsers, Handoffs, Pendings
<1>7. CASE Establish
  BY <1>7, <1>n, <1>d DEF Establish, At, Running, Step, history, Connected, StartPlaces,
     ReleasePlaces, Mems, HandoffBrowsers, Handoffs, Pendings
<1>8. CASE DetachNative
  BY <1>8, <1>n, <1>d DEF DetachNative, At, SameProcess, Running, Step, history, Connected,
     StartPlaces, ReleasePlaces, Mems, HandoffBrowsers, Handoffs, Pendings
<1>9. CASE RecordAwaiting
  BY <1>9, <1>n, <1>d DEF RecordAwaiting, At, Running, Step, history, Connected, StartPlaces,
     ReleasePlaces, Mems, HandoffBrowsers, Handoffs, Pendings
<1>10. CASE ClaimHuman
  BY <1>10, <1>n, <1>d DEF ClaimHuman, At, Step, history, Connected, StartPlaces,
     ReleasePlaces, Mems, HandoffBrowsers, Handoffs, Pendings
<1>11. CASE LaunchHumanFails
  BY <1>11, <1>n, <1>d DEF LaunchHumanFails, At, Unlocked, Idle, history, Connected,
     StartPlaces, ReleasePlaces, Mems, HandoffBrowsers, Handoffs, Pendings
<1>12. CASE RecordHuman
  BY <1>12, <1>n, <1>d DEF RecordHuman, At, Step, history, Connected, StartPlaces,
     ReleasePlaces, Mems, HandoffBrowsers, Handoffs, Pendings
<1>13. CASE Complete
  BY <1>13, <1>n, <1>d DEF Complete, At, Idle, Running, Connected, StartPlaces,
     ReleasePlaces, Mems, HandoffBrowsers, Handoffs, Pendings
<1>14. CASE Restore
  BY <1>14, <1>n, <1>d DEF Restore, At, CanRestore, Running, durable, Connected, StartPlaces,
     ReleasePlaces, Mems, HandoffBrowsers, Handoffs, Pendings
<1>15. CASE ResumeGone
  BY <1>15, <1>n, <1>d DEF ResumeGone, At, Awaiting, Running, Unlocked, Connected,
     StartPlaces, ReleasePlaces, Mems, HandoffBrowsers, Handoffs, Pendings
<1>16. CASE Adopt
  BY <1>16, <1>n, <1>d DEF Adopt, At, Awaiting, Running, Connected, StartPlaces,
     ReleasePlaces, Mems, HandoffBrowsers, Handoffs, Pendings
<1>17. CASE RecordControlled
  BY <1>17, <1>n, <1>d DEF RecordControlled, At, Step, history, Connected, StartPlaces,
     ReleasePlaces, Mems, HandoffBrowsers, Handoffs, Pendings
<1>18. CASE ResumeLocked
  BY <1>18, <1>n, <1>d DEF ResumeLocked, At, Awaiting, Running, Unlocked, history, Connected,
     StartPlaces, ReleasePlaces, Mems, HandoffBrowsers, Handoffs, Pendings
<1>19. CASE ResumeFails
  BY <1>19, <1>n, <1>d DEF ResumeFails, At, Fail, Idle, Running, history, Connected,
     StartPlaces, ReleasePlaces, Mems, HandoffBrowsers, Handoffs, Pendings
<1>20. CASE Stop
  BY <1>20, <1>n, <1>d DEF Stop, At, StopRefused, Awaiting, CloseOwned, Step, Connected,
     StartPlaces, ReleasePlaces, Mems, HandoffBrowsers, Handoffs, Pendings
<1>21. CASE StopFinishes
  BY <1>21, <1>n, <1>d DEF StopFinishes, At, Unlocked, Idle, history, Connected, StartPlaces,
     ReleasePlaces, Mems, HandoffBrowsers, Handoffs, Pendings
<1>22. CASE DetachForWorkerShutdown
  BY <1>22, <1>n, <1>d DEF DetachForWorkerShutdown, At, Awaiting, Blank, Idle, history,
     Connected, StartPlaces, ReleasePlaces, Mems, HandoffBrowsers, Handoffs, Pendings
<1>23. CASE Crash
  BY <1>23, <1>n, <1>d DEF Crash, Blank, Idle, durable, history, Connected, StartPlaces,
     ReleasePlaces, Mems, HandoffBrowsers, Handoffs, Pendings
<1>24. CASE Attached
  <2>1. record.process # None /\ mem.pending = None /\ (doing.resume => mem.handoff # None)
        /\ mem' = [mem EXCEPT !.context = "native", !.process = record.process]
    BY <1>24, <1>n, MemoryFields DEF Attached, Begun, Connected, StartPlaces, ReleasePlaces
  <2>2. /\ mem'.context = "native" /\ mem'.process = record.process /\ mem'.handoff = mem.handoff
        /\ mem'.pending = None
    BY <1>n, <2>1 DEF Mems
  <2>3. doing'.at = "establish" /\ doing'.resume = doing.resume
    BY <1>24, <1>d DEF Attached, Step
  <2> QED
    BY <2>1, <2>2, <2>3 DEF Connected, StartPlaces, ReleasePlaces
<1>25. CASE ExitReleased
  <2>1. /\ doing.at \in {"continue", "detached"} /\ ~doing.resume /\ UNCHANGED browser
        /\ mem'.pending # None /\ mem'.pending.process = mem.pending.process
        /\ mem'.context = mem.context /\ mem'.process = mem.process /\ mem'.handoff = mem.handoff
    BY <1>25 DEF ExitReleased, Connected, StartPlaces, ReleasePlaces
  <2>2. mem.context = "none" /\ mem.process = None
    BY <1>25, <2>1 DEF ExitReleased, Connected
  <2>3. doing'.at \in {"claim human", "idle"} /\ ~doing'.resume
    <3>1. CASE doing' = [doing EXCEPT !.at = "claim human"]
      BY <1>d, <2>1, <3>1
    <3>2. CASE doing' = Idle
      BY <3>2 DEF Idle
    <3> QED
      BY <1>25, <3>1, <3>2 DEF ExitReleased
  <2> QED
    BY <1>25, <2>1, <2>2, <2>3 DEF ExitReleased, Connected, StartPlaces, ReleasePlaces
<1>26. CASE ExitResumed
  <2>1. /\ doing.at = "idle" /\ mem.handoff # None /\ browser = None /\ UNCHANGED browser
        /\ mem'.handoff # None /\ mem'.context = mem.context /\ mem'.process = mem.process
        /\ mem'.pending = mem.pending
    BY <1>26 DEF ExitResumed
  <2>2. mem.context = "none" /\ mem.process = None /\ mem.pending = None /\ ~doing.resume
    BY <2>1 DEF Running, Connected, StartPlaces, ReleasePlaces
  <2>3. doing'.at \in {"idle", "prepare"} /\ (doing'.at = "idle" => ~doing'.resume)
    <3>1. CASE doing' = [at |-> "prepare", resume |-> TRUE]
      BY <3>1
    <3>2. CASE doing' = doing
      BY <2>1, <2>2, <3>2
    <3> QED
      BY <1>26, <3>1, <3>2 DEF ExitResumed
  <2> QED
    BY <2>1, <2>2, <2>3 DEF Connected, StartPlaces, ReleasePlaces
<1>27. CASE Launch
  <2>1. launched + 1 \in Ids
    <3>1. launched < MaxProcesses
      BY <1>27 DEF Launch
    <3>2. launched \in 0 .. MaxProcesses /\ MaxProcesses \in Nat
      BY DEF HandoffTypes, HandoffConstants
    <3> QED
      BY <3>1, <3>2 DEF Ids
  <2>2. mem.pending = None /\ (doing.resume => mem.handoff # None)
    BY <1>27 DEF Launch, At, Connected, StartPlaces, ReleasePlaces
  <2>3. mem' = [mem EXCEPT !.context = "playwright", !.process = launched + 1]
    BY <1>27 DEF Launch
  <2>4. /\ mem'.context = "playwright" /\ mem'.process = launched + 1 /\ mem'.handoff = mem.handoff
        /\ mem'.pending = None
    BY <1>n, <2>2, <2>3 DEF Mems
  <2>5. doing'.at = "establish" /\ doing'.resume = doing.resume
    BY <1>27, <1>d DEF Launch, Step
  <2> QED
    BY <1>n, <2>1, <2>2, <2>4, <2>5 DEF Connected, StartPlaces, ReleasePlaces
<1>28. CASE Request
  <2>1. /\ doing.at = "idle" /\ mem.pending = None /\ mem.handoff = None /\ mem.context # "none"
        /\ mem.process # None /\ UNCHANGED browser
    BY <1>28 DEF Request, At
  <2>2. PICK strategy \in {"native_same_process", "process_relaunch"}, same \in BOOLEAN :
          mem' = [mem EXCEPT !.pending = [strategy |-> strategy, process |-> mem.process],
                             !.context = IF same THEN "native" ELSE "none",
                             !.process = IF same THEN mem.process ELSE None]
    BY <1>28 DEF Request
  <2>3. /\ mem'.pending = [strategy |-> strategy, process |-> mem.process] /\ mem'.handoff = None
        /\ mem'.context = (IF same THEN "native" ELSE "none")
        /\ mem'.process = (IF same THEN mem.process ELSE None)
    BY <1>n, <2>1, <2>2 DEF Mems
  <2>4. mem'.pending # None /\ mem'.pending.process = mem.process
    <3>1. [strategy |-> strategy, process |-> mem.process] \in Pendings
      BY <2>1, MemoryFields DEF Pendings
    <3> QED
      BY <1>n, <2>3, <3>1
  <2>5. doing'.at = "continue" /\ ~doing'.resume
    BY <1>28, <1>d, <2>1 DEF Request, Step, Connected, StartPlaces, ReleasePlaces
  <2> QED
    BY <2>1, <2>3, <2>4, <2>5 DEF Running, Connected, StartPlaces, ReleasePlaces
<1>29. CASE Continue
  <2>1. doing'.at = "continue" /\ doing'.resume = doing.resume
    BY <1>29, <1>d DEF Continue, Step, durable
  <2>2. UNCHANGED <<mem, browser>>
    BY <1>29 DEF Continue, Step, durable
  <2> QED
    BY <1>29, <2>1, <2>2 DEF Continue, At, Running, Connected, StartPlaces, ReleasePlaces
<1>30. CASE StillPending
  <2>1. doing'.at = "idle" /\ ~doing'.resume
    BY <1>30, <1>d DEF StillPending, Idle, durable
  <2>2. UNCHANGED <<mem, browser>>
    BY <1>30 DEF StillPending, Idle, durable
  <2> QED
    BY <1>30, <2>1, <2>2 DEF StillPending, Running, Connected, StartPlaces, ReleasePlaces
<1>31. CASE Resumed
  <2>1. doing.at = "resumed" /\ doing' = Idle /\ UNCHANGED mem
        /\ (browser' = [browser EXCEPT !.marker = FALSE] \/ UNCHANGED browser)
    BY <1>31 DEF Resumed, At
  <2>2. mem.context # "none" => Running(mem.process) /\ Running(mem.process)'
    <3>1. browser # None => browser \in HandoffBrowsers /\ None \notin HandoffBrowsers
      BY MemoryFields DEF HandoffConstants
    <3>2. browser # None => [browser EXCEPT !.marker = FALSE] \in HandoffBrowsers
                            /\ [browser EXCEPT !.marker = FALSE].process = browser.process
      BY <3>1 DEF HandoffBrowsers
    <3>3. mem.context # "none" => Running(mem.process)
      BY <2>1 DEF Connected
    <3> QED
      BY <2>1, <3>1, <3>2, <3>3 DEF Running
  <2>3. doing'.at = "idle" /\ ~doing'.resume
    BY <2>1 DEF Idle
  <2> QED
    BY <2>1, <2>2, <2>3 DEF Connected, StartPlaces, ReleasePlaces
<1>32. CASE Verify
  <2>1. UNCHANGED <<doing, browser>> /\ doing.at = "idle" /\ mem' = [mem EXCEPT !.handoff = None]
    BY <1>32 DEF Verify, At, durable
  <2>2. /\ mem'.handoff = None /\ mem'.context = mem.context /\ mem'.process = mem.process
        /\ mem'.pending = mem.pending
    BY <1>n, <2>1 DEF Mems
  <2> QED
    BY <2>1, <2>2 DEF Running, Connected, StartPlaces, ReleasePlaces
<1>33. CASE Restart
  <2>1. UNCHANGED <<mem, browser, doing>>
    BY <1>33 DEF Restart, durable
  <2> QED
    BY <2>1 DEF Running, Connected
<1>34. CASE BrowserExits
  <2>1. CASE mem.context # "none" /\ mem.process = browser.process /\ doing.at # "establish"
    <3>1. mem' = [mem EXCEPT !.context = "none", !.process = None, !.handoff = None]
      BY <1>34, <2>1 DEF BrowserExits
    <3>2. mem'.context = "none" /\ mem'.process = None /\ mem'.handoff = None /\ mem'.pending = mem.pending
      BY <1>n, <3>1 DEF Mems
    <3>3. doing.at \notin StartPlaces \cup ReleasePlaces
      BY <2>1 DEF Connected
    <3>4. doing'.at = (IF doing.at = "resumed" THEN "idle" ELSE doing.at)
          /\ (doing'.resume => doing.resume /\ doing.at # "resumed")
      BY <1>34, <1>d DEF BrowserExits, Idle
    <3> QED
      BY <2>1, <3>2, <3>3, <3>4 DEF Connected, StartPlaces, ReleasePlaces
  <2>2. CASE ~(mem.context # "none" /\ mem.process = browser.process /\ doing.at # "establish")
    <3>1. UNCHANGED mem
      BY <1>34, <2>2 DEF BrowserExits
    <3>2. doing.at # "establish" => mem.context = "none"
      BY <2>2 DEF Running, Connected
    <3>3. doing'.at = (IF doing.at = "resumed" THEN "idle" ELSE doing.at)
          /\ (doing'.resume => doing.resume /\ doing.at # "resumed")
      BY <1>34, <1>d DEF BrowserExits, Idle
    <3>4. CASE doing.at = "resumed"
      BY <3>1, <3>2, <3>3, <3>4 DEF Connected, StartPlaces, ReleasePlaces
    <3>5. CASE doing.at # "resumed"
      <4>1. UNCHANGED <<mem, doing>>
        BY <1>34, <3>1, <3>5 DEF BrowserExits
      <4> QED
        BY <3>2, <4>1 DEF Connected
    <3> QED BY <3>4, <3>5
  <2> QED BY <2>1, <2>2
<1> QED
  BY <1>1, <1>2, <1>3, <1>4, <1>5, <1>6, <1>7, <1>8, <1>9, <1>10, <1>11, <1>12, <1>13, <1>14,
     <1>15, <1>16, <1>17, <1>18, <1>19, <1>20, <1>21, <1>22, <1>23, <1>24, <1>25, <1>26,
     <1>27, <1>28, <1>29, <1>30, <1>31, <1>32, <1>33, <1>34 DEF HandoffSteps

\* Only a worker connects.
LEMMA NobodyConnects ==
    ASSUME HandoffConstants, HandoffInv, HandoffSteps
    PROVE  NobodyIsConnected'
<1> USE DEF HandoffInv
<1>n. /\ mem \in Mems /\ None \notin Handoffs /\ None \notin Pendings /\ None \notin Ids
      /\ (mem.handoff # None => mem.handoff \in Handoffs) /\ (mem.pending # None => mem.pending \in Pendings)
      /\ (browser # None => browser \in HandoffBrowsers)
  BY MemoryFields DEF HandoffConstants
<1>d. doing \in [at : HandoffPlaces, resume : BOOLEAN]
  BY DEF HandoffTypes
<1>1. CASE StartFails \/ Prepared \/ OrphanAsked \/ Attaching \/ Launching \/ Attached
  BY <1>1, <1>n, <1>d DEF StartFails, Idle, StartPlaces, Prepared, Begun, Step, history,
     OrphanAsked, durable, Attaching, Launching, Attached, NobodyIsConnected, Mems
<1>2. CASE ExitReleased \/ HumanLaunched \/ ExitResumed \/ Start \/ Launch \/ Establish
  BY <1>2, <1>n, <1>d DEF ExitReleased, Idle, HumanLaunched, ExitResumed, Start, At,
     Awaiting, Step, durable, history, Launch, Unlocked, Establish, Running, NewLease,
     NobodyIsConnected, Mems
<1>3. CASE Request \/ Continue \/ StillPending \/ DetachNative \/ RecordAwaiting
         \/ ClaimHuman
  BY <1>3, <1>n, <1>d DEF Request, At, Step, Continue, durable, history, StillPending, Idle,
     DetachNative, SameProcess, Running, RecordAwaiting, ClaimHuman, NewLease,
     NobodyIsConnected, Mems
<1>4. CASE LaunchHumanFails \/ RecordHuman \/ Complete \/ Restore \/ ResumeGone \/ Adopt
  BY <1>4, <1>n, <1>d DEF LaunchHumanFails, At, Unlocked, Idle, history, RecordHuman, Step,
     Complete, Running, NewLease, Restore, CanRestore, Permits, Inspection, Matched,
     Transition, Proves, OwnerShowsHandoff, durable, ResumeGone, Awaiting, Adopt,
     NobodyIsConnected, Mems
<1>5. CASE RecordControlled \/ ResumeLocked \/ Resumed \/ ResumeFails \/ Verify \/ Stop
  BY <1>5, <1>n, <1>d DEF RecordControlled, At, Step, history, ResumeLocked, Awaiting,
     Running, Unlocked, Resumed, Idle, ResumeFails, Fail, Verify, durable, Stop, StopRefused,
     CloseOwned, NobodyIsConnected, Mems
<1>6. CASE StopFinishes \/ DetachForWorkerShutdown \/ Crash \/ Restart \/ BrowserExits
  BY <1>6, <1>n, <1>d DEF StopFinishes, At, Unlocked, Idle, history, DetachForWorkerShutdown,
     Awaiting, Blank, Crash, durable, Restart, BrowserExits, NobodyIsConnected, Mems
<1> QED
  BY <1>1, <1>2, <1>3, <1>4, <1>5, <1>6 DEF HandoffSteps

\* The lease stays with the browser the worker drives.
LEMMA LeaseIsKept ==
    ASSUME HandoffConstants, HandoffInv, HandoffSteps
    PROVE  LeaseNamesIt'
<1> USE DEF HandoffInv
<1>n. /\ mem \in Mems /\ None \notin Handoffs /\ None \notin Pendings /\ None \notin Ids
      /\ (mem.handoff # None => mem.handoff \in Handoffs) /\ (mem.pending # None => mem.pending \in Pendings)
      /\ (browser # None => browser \in HandoffBrowsers)
  BY MemoryFields DEF HandoffConstants
<1>d. doing \in [at : HandoffPlaces, resume : BOOLEAN]
  BY DEF HandoffTypes
<1>1. CASE StartFails \/ Prepared \/ OrphanAsked \/ Attaching \/ Launching \/ Attached
  BY <1>1, <1>n, <1>d, PhaseIsALease DEF StartFails, Idle, StartPlaces, Prepared, Begun,
     Step, history, OrphanAsked, durable, Attaching, Launching, Attached, Connected,
     LeaseNamesIt, ReleasePlaces, Mems
<1>2. CASE ExitReleased \/ HumanLaunched \/ Start \/ Launch \/ Request \/ Continue
  BY <1>2, <1>n, <1>d, PhaseIsALease DEF ExitReleased, Idle, HumanLaunched, Start, At,
     Awaiting, Step, durable, history, Launch, Unlocked, Request, Continue, Connected,
     LeaseNamesIt, StartPlaces, ReleasePlaces, Mems
<1>3. CASE StillPending \/ DetachNative \/ RecordAwaiting \/ ClaimHuman \/ LaunchHumanFails
         \/ RecordHuman
  BY <1>3, <1>n, <1>d, PhaseIsALease DEF StillPending, Idle, durable, history, DetachNative,
     At, SameProcess, Running, Step, RecordAwaiting, ClaimHuman, NewLease, LaunchHumanFails,
     Unlocked, RecordHuman, Connected, LeaseNamesIt, StartPlaces, ReleasePlaces, Mems
<1>4. CASE Complete \/ Restore \/ ResumeGone \/ Adopt \/ RecordControlled \/ ResumeLocked
  BY <1>4, <1>n, <1>d, PhaseIsALease DEF Complete, At, Idle, Running, NewLease, Restore,
     CanRestore, Permits, Inspection, Matched, Transition, Proves, OwnerShowsHandoff,
     durable, ResumeGone, Awaiting, Unlocked, Adopt, RecordControlled, Step, history,
     ResumeLocked, Connected, LeaseNamesIt, StartPlaces, ReleasePlaces, Mems
<1>5. CASE Resumed \/ ResumeFails \/ Verify
  BY <1>5, <1>n, <1>d, PhaseIsALease DEF Resumed, At, Idle, history, ResumeFails, Fail,
     Running, Verify, durable, Connected, LeaseNamesIt, StartPlaces, ReleasePlaces, Mems
<1>6. CASE Stop \/ StopFinishes
  BY <1>6, <1>n, <1>d, PhaseIsALease DEF Stop, At, StopRefused, Awaiting, CloseOwned, Step,
     StopFinishes, Unlocked, Idle, history, Connected, LeaseNamesIt, StartPlaces,
     ReleasePlaces, Mems
<1>7. CASE DetachForWorkerShutdown
  BY <1>7, <1>n, <1>d, PhaseIsALease DEF DetachForWorkerShutdown, At, Awaiting, Blank, Idle,
     history, Connected, LeaseNamesIt, StartPlaces, ReleasePlaces, Mems
<1>8. CASE Crash
  BY <1>8, <1>n, <1>d, PhaseIsALease DEF Crash, Blank, Idle, durable, history, Connected,
     LeaseNamesIt, StartPlaces, ReleasePlaces, Mems
<1>9. CASE BrowserExits
  BY <1>9, <1>n, <1>d, PhaseIsALease DEF BrowserExits, Idle, Connected, LeaseNamesIt,
     StartPlaces, ReleasePlaces, Mems
<1>10. CASE ExitResumed
  <2>1. mem.context = "none" /\ mem'.context = mem.context
    BY <1>10 DEF ExitResumed, Running, Connected
  <2> QED
    BY <2>1 DEF LeaseNamesIt
<1>11. CASE Establish
  <2> DEFINE mode == IF mem.context = "native" THEN "native_cdp" ELSE "playwright"
  <2>1. /\ lease' = NewLease(mode, "owned_active", mem.process) /\ worker # 0
        /\ mem' = [mem EXCEPT !.holds = TRUE] /\ worker' = worker /\ mem.process # None
    BY <1>11 DEF Establish, At, Connected
  <2>2. mem'.context = mem.context /\ mem'.process = mem.process
    BY <1>n, <2>1 DEF Mems
  <2>3. lease' # None /\ lease'.owner = worker /\ lease'.mode = mode /\ lease'.process = mem.process
    BY <2>1, NewLeaseIsALease, MemoryFields
  <2> QED
    BY <2>1, <2>2, <2>3 DEF LeaseNamesIt
<1>12. CASE Restart
  <2>1. mem'.context = "none"
    BY <1>12 DEF Restart, NobodyIsConnected
  <2> QED
    BY <2>1 DEF LeaseNamesIt
<1> QED
  BY <1>1, <1>2, <1>3, <1>4, <1>5, <1>6, <1>7, <1>8, <1>9, <1>10, <1>11, <1>12 DEF
     HandoffSteps

\* Nothing a worker does, or fails to do, takes the guard away.
LEMMA GuardIsKept ==
    ASSUME HandoffConstants, HandoffInv, Next
    PROVE  PrivateIsGuarded'
<1> USE DEF HandoffInv
<1>n. /\ mem \in Mems /\ None \notin Handoffs /\ None \notin Pendings /\ None \notin Ids
      /\ None \notin Records /\ None \notin HandoffBrowsers
      /\ (browser # None => browser \in HandoffBrowsers)
  BY MemoryFields DEF HandoffConstants
<1>d. doing \in [at : HandoffPlaces, resume : BOOLEAN]
  BY DEF HandoffTypes
<1>r. Released \in {lease, None}
  BY DEF Released
<1>w. lease # None => lease.owner # 0 /\ lease.owner # born + 1
  <2>1. born \in Nat
    BY DEF HandoffTypes, HandoffConstants
  <2>2. lease # None => lease.owner \in 1 .. born
    BY DEF Numbered
  <2> QED
    BY <2>1, <2>2
<1>1. CASE Terminated
  BY <1>1, <1>n, <1>d, <1>r DEF Terminated, At, Unlocked, Proceed, Step, history, Refuse,
     Fail, Idle, Running, Numbered, Connected, PrivateIsGuarded, Guarded, HumanLease,
     HumanRecord, AwaitsItsUser, StartPlaces, ReleasePlaces, Mems
<1>2. CASE ReadRecord
  BY <1>2, <1>n, <1>d, <1>r DEF ReadRecord, At, Running, AwaitsUser, MayContinue, Matched,
     Refuse, Fail, Idle, history, Step, Unlocked, Numbered, Connected, PrivateIsGuarded,
     Guarded, HumanLease, HumanRecord, AwaitsItsUser, StartPlaces, ReleasePlaces, Mems
<1>3. CASE Launch
  BY <1>3, <1>n, <1>d, <1>r DEF Launch, At, Unlocked, Step, history, Numbered, Connected,
     PrivateIsGuarded, Guarded, HumanLease, HumanRecord, AwaitsItsUser, StartPlaces,
     ReleasePlaces, Mems
<1>4. CASE LaunchFails
  BY <1>4, <1>n, <1>d, <1>r DEF LaunchFails, At, Unlocked, Fail, Idle, Running, history,
     Numbered, Connected, PrivateIsGuarded, Guarded, HumanLease, HumanRecord, AwaitsItsUser,
     StartPlaces, ReleasePlaces, Mems
<1>5. CASE Attach
  BY <1>5, <1>n, <1>d, <1>r DEF Attach, At, Running, Step, history, Refuse, Fail, Idle,
     Numbered, Connected, PrivateIsGuarded, Guarded, HumanLease, HumanRecord, AwaitsItsUser,
     StartPlaces, ReleasePlaces, Mems
<1>6. CASE AttachFails
  BY <1>6, <1>n, <1>d, <1>r DEF AttachFails, At, Fail, Idle, Running, history, Numbered,
     Connected, PrivateIsGuarded, Guarded, HumanLease, HumanRecord, AwaitsItsUser,
     StartPlaces, ReleasePlaces, Mems
<1>7. CASE Establish
  BY <1>7, <1>n, <1>d, <1>r DEF Establish, At, Running, Step, history, Numbered, Connected,
     PrivateIsGuarded, Guarded, HumanLease, HumanRecord, AwaitsItsUser, StartPlaces,
     ReleasePlaces, Mems
<1>8. CASE Unobserved
  BY <1>8, <1>n, <1>d, <1>r DEF Unobserved, At, Running, Fail, Idle, history, Numbered,
     Connected, PrivateIsGuarded, Guarded, HumanLease, HumanRecord, AwaitsItsUser,
     StartPlaces, ReleasePlaces, Mems
<1>9. CASE Continue
  BY <1>9, <1>n, <1>d, <1>r DEF Continue, At, Step, durable, history, Numbered, Connected,
     PrivateIsGuarded, Guarded, HumanLease, HumanRecord, AwaitsItsUser, StartPlaces,
     ReleasePlaces, Mems
<1>10. CASE StillPending
  BY <1>10, <1>n, <1>d, <1>r DEF StillPending, Idle, durable, history, Numbered, Connected,
     PrivateIsGuarded, Guarded, HumanLease, HumanRecord, AwaitsItsUser, StartPlaces,
     ReleasePlaces, Mems
<1>11. CASE DetachNative
  BY <1>11, <1>n, <1>d, <1>r DEF DetachNative, At, SameProcess, Running, Step, history,
     Numbered, Connected, PrivateIsGuarded, Guarded, HumanLease, HumanRecord, AwaitsItsUser,
     StartPlaces, ReleasePlaces, Mems
<1>12. CASE RecordAwaiting
  BY <1>12, <1>n, <1>d, <1>r DEF RecordAwaiting, At, Running, Step, history, Numbered,
     Connected, PrivateIsGuarded, Guarded, HumanLease, HumanRecord, AwaitsItsUser,
     StartPlaces, ReleasePlaces, Mems
<1>13. CASE ClaimHuman
  BY <1>13, <1>n, <1>d, <1>r DEF ClaimHuman, At, Step, history, Numbered, Connected,
     PrivateIsGuarded, Guarded, HumanLease, HumanRecord, AwaitsItsUser, StartPlaces,
     ReleasePlaces, Mems
<1>14. CASE LaunchHumanFails
  BY <1>14, <1>n, <1>d, <1>r DEF LaunchHumanFails, At, Unlocked, Idle, history, Numbered,
     Connected, PrivateIsGuarded, Guarded, HumanLease, HumanRecord, AwaitsItsUser,
     StartPlaces, ReleasePlaces, Mems
<1>15. CASE RecordHuman
  BY <1>15, <1>n, <1>d, <1>r DEF RecordHuman, At, Step, history, Numbered, Connected,
     PrivateIsGuarded, Guarded, HumanLease, HumanRecord, AwaitsItsUser, StartPlaces,
     ReleasePlaces, Mems
<1>16. CASE Restore
  BY <1>16, <1>n, <1>d, <1>r DEF Restore, At, CanRestore, Running, Permits, Inspection,
     Matched, Transition, Proves, OwnerShowsHandoff, durable, Numbered, Connected,
     PrivateIsGuarded, Guarded, HumanLease, HumanRecord, AwaitsItsUser, StartPlaces,
     ReleasePlaces, Mems
<1>17. CASE Adopt
  BY <1>17, <1>n, <1>d, <1>r DEF Adopt, At, Awaiting, Running, Transition, Matched,
     OwnerShowsHandoff, Proves, Numbered, Connected, PrivateIsGuarded, Guarded, HumanLease,
     HumanRecord, AwaitsItsUser, StartPlaces, ReleasePlaces, Mems
<1>18. CASE RecordControlled
  BY <1>18, <1>n, <1>d, <1>r DEF RecordControlled, At, Step, history, Numbered, Connected,
     PrivateIsGuarded, Guarded, HumanLease, HumanRecord, AwaitsItsUser, StartPlaces,
     ReleasePlaces, Mems
<1>19. CASE ExitResumed
  BY <1>19, <1>n, <1>d, <1>r DEF ExitResumed, Numbered, Connected, PrivateIsGuarded, Guarded,
     HumanLease, HumanRecord, AwaitsItsUser, StartPlaces, ReleasePlaces, Mems
<1>20. CASE Resumed
  BY <1>20, <1>n, <1>d, <1>r DEF Resumed, At, Idle, history, Numbered, Connected,
     PrivateIsGuarded, Guarded, HumanLease, HumanRecord, AwaitsItsUser, StartPlaces,
     ReleasePlaces, Mems
<1>21. CASE ResumeFails
  BY <1>21, <1>n, <1>d, <1>r DEF ResumeFails, At, Fail, Idle, Running, history, Numbered,
     Connected, PrivateIsGuarded, Guarded, HumanLease, HumanRecord, AwaitsItsUser,
     StartPlaces, ReleasePlaces, Mems
<1>22. CASE Verify
  BY <1>22, <1>n, <1>d, <1>r DEF Verify, At, durable, history, Numbered, Connected,
     PrivateIsGuarded, Guarded, HumanLease, HumanRecord, AwaitsItsUser, StartPlaces,
     ReleasePlaces, Mems
<1>23. CASE StopFinishes
  BY <1>23, <1>n, <1>d, <1>r DEF StopFinishes, At, Unlocked, Idle, history, Numbered,
     Connected, PrivateIsGuarded, Guarded, HumanLease, HumanRecord, AwaitsItsUser,
     StartPlaces, ReleasePlaces, Mems
<1>24. CASE Start
  <2>1. UNCHANGED <<lease, record, browser, mem, private, worker>> /\ doing.at = "idle" /\ ~Awaiting
    BY <1>24 DEF Start, At, durable, history
  <2>2. doing'.at = "prepare" /\ doing'.resume = doing.resume
    BY <1>24, <1>d DEF Start, Step
  <2>3. HumanLease' = HumanLease /\ HumanRecord' = HumanRecord
    BY <2>1 DEF HumanLease, HumanRecord, AwaitsItsUser, Running
  <2> QED
    BY <2>1, <2>2, <2>3 DEF Awaiting, PrivateIsGuarded, Guarded
<1>25. CASE Prepare
  BY <1>25, PreparingIsGuarded
<1>26. CASE Request
  BY <1>26, <1>n, <1>d, <1>r, PhaseIsALease DEF Request, At, Step, Numbered, Connected,
     PrivateIsGuarded, Guarded, HumanLease, HumanRecord, AwaitsItsUser, StartPlaces,
     ReleasePlaces, Mems
<1>27. CASE ExitReleased
  <2>1. ~private /\ ~private' /\ UNCHANGED browser
    BY <1>27 DEF ExitReleased, PrivateIsGuarded, Guarded
  <2>2. doing'.at # "complete"
    <3>1. CASE doing' = [doing EXCEPT !.at = "claim human"]
      BY <1>d, <3>1
    <3>2. CASE doing' = Idle
      BY <3>2 DEF Idle
    <3> QED
      BY <1>27, <3>1, <3>2 DEF ExitReleased
  <2> QED
    BY <2>1, <2>2 DEF PrivateIsGuarded
<1>28. CASE HumanLaunched
  <2>1. ~private' /\ UNCHANGED record /\ browser' # None /\ browser'.process = launched + 1
    BY <1>28, <1>n DEF HumanLaunched, PrivateIsGuarded, Guarded
  <2>2. record # None => record.process # launched + 1
    <3>1. launched \in Nat
      BY DEF HandoffTypes, HandoffConstants
    <3>2. record # None => record.process \in Launched
      BY DEF Numbered
    <3> QED
      BY <3>1, <3>2 DEF Launched
  <2>3. AwaitsItsUser'
    BY <2>1, <2>2 DEF AwaitsItsUser, Running
  <2> QED
    BY <2>1, <2>3 DEF PrivateIsGuarded
<1>29. CASE Complete
  <2>1. doing' = Idle /\ UNCHANGED <<record, browser>> /\ AwaitsItsUser
    BY <1>29 DEF Complete, At, PrivateIsGuarded
  <2>2. CASE UNCHANGED <<lease, mem, private>>
    BY <1>29, <2>1, <2>2 DEF Complete, At, Idle, PrivateIsGuarded, Guarded
  <2>3. CASE ~UNCHANGED <<lease, mem, private>>
    <3>1. /\ browser # None /\ lease' = NewLease("human_handoff", "human_input", browser.process)
          /\ mem' = [mem EXCEPT !.holds = TRUE, !.pending = None,
                                !.handoff = [state |-> "awaiting_user", process |-> browser.process,
                                             continuous |-> browser.kind = "native", offered |-> FALSE]]
          /\ worker' = worker /\ worker # 0 /\ mem.context = "none" /\ mem.process = None
      BY <1>29, <2>3 DEF Complete, At, Connected, ReleasePlaces
    <3>2. mem'.context = "none" /\ mem'.process = None /\ mem'.pending = None
          /\ mem'.handoff = [state |-> "awaiting_user", process |-> browser.process,
                             continuous |-> browser.kind = "native", offered |-> FALSE]
      BY <1>n, <3>1 DEF Mems
    <3>3. mem'.handoff \in Handoffs /\ mem'.handoff.state = "awaiting_user"
      BY <3>1, <3>2, MemoryFields DEF Handoffs, HandoffBrowsers
    <3>4. lease' # None /\ lease'.mode = "human_handoff" /\ lease'.process = browser.process
      BY <3>1, NewLeaseIsALease, MemoryFields
    <3> QED
      BY <1>n, <2>1, <3>1, <3>2, <3>3, <3>4 DEF PrivateIsGuarded, Guarded, HumanLease,
         AwaitsItsUser, Running, Idle
  <2> QED BY <2>2, <2>3
<1>30. CASE ResumeGone
  BY <1>30, <1>n, <1>d, <1>r, PhaseIsALease DEF ResumeGone, At, Awaiting, Running, Unlocked,
     Numbered, Connected, PrivateIsGuarded, Guarded, HumanLease, HumanRecord, AwaitsItsUser,
     StartPlaces, ReleasePlaces, Mems
<1>31. CASE ResumeLocked
  BY <1>31, <1>n, <1>d, <1>r, PhaseIsALease DEF ResumeLocked, At, Awaiting, Running,
     Unlocked, history, Numbered, Connected, PrivateIsGuarded, Guarded, HumanLease,
     HumanRecord, AwaitsItsUser, StartPlaces, ReleasePlaces, Mems
<1>32. CASE Stop
  <2>1. UNCHANGED <<record, browser, private, worker>> /\ doing.at = "idle" /\ ~Awaiting
    BY <1>32 DEF Stop, CloseOwned, StopRefused, At
  <2>2. doing'.at \in {"idle", "stopping"} /\ doing'.resume = doing.resume
    BY <1>32, <1>d DEF Stop, CloseOwned, Step
  <2>3. CASE private
    <3>1. mem.context = "none" /\ mem.handoff = None
      BY <2>1, <2>3 DEF Awaiting, PrivateIsGuarded, Guarded
    <3>2. UNCHANGED lease /\ mem' = [mem EXCEPT !.context = "none", !.handoff = None]
          /\ doing' = [doing EXCEPT !.at = "idle"]
      BY <1>32, <3>1 DEF Stop, CloseOwned, Step
    <3>3. UNCHANGED mem /\ doing'.at = "idle"
      BY <1>n, <1>d, <3>1, <3>2 DEF Mems
    <3>4. HumanLease' = HumanLease /\ HumanRecord' = HumanRecord
      BY <2>1, <3>2, <3>3 DEF HumanLease, HumanRecord, AwaitsItsUser, Running
    <3> QED
      BY <2>1, <2>2, <2>3, <3>3, <3>4 DEF PrivateIsGuarded, Guarded
  <2>4. CASE ~private
    BY <2>1, <2>2, <2>4 DEF PrivateIsGuarded
  <2> QED BY <2>3, <2>4
<1>33. CASE DetachForWorkerShutdown
  <2>1. UNCHANGED <<browser, private>> /\ worker' = 0 /\ mem' = Blank /\ doing' = Idle
    BY <1>33 DEF DetachForWorkerShutdown, history
  <2>2. CASE private
    <3>1. UNCHANGED <<lease, record>>
      BY <1>33, <2>2 DEF DetachForWorkerShutdown, PrivateIsGuarded, Guarded
    <3>2. HumanLease => HumanLease'
      BY <1>w, <2>1, <3>1 DEF HumanLease, AwaitsItsUser, Running
    <3> QED
      BY <2>1, <2>2, <3>1, <3>2 DEF Blank, Idle, PrivateIsGuarded, Guarded, HumanRecord,
         Running
  <2>3. CASE ~private
    BY <2>1, <2>3 DEF Idle, PrivateIsGuarded
  <2> QED BY <2>2, <2>3
<1>34. CASE Crash
  <2>1. UNCHANGED <<lease, record, browser, private>> /\ worker' = 0
    BY <1>34 DEF Crash, durable, history
  <2>2. HumanLease => HumanLease'
    BY <1>w, <2>1 DEF HumanLease, AwaitsItsUser, Running
  <2> QED
    BY <1>34, <2>1, <2>2 DEF Crash, Blank, Idle, PrivateIsGuarded, Guarded, HumanRecord,
       Running
<1>35. CASE Restart
  <2>1. UNCHANGED <<lease, record, browser, private, mem, doing>> /\ worker' = born + 1
    BY <1>35 DEF Restart, durable, history
  <2>2. HumanLease => HumanLease'
    BY <1>w, <2>1 DEF HumanLease, AwaitsItsUser, Running
  <2> QED
    BY <2>1, <2>2 DEF PrivateIsGuarded, Guarded, HumanRecord, AwaitsItsUser, Running
<1>36. CASE BrowserExits
  <2>1. browser' = None /\ private' = FALSE
    BY <1>36 DEF BrowserExits
  <2> QED
    BY <2>1 DEF PrivateIsGuarded, AwaitsItsUser, Running
<1> QED
  BY <1>1, <1>2, <1>3, <1>4, <1>5, <1>6, <1>7, <1>8, <1>9, <1>10, <1>11, <1>12, <1>13, <1>14,
     <1>15, <1>16, <1>17, <1>18, <1>19, <1>20, <1>21, <1>22, <1>23, <1>24, <1>25, <1>26,
     <1>27, <1>28, <1>29, <1>30, <1>31, <1>32, <1>33, <1>34, <1>35, <1>36, ExitReleasedSo,
     HumanLaunchedSo, ExitResumedSo DEF Next

-----------------------------------------------------------------------------
(* The promises.                                                           *)

\* At first no browser has run, and one worker is idle.
LEMMA HandoffBegins ==
    ASSUME HandoffConstants, Init
    PROVE  HandoffInv
<1> USE DEF Init, Blank, Idle
<1>1. HandoffTypes
  <2>1. mem \in Mems
    BY DEF Mems
  <2>2. doing \in [at : HandoffPlaces, resume : BOOLEAN]
    BY DEF HandoffPlaces
  <2>3. launched \in 0 .. MaxProcesses /\ born \in 1 .. MaxWorkers /\ worker \in {0, born}
    BY DEF HandoffConstants
  <2>4. lease \in Leases \cup {None} /\ record \in Records \cup {None}
        /\ browser \in HandoffBrowsers \cup {None} /\ private \in BOOLEAN /\ asked \subseteq Ids
    OBVIOUS
  <2> QED
    BY <2>1, <2>2, <2>3, <2>4 DEF HandoffTypes
<1>2. Numbered /\ LeaseNamesIt /\ NobodyIsConnected /\ PrivateIsGuarded
  BY DEF Numbered, LeaseNamesIt, NobodyIsConnected, PrivateIsGuarded
<1>3. Connected
  BY DEF Connected, StartPlaces, ReleasePlaces
<1> QED
  BY <1>1, <1>2, <1>3 DEF HandoffInv

\* Every step keeps the invariant.
LEMMA HandoffIsKept ==
    ASSUME HandoffConstants, HandoffInv, [Next]_vars
    PROVE  HandoffInv'
<1>1. CASE Next
  <2>1. HandoffSteps
    BY <1>1, NextIsOneOfThese DEF HandoffInv
  <2>2. HandoffTypes'
    <3>1. mem' \in Mems /\ doing' \in [at : HandoffPlaces, resume : BOOLEAN]
      BY <2>1, MemoryIsTyped, CommandIsTyped
    <3>2. lease' \in Leases \cup {None} /\ record' \in Records \cup {None}
          /\ browser' \in HandoffBrowsers \cup {None} /\ asked' \subseteq Ids
      BY <2>1, LeaseIsTyped, RecordIsTyped, BrowserIsTyped, AskedAreProcesses
    <3>3. (launched \in 0 .. MaxProcesses /\ born \in 1 .. MaxWorkers /\ worker \in {0, born}
           /\ private \in BOOLEAN)'
      BY <2>1, CountersAreTyped
    <3> QED
      BY <3>1, <3>2, <3>3 DEF HandoffTypes, Mems, HandoffPlaces, StartPlaces, ReleasePlaces, Leases,
         Records, HandoffBrowsers, Pendings, Handoffs, Ids
  <2>3. Numbered'
    BY <2>1, BrowserIsTheLast, RecordIsOfALaunch, MemoryIsOfLaunches, HumanRecordIsOfALaunch,
       LeaseIsOfAWorker DEF Numbered
  <2> QED
    BY <1>1, <2>1, <2>2, <2>3, ConnectionsAreKept, NobodyConnects, LeaseIsKept, GuardIsKept
       DEF HandoffInv
<1>2. CASE UNCHANGED vars
  <2> USE <1>2 DEF vars, HandoffInv
  <2>1. HandoffTypes'
    <3>1. UNCHANGED <<lease, record, browser, launched, born, worker, mem, doing, private, asked>>
      OBVIOUS
    <3> HIDE <1>2 DEF vars
    <3>2. (lease \in Leases \cup {None} /\ record \in Records \cup {None})'
      BY <3>1 DEF HandoffTypes, Leases, Records, Ids
    <3>3. (browser \in HandoffBrowsers \cup {None})'
      BY <3>1 DEF HandoffTypes, HandoffBrowsers, Ids
    <3>4. (launched \in 0 .. MaxProcesses /\ born \in 1 .. MaxWorkers /\ worker \in {0, born})'
      BY <3>1 DEF HandoffTypes
    <3>5. mem' \in Mems /\ doing' \in [at : HandoffPlaces, resume : BOOLEAN]
      BY <3>1 DEF HandoffTypes
    <3>6. (private \in BOOLEAN /\ asked \subseteq Ids)'
      BY <3>1 DEF HandoffTypes, Ids
    <3> QED
      BY <3>2, <3>3, <3>4, <3>5, <3>6 DEF HandoffTypes, Mems, HandoffPlaces, StartPlaces,
         ReleasePlaces, Leases, Records, HandoffBrowsers, Pendings, Handoffs, Ids
  <2>2. Numbered'
    BY DEF Numbered, Launched
  <2>3. Connected' /\ NobodyIsConnected'
    BY DEF Connected, NobodyIsConnected, Running, StartPlaces, ReleasePlaces
  <2>4. LeaseNamesIt'
    BY DEF LeaseNamesIt
  <2>5. PrivateIsGuarded'
    BY DEF PrivateIsGuarded, Guarded, HumanLease, HumanRecord, AwaitsItsUser, Running
  <2> QED
    BY <2>1, <2>2, <2>3, <2>4, <2>5
<1> QED BY <1>1, <1>2

\* What the run checks of every state follows from the invariant.
LEMMA HandoffInvIsEnough ==
    ASSUME HandoffConstants, HandoffInv
    PROVE  TypeOK /\ PrivateStaysPrivate /\ DrivesWhatItOwns
<1>1. TypeOK
  BY DEF HandoffInv, HandoffTypes, TypeOK, Mems, Records, HandoffBrowsers, Pendings, Handoffs
<1>2. PrivateStaysPrivate
  BY DEF HandoffInv, PrivateIsGuarded, Guarded, PrivateStaysPrivate
<1>3. DrivesWhatItOwns
  BY DEF HandoffInv, LeaseNamesIt, DrivesWhatItOwns, At
<1> QED BY <1>1, <1>2, <1>3

\* Three steps ask a process to close: none of them is the human's.
LEMMA HumanIsLeftAlone ==
    ASSUME HandoffConstants, HandoffInv, [Next]_vars
    PROVE  HumanIsNotInterrupted
<1> USE DEF HandoffInv
<1>1. CASE Next
  <2>1. HandoffSteps
    BY <1>1, NextIsOneOfThese
  <2>2. CASE OrphanAsked
    <3>1. ~private
      BY <2>2 DEF OrphanAsked, PrivateIsGuarded, Guarded, HumanLease, HumanRecord
    <3> QED
      BY <3>1 DEF HumanIsNotInterrupted
  <2>3. CASE Request
    <3>1. ~private
      BY <2>3 DEF Request, PrivateIsGuarded, Guarded
    <3> QED
      BY <3>1 DEF HumanIsNotInterrupted
  <2>4. CASE Stop
    <3>1. private => asked' = asked
      BY <2>4 DEF Stop, CloseOwned, PrivateIsGuarded, Guarded
    <3> QED
      BY <3>1 DEF HumanIsNotInterrupted
  <2>5. CASE ~(OrphanAsked \/ Request \/ Stop)
    <3>1. asked' = asked
      BY <2>1, <2>5 DEF HandoffSteps, StartFails, Idle, StartPlaces, Prepared, Begun, Step,
         history, Attaching, Launching, Attached, ExitReleased, HumanLaunched, ExitResumed, Start,
         durable, Launch, Establish, Continue, StillPending, DetachNative, RecordAwaiting,
         ClaimHuman, LaunchHumanFails, RecordHuman, Complete, Restore, ResumeGone, Adopt,
         RecordControlled, ResumeLocked, Resumed, ResumeFails, Verify, StopFinishes,
         DetachForWorkerShutdown, Crash, Restart, BrowserExits
    <3> QED
      BY <3>1 DEF HumanIsNotInterrupted
  <2> QED BY <2>2, <2>3, <2>4, <2>5
<1>2. CASE UNCHANGED vars
  BY <1>2 DEF vars, HumanIsNotInterrupted
<1> QED BY <1>1, <1>2

\* For any number of workers, crashing anywhere and replaced, and of browser
\* processes: what was handed to a human stays the human's until a resume.
THEOREM HandoffsArePrivate ==
    ASSUME HandoffConstants
    PROVE  Spec => HandoffStaysPrivate
<1>1. Init => HandoffInv
  BY HandoffBegins
<1>2. HandoffInv /\ [Next]_vars => HandoffInv'
  BY HandoffIsKept
<1>3. HandoffInv => TypeOK /\ PrivateStaysPrivate /\ DrivesWhatItOwns
  BY HandoffInvIsEnough
<1>4. HandoffInv /\ [Next]_vars => HumanIsNotInterrupted
  BY HumanIsLeftAlone
<1> QED
  BY <1>1, <1>2, <1>3, <1>4, PTL DEF Spec, HandoffStaysPrivate
===============================================================================
