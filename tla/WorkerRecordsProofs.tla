------------------------ MODULE WorkerRecordsProofs -------------------------
(***************************************************************************)
(* What the modules of MCWorkerRecords promise, for every value of their   *)
(* constants: each module is an instance on its own, and what is proved of *)
(* it carries the name of the property that the run checks of its small    *)
(* instance.                                                               *)
(***************************************************************************)
EXTENDS SequenceTheorems, FiniteSetTheorems, TLAPS
CONSTANTS None, Keys, Workers, Processes, Calls, Agents, MaxSessions, MaxRevisions, MaxPolls,
          Failed, Browsers, Default, MaxOps, MaxEnds, Pages, First, MaxDocuments, MaxCalls,
          MaxWorkers, MayFail, EventPages, EventDocuments, EventWorkers, MayNotAnswer,
          Downloads, Retained, DownloadWorkers
VARIABLES flow, jar, stale, limited, at, reading, truth, loaded, report,
          file, browser, used, native, awaiting, alive, pc, goal, seen, active, mut, drives,
          signalled, calls, queue, joined, lastNotice, waiting, closed, sessions, notice, mail, told,
          stored, host, worker, private, op, ops, ends,
          tab, next, retained, record, disk, jobs, up, workers,
          doc, tails, origin, found, sequence, events, writes, writing, owed, asked, cursor, fresh,
          obj, kept, capture, chain, broken, since

-----------------------------------------------------------------------------
(* Storage: whether a login survived the way back.                         *)

Storage == INSTANCE StorageContinuity

\* What is called preserved is there, and what the person added and went is
\* told and put down to the right moment (profile-binding/storage.ts).
LossesAreTold == Storage!TypeOK /\ Storage!ReattachmentIsTold

\* The sets of keys are what they are, and the report is the last thing made:
\* no reading changes once it is there.
StorageInv ==
    /\ flow \in Storage!Flows /\ jar \in SUBSET Keys /\ stale \in SUBSET Keys /\ limited \in SUBSET Keys
    /\ reading \in [Storage!Moments -> (SUBSET Keys) \cup {None}]
    /\ truth \in [Storage!After -> SUBSET Keys]
    /\ report # None => at = "end"
    /\ LossesAreTold

\* A reading keeps both: what is read of a running browser is what it has.
LEMMA ReadsAreTrue ==
    ASSUME StorageInv, NEW moment \in Storage!Moments, NEW readings, NEW after,
           Storage!Reads(moment, readings, after),
           \A keys \in readings : keys \in (SUBSET Keys) \cup {None},
           moment \in {"start", "load"} => readings = Storage!Live,
           moment = "human" /\ flow # "exited" => readings = {None},
           flow = "restored" => readings = {None}
    PROVE  StorageInv'
<1>1. PICK keys \in readings : reading' = [reading EXCEPT ![moment] = keys]
  BY DEF Storage!Reads
<1>2. truth' = [t \in Storage!After |-> IF t = moment THEN jar ELSE truth[t]]
  BY DEF Storage!Reads
<1>3. UNCHANGED <<flow, jar, stale, limited, loaded, report>> /\ at = moment
  BY DEF Storage!Reads
<1>4. at # "end" /\ report = None
  BY <1>3 DEF StorageInv, Storage!Moments
<1>5. reading' \in [Storage!Moments -> (SUBSET Keys) \cup {None}] /\ truth' \in [Storage!After -> SUBSET Keys]
  BY <1>1, <1>2 DEF StorageInv
<1>6. Storage!TypeOK'
  <2>1. ASSUME NEW t \in {"start", "load"}, reading'[t] # None
        PROVE  reading'[t] \subseteq truth'[t]
    <3>1. CASE t = moment
      <4>1. keys \in {{}, jar \ limited}
        BY <1>1, <2>1, <3>1 DEF StorageInv, Storage!Live
      <4> QED
        BY <1>1, <1>2, <3>1, <4>1 DEF StorageInv, Storage!After, Storage!Moments
    <3>2. CASE t # moment
      BY <1>1, <1>2, <2>1, <3>2 DEF StorageInv, LossesAreTold, Storage!TypeOK, Storage!Known,
         Storage!After, Storage!Moments
    <3> QED BY <3>1, <3>2
  <2>2. flow # "exited" => reading'["human"] = None
    BY <1>1 DEF StorageInv, LossesAreTold, Storage!TypeOK, Storage!Moments
  <2>3. flow = "restored" => \A t \in Storage!Moments : reading'[t] = None
    BY <1>1 DEF StorageInv, LossesAreTold, Storage!TypeOK
  <2> QED
    BY <1>3, <2>1, <2>2, <2>3 DEF Storage!TypeOK, Storage!Known
<1>7. Storage!ReattachmentIsTold'
  BY <1>3, <1>4 DEF Storage!ReattachmentIsTold
<1> QED
  BY <1>3, <1>4, <1>5, <1>6, <1>7 DEF StorageInv, LossesAreTold

\* The comparison tells what the readings show, and they were true.
LEMMA ComparisonIsTrue ==
    ASSUME StorageInv, Storage!Compare
    PROVE  StorageInv'
<1> USE DEF StorageInv
<1>1. at' = "end" /\ UNCHANGED <<flow, jar, stale, limited, reading, truth, loaded>>
  BY DEF Storage!Compare
<1>2. Storage!TypeOK'
  BY <1>1 DEF LossesAreTold, Storage!TypeOK, Storage!Known
<1>3. PICK reached \in BOOLEAN :
        report' = [state |-> Storage!State, boundary |-> Storage!LossBoundary, told |-> Storage!Told(reached)]
  BY DEF Storage!Compare
<1>4. Storage!Human = Storage!TheirKeys
  BY DEF Storage!Human, Storage!TheirKeys
<1>5. ASSUME Storage!State = "preserved"
      PROVE  Storage!Known(Storage!TheirKeys) /\ Storage!TheirKeys \subseteq truth["load"]
  <2>1. Storage!Comparable /\ Storage!Human \subseteq reading["load"]
    BY <1>5 DEF Storage!State, Storage!Preserved
  <2>2. reading["load"] \subseteq truth["load"]
    BY <2>1 DEF Storage!Comparable, LossesAreTold, Storage!TypeOK
  <2> QED
    BY <1>4, <2>1, <2>2 DEF Storage!Comparable
<1>6. ASSUME Storage!Known(Storage!Before), Storage!Known(Storage!TheirKeys),
             Storage!Known(reading["start"]), Storage!Known(reading["load"]),
             NEW key \in Storage!TheirKeys \ Storage!Before, key \notin truth["load"]
      PROVE  Storage!Told(reached) = "storage_lost"
  <2>1. key \notin reading["load"]
    BY <1>6 DEF LossesAreTold, Storage!TypeOK
  <2>2. key \in Storage!HumanAdded /\ Storage!Comparable
    BY <1>4, <1>6 DEF Storage!HumanAdded, Storage!Comparable
  <2>3. Storage!AddedLost(reading["load"])
    BY <1>6, <2>1, <2>2 DEF Storage!AddedLost
  <2>4. Storage!State = "lost"
    BY <2>3 DEF Storage!State, Storage!TargetLoadLoss
  <2> QED
    BY <2>2, <2>4 DEF Storage!Told, Storage!AuthNotPersisted
<1>7. ASSUME Storage!LossBoundary = "target_load", Storage!Known(Storage!Before),
             Storage!Known(Storage!TheirKeys), Storage!Known(reading["start"]),
             NEW key \in Storage!TheirKeys \ Storage!Before
      PROVE  key \in truth["start"]
  <2>1. Storage!TargetLoadLoss
    <3>1. CASE Storage!ControlledStartLoss
      BY <1>7, <3>1 DEF Storage!LossBoundary, Storage!TargetLoadLoss
    <3>2. CASE ~Storage!ControlledStartLoss
      BY <1>7, <3>2 DEF Storage!LossBoundary
    <3> QED BY <3>1, <3>2
  <2>2. key \in Storage!HumanAdded
    BY <1>4, <1>7 DEF Storage!HumanAdded
  <2>3. key \in reading["start"]
    BY <1>7, <2>1, <2>2 DEF Storage!TargetLoadLoss, Storage!ControlledStartLoss, Storage!AddedLost
  <2> QED
    BY <1>7, <2>3 DEF LossesAreTold, Storage!TypeOK
<1>8. Storage!ReattachmentIsTold'
  <2>1. Storage!TheirKeys' = Storage!TheirKeys /\ Storage!Before' = Storage!Before
    BY <1>1 DEF Storage!TheirKeys, Storage!Before
  <2>2. \A k : Storage!Known(k)' <=> Storage!Known(k)
    BY DEF Storage!Known
  <2>3. report'.state = Storage!State /\ report'.boundary = Storage!LossBoundary
        /\ report'.told = Storage!Told(reached)
    BY <1>3
  <2> QED
    BY <1>1, <1>5, <1>6, <1>7, <2>1, <2>3 DEF Storage!ReattachmentIsTold, Storage!Known
<1> QED
  BY <1>1, <1>2, <1>8 DEF LossesAreTold

\* Whatever the person and the site do to the cookies, and whichever readings
\* fail, the report of a resumption is true of the moments it speaks of.
THEOREM ReportsAreTrue == Storage!Spec => []LossesAreTold
<1>1. Storage!Init => StorageInv
  BY DEF Storage!Init, StorageInv, LossesAreTold, Storage!TypeOK, Storage!ReattachmentIsTold,
     Storage!Known, Storage!Flows, Storage!Moments, Storage!After
<1>2. StorageInv /\ [Storage!Next]_(Storage!vars) => StorageInv'
  <2> SUFFICES ASSUME StorageInv, [Storage!Next]_(Storage!vars) PROVE StorageInv'
    OBVIOUS
  <2>0. Storage!Live \subseteq (SUBSET Keys) \cup {None} /\ Storage!Offline \subseteq (SUBSET Keys) \cup {None}
    BY DEF StorageInv, Storage!Live, Storage!Offline
  <2>1. CASE Storage!ReadBefore
    BY <2>0, <2>1, ReadsAreTrue DEF Storage!ReadBefore, Storage!Moments, Storage!Live
  <2>2. CASE Storage!ReadHuman
    BY <2>0, <2>2, ReadsAreTrue DEF Storage!ReadHuman, Storage!Moments
  <2>3. CASE Storage!ReadStart
    BY <2>0, <2>3, ReadsAreTrue DEF Storage!ReadStart, Storage!Moments, Storage!Live
  <2>4. CASE Storage!ReadLoad
    BY <2>0, <2>4, ReadsAreTrue DEF Storage!ReadLoad, Storage!Moments, Storage!Live
  <2>5. CASE UNCHANGED <<flow, stale, limited, reading, truth, report>> /\ jar' \in SUBSET Keys
             /\ (report # None => at' = "end")
    BY <2>5 DEF StorageInv, LossesAreTold, Storage!TypeOK, Storage!ReattachmentIsTold,
       Storage!Known, Storage!TheirKeys, Storage!Before
  <2>6. CASE Storage!Compare
    BY <2>6, ComparisonIsTrue
  <2>7. Storage!Login \/ Storage!ControlledStart \/ Storage!SiteChanges \/ UNCHANGED Storage!vars
          => /\ UNCHANGED <<flow, stale, limited, reading, truth, report>> /\ jar' \in SUBSET Keys
             /\ report # None => at' = "end"
    BY DEF Storage!Login, Storage!ControlledStart, Storage!SiteChanges, Storage!vars, StorageInv
  <2> QED
    BY <2>1, <2>2, <2>3, <2>4, <2>5, <2>6, <2>7 DEF Storage!Next
<1> QED
  BY <1>1, <1>2, PTL DEF Storage!Spec, StorageInv

-----------------------------------------------------------------------------
(* Lease: the ownership lease of a profile.                                *)

Lease == INSTANCE ProfileLease

\* No browser that a living worker drives or a human uses is signalled, however
\* stale the inspection, and no heartbeat writes a released lease again
\* (profile-ownership/controller.ts, lifecycle/ownership.ts).
LeaseIsRespected ==
    /\ [](Lease!TypeOK /\ Lease!NotRecreated)
    /\ [][Lease!OnlyOrphansSignalled]_(Lease!vars)

LeasePlaces == {"idle", "claim", "attach", "remove", "signal", "terminating", "adopt",
    "claim adopted", "launch", "establish", "human", "run", "closing", "exited", "release",
    "detached"}
LeaseTypes == Lease!TypeOK /\ pc \in [Workers -> LeasePlaces]

\* The process that a lease names has run; one that a lease names under
\* Playwright is no human's, and of the living workers only the owner drives it.
Honest(lease) == lease # None /\ lease.process # None =>
    /\ lease.process \in used
    /\ lease.mode = "playwright" =>
        /\ lease.process \notin native
        /\ \A v \in alive : drives[v] = lease.process => v = lease.owner
\* So are the lease in the file, those inspected and those about to be written,
\* and these are of their writer, who believes to own the file.
Pending(w) == mut[w] # None /\ mut[w] # Lease!Removal
LeasesAreHonest ==
    /\ Honest(file)
    /\ \A w \in Workers :
        /\ Honest(seen[w])
        /\ Pending(w) => Honest(mut[w].lease) /\ mut[w].lease.owner = w /\ active[w]

\* The browser that runs has run; the one that awaits its user is a human's.
BrowserIsKnown ==
    /\ browser # None => browser \in used
    /\ awaiting /\ browser # None => browser \in native

\* What a worker has inspected, by where it is: the orphan it signals has no
\* living owner, and what it adopts or resumes is a human's.
SeenFits(w) ==
    /\ pc[w] = "signal" => seen[w] # None /\ seen[w].mode = "playwright" /\ seen[w].process # None
                           /\ seen[w].owner \notin alive
    /\ pc[w] \in {"adopt", "claim adopted", "human"} => seen[w] # None /\ seen[w].process \in native
    /\ pc[w] \in {"adopt", "claim adopted"} => goal[w] = "human_handoff"
    /\ pc[w] = "establish" => seen[w] # None
    /\ pc[w] = "establish" /\ goal[w] = "playwright" => seen[w].mode = "playwright" /\ seen[w].owner = w
    /\ pc[w] = "establish" /\ goal[w] # "playwright" => seen[w].process \in native
    /\ pc[w] = "establish" /\ goal[w] = "human_handoff" => drives[w] = None
    /\ drives[w] # None => /\ pc[w] \in {"establish", "run", "closing"}
                           /\ seen[w] # None /\ drives[w] = seen[w].process
PlacesFit == \A w \in alive : SeenFits(w)

LeaseInv ==
    /\ None \notin Lease!Leases
    /\ LeaseTypes /\ LeasesAreHonest /\ BrowserIsKnown /\ PlacesFit /\ Lease!NotRecreated

\* The leases that are written are leases.
LEMMA LeasesAreTyped ==
    ASSUME NEW lease, NEW w \in Workers, NEW phase \in Lease!Phases,
           NEW process \in Processes \cup {None}
    PROVE  /\ goal \in [Workers -> Lease!Modes] => Lease!NewLease(w, phase, process) \in Lease!Leases
           /\ lease \in Lease!Leases =>
                /\ [lease EXCEPT !.phase = phase] \in Lease!Leases
                /\ [lease EXCEPT !.process = process] \in Lease!Leases
                /\ lease.owner \in Workers /\ lease.mode \in Lease!Modes /\ lease.phase \in Lease!Phases
                /\ lease.process \in Processes \cup {None}
BY DEF Lease!NewLease, Lease!Leases

\* What a mutation reads to write again is a lease.
LEMMA ReadsAreTyped ==
    ASSUME LeaseTypes, NEW w \in Workers, NEW phase \in Lease!Phases,
           Lease!ReadOwn(w, phase) \/ Lease!UpdatePhase(w, phase)
    PROVE  /\ active' \in [Workers -> BOOLEAN]
           /\ mut' \in [Workers -> {None, Lease!Removal} \cup {Lease!Write(lease) : lease \in Lease!Leases}]
<1>1. file # None => [file EXCEPT !.phase = phase] \in Lease!Leases
  BY LeasesAreTyped DEF LeaseTypes, Lease!TypeOK
<1> DEFINE again == [file EXCEPT !.phase = phase]
<1>2. CASE file # None /\ mut' = [mut EXCEPT ![w] = Lease!Write(again)] /\ UNCHANGED active
  <2> HIDE DEF again
  <2> QED BY <1>1, <1>2 DEF LeaseTypes, Lease!TypeOK, again
<1>3. CASE UNCHANGED mut /\ (UNCHANGED active \/ active' = [active EXCEPT ![w] = FALSE])
  BY <1>3 DEF LeaseTypes, Lease!TypeOK
<1> QED
  BY <1>2, <1>3 DEF Lease!ReadOwn, Lease!UpdatePhase, Lease!Owns


LEMMA PlacesAreTyped ==
    ASSUME LeaseTypes, NEW w \in Workers,
           Lease!WorkerStep(w) \/ Lease!Heartbeat(w) \/ Lease!Finish(w) \/ Lease!Crash(w)
    PROVE  pc' \in [Workers -> LeasePlaces]
<1>1. CASE Lease!Prepare(w)
  BY <1>1 DEF Lease!Prepare, Lease!Decide, Lease!Inspection, Lease!OwnsNative, Lease!Owns,
     Lease!Foreign, Lease!Matched, Lease!Adoptable, Lease!Terminable, Lease!Attachable,
     Lease!Unlocked, Lease!Goto, Lease!world, Lease!At, LeaseTypes, LeasePlaces
<1>2. CASE Lease!PrepareAdoption(w)
  BY <1>2 DEF Lease!PrepareAdoption, Lease!Inspection, Lease!Owns, Lease!Foreign, Lease!Matched,
     Lease!Unlocked, Lease!Goto, Lease!world, Lease!At, LeaseTypes, LeasePlaces
<1>3. CASE Lease!Signal(w)
  BY <1>3 DEF Lease!Signal, Lease!Goto, Lease!worker, Lease!At, LeaseTypes, LeasePlaces
<1>4. CASE Lease!Terminated(w)
  BY <1>4 DEF Lease!Terminated, Lease!Goto, Lease!world, Lease!worker, Lease!At, LeaseTypes,
     LeasePlaces
<1>5. CASE Lease!RemoveOrphan(w)
  BY <1>5 DEF Lease!RemoveOrphan, Lease!RemoveInspected, Lease!IsLeaseOf, Lease!Goto,
     Lease!world, Lease!worker, Lease!Removal, Lease!At, LeaseTypes, LeasePlaces
<1>6. CASE Lease!RemoveAdopted(w)
  BY <1>6 DEF Lease!RemoveAdopted, Lease!RemoveInspected, Lease!IsLeaseOf, Lease!Goto,
     Lease!world, Lease!worker, Lease!Removal, Lease!At, LeaseTypes, LeasePlaces
<1>7. CASE Lease!Claim(w)
  BY <1>7 DEF Lease!Claim, Lease!Link, Lease!NewLease, Lease!Goto, Lease!world, Lease!At,
     LeaseTypes, LeasePlaces
<1>8. CASE Lease!ClaimAdopted(w)
  BY <1>8 DEF Lease!ClaimAdopted, Lease!Link, Lease!NewLease, Lease!Goto, Lease!world, Lease!At,
     LeaseTypes, LeasePlaces
<1>9. CASE Lease!ClaimNativeIfNeeded(w)
  BY <1>9 DEF Lease!ClaimNativeIfNeeded, Lease!Link, Lease!NewLease, Lease!Goto, Lease!world,
     Lease!At, LeaseTypes, LeasePlaces
<1>10. CASE Lease!Launch(w)
  BY <1>10 DEF Lease!Launch, Lease!NewLease, Lease!Unlocked, Lease!Goto, Lease!At, LeaseTypes,
     LeasePlaces
<1>11. CASE Lease!LaunchFails(w)
  BY <1>11 DEF Lease!LaunchFails, Lease!Goto, Lease!world, Lease!worker, Lease!At, LeaseTypes,
     LeasePlaces
<1>12. CASE Lease!Establish(w)
  BY <1>12 DEF Lease!Establish, Lease!NewLease, Lease!Goto, Lease!world, Lease!At, LeaseTypes,
     LeasePlaces
<1>13. CASE Lease!RequestClose(w)
  BY <1>13 DEF Lease!RequestClose, Lease!UpdatePhase, Lease!ReadOwn, Lease!Owns, Lease!Write,
     Lease!Goto, Lease!world, Lease!At, LeaseTypes, LeasePlaces
<1>14. CASE Lease!HandOffInPlace(w)
  BY <1>14 DEF Lease!HandOffInPlace, Lease!UpdatePhase, Lease!ReadOwn, Lease!Owns, Lease!Write,
     Lease!Goto, Lease!At, LeaseTypes, LeasePlaces
<1>15. CASE Lease!Resume(w)
  BY <1>15 DEF Lease!Resume, Lease!Goto, Lease!At, LeaseTypes, LeasePlaces
<1>16. CASE Lease!Exited(w)
  BY <1>16 DEF Lease!Exited, Lease!UpdatePhase, Lease!ReadOwn, Lease!Owns, Lease!Write,
     Lease!Goto, Lease!world, Lease!At, LeaseTypes, LeasePlaces
<1>17. CASE Lease!ProfileUnlocked(w)
  BY <1>17 DEF Lease!ProfileUnlocked, Lease!UpdatePhase, Lease!ReadOwn, Lease!Owns, Lease!Write,
     Lease!Goto, Lease!world, Lease!At, LeaseTypes, LeasePlaces
<1>18. CASE Lease!Release(w)
  BY <1>18 DEF Lease!Release, Lease!Owns, Lease!Removal, Lease!Goto, Lease!world, Lease!At,
     LeaseTypes, LeasePlaces
<1>19. CASE Lease!Detach(w)
  BY <1>19 DEF Lease!Detach, Lease!Goto, Lease!world, Lease!At, LeaseTypes, LeasePlaces
<1>20. CASE Lease!Heartbeat(w)
  BY <1>20 DEF Lease!Heartbeat, Lease!ReadOwn, Lease!Owns, Lease!Write, Lease!world, LeaseTypes,
     LeasePlaces
<1>21. CASE Lease!Finish(w)
  BY <1>21 DEF Lease!Finish, Lease!world, Lease!worker, Lease!Removal, Lease!Write, LeaseTypes,
     LeasePlaces
<1>22. CASE Lease!Crash(w)
  BY <1>22 DEF Lease!Crash, LeaseTypes, LeasePlaces
<1> QED
  BY <1>1, <1>2, <1>3, <1>4, <1>5, <1>6, <1>7, <1>8, <1>9, <1>10, <1>11, <1>12, <1>13, <1>14,
     <1>15, <1>16, <1>17, <1>18, <1>19, <1>20, <1>21, <1>22 DEF Lease!WorkerStep

\* Every step keeps the types.
LEMMA LeaseStepTypes ==
    ASSUME LeaseInv, NEW w \in Workers,
           Lease!WorkerStep(w) \/ Lease!Heartbeat(w) \/ Lease!Finish(w) \/ Lease!Crash(w)
    PROVE  LeaseTypes'
<1>0. {"launching", "human_input", "owned_active", "close_requested", "process_exited", "profile_unlocked"}
        \subseteq Lease!Phases
  BY DEF Lease!Phases
<1>a. LeaseTypes /\ pc' \in [Workers -> LeasePlaces]
  BY PlacesAreTyped DEF LeaseInv
<1>b. /\ \A p \in Processes \cup {None} :
           /\ Lease!NewLease(w, "launching", p) \in Lease!Leases
           /\ Lease!NewLease(w, "human_input", p) \in Lease!Leases
           /\ Lease!NewLease(w, "owned_active", p) \in Lease!Leases
      /\ Lease!NewLease(w, "launching", None) \in Lease!Leases
      /\ seen[w] # None => seen[w].process \in Processes \cup {None}
      /\ file # None => /\ [file EXCEPT !.phase = "close_requested"] \in Lease!Leases
                        /\ [file EXCEPT !.phase = "process_exited"] \in Lease!Leases
                        /\ [file EXCEPT !.phase = "profile_unlocked"] \in Lease!Leases
                        /\ [file EXCEPT !.phase = file.phase] \in Lease!Leases
                        /\ [file EXCEPT !.process = browser] \in Lease!Leases
  BY <1>a, LeasesAreTyped, <1>0
     DEF LeaseTypes, Lease!TypeOK
<1>c. {"playwright", "native_cdp", "human_handoff"} \subseteq Lease!Modes
  BY DEF Lease!Modes
<1>d. w \in alive => /\ pc[w] = "signal" => seen[w] # None /\ seen[w].process # None /\ seen[w].process \in used
                     /\ pc[w] \in {"establish", "claim adopted"} => seen[w] # None
  BY DEF LeaseInv, PlacesFit, SeenFits, LeasesAreHonest, Honest
<1>g. file # None => file.phase \in Lease!Phases
  BY <1>a DEF LeaseTypes, Lease!TypeOK, Lease!Leases
<1>e. Pending(w) => mut[w].lease \in Lease!Leases
  BY <1>a DEF LeaseTypes, Lease!TypeOK, Pending, Lease!Removal, Lease!Write
<1>1. CASE Lease!Prepare(w)
  BY <1>a, <1>b, <1>c, <1>d, <1>e, <1>1 DEF Lease!Prepare, Lease!Decide, Lease!Inspection,
     Lease!OwnsNative, Lease!Owns, Lease!Foreign, Lease!Matched, Lease!Adoptable,
     Lease!Terminable, Lease!Attachable, Lease!Unlocked, Lease!Goto, Lease!world, Lease!At,
     LeaseTypes, Lease!TypeOK
<1>2. CASE Lease!PrepareAdoption(w)
  <2> DEFINE adopted == [file EXCEPT !.process = browser]
  <2>1. file # None
    BY <1>2 DEF Lease!PrepareAdoption, Lease!Inspection, Lease!Owns, Lease!Foreign
  <2>2. adopted \in Lease!Leases /\ seen' = [seen EXCEPT ![w] = adopted]
    BY <1>b, <1>2, <2>1 DEF Lease!PrepareAdoption
  <2> HIDE DEF adopted
  <2> QED
    BY <1>a, <1>c, <1>2, <2>2 DEF Lease!PrepareAdoption, Lease!world, LeaseTypes, Lease!TypeOK
<1>3. CASE Lease!Signal(w)
  BY <1>a, <1>b, <1>c, <1>d, <1>e, <1>3 DEF Lease!Signal, Lease!Goto, Lease!worker, Lease!At,
     LeaseTypes, Lease!TypeOK
<1>4. CASE Lease!Terminated(w)
  BY <1>a, <1>b, <1>c, <1>d, <1>e, <1>4 DEF Lease!Terminated, Lease!Goto, Lease!world,
     Lease!worker, Lease!At, LeaseTypes, Lease!TypeOK
<1>5. CASE Lease!RemoveOrphan(w)
  BY <1>a, <1>b, <1>c, <1>d, <1>e, <1>5 DEF Lease!RemoveOrphan, Lease!RemoveInspected,
     Lease!IsLeaseOf, Lease!Goto, Lease!world, Lease!worker, Lease!At, LeaseTypes, Lease!TypeOK
<1>6. CASE Lease!RemoveAdopted(w)
  BY <1>a, <1>b, <1>c, <1>d, <1>e, <1>6 DEF Lease!RemoveAdopted, Lease!RemoveInspected,
     Lease!IsLeaseOf, Lease!Goto, Lease!world, Lease!worker, Lease!At, LeaseTypes, Lease!TypeOK
<1>7. CASE Lease!Claim(w)
  BY <1>a, <1>b, <1>c, <1>d, <1>e, <1>7 DEF Lease!Claim, Lease!Link, Lease!Goto, Lease!world,
     Lease!At, LeaseTypes, Lease!TypeOK
<1>8. CASE Lease!ClaimAdopted(w)
  BY <1>a, <1>b, <1>c, <1>d, <1>e, <1>8 DEF Lease!ClaimAdopted, Lease!Link, Lease!Goto,
     Lease!world, Lease!At, LeaseTypes, Lease!TypeOK
<1>9. CASE Lease!ClaimNativeIfNeeded(w)
  BY <1>a, <1>b, <1>c, <1>d, <1>e, <1>9 DEF Lease!ClaimNativeIfNeeded, Lease!Link, Lease!Goto,
     Lease!world, Lease!At, LeaseTypes, Lease!TypeOK
<1>10. CASE Lease!Launch(w)
  <2> DEFINE new == Lease!NewLease(w, "launching", browser')
  <2>1. goal \in [Workers -> Lease!Modes] /\ browser' \in Processes \cup {None} /\ new \in Lease!Leases
    BY <1>a, <1>b, <1>10 DEF Lease!Launch, LeaseTypes, Lease!TypeOK
  <2>2. drives' \in [Workers -> Processes \cup {None}] /\ used' \subseteq Processes /\ native' \subseteq used'
        /\ signalled \subseteq used' /\ awaiting' \in BOOLEAN
    <3>1. CASE browser \in native /\ drives' = [drives EXCEPT ![w] = browser]
               /\ UNCHANGED <<used, native, awaiting>>
      BY <1>a, <3>1 DEF LeaseTypes, Lease!TypeOK
    <3>2. ASSUME NEW p \in Processes \ used, used' = used \cup {p}, awaiting' \in BOOLEAN,
                 native' = native \cup {p} \/ native' = native,
                 drives' = [drives EXCEPT ![w] = None] \/ drives' = [drives EXCEPT ![w] = p]
          PROVE  /\ drives' \in [Workers -> Processes \cup {None}] /\ used' \subseteq Processes
                 /\ native' \subseteq used' /\ signalled \subseteq used'
      BY <1>a, <3>2 DEF LeaseTypes, Lease!TypeOK
    <3> QED
      BY <1>10, <3>1, <3>2 DEF Lease!Launch
  <2>3. seen' = [seen EXCEPT ![w] = new]
    BY <1>10 DEF Lease!Launch
  <2> HIDE DEF new
  <2> QED
    BY <1>a, <1>10, <2>1, <2>2, <2>3 DEF Lease!Launch, LeaseTypes, Lease!TypeOK
<1>11. CASE Lease!LaunchFails(w)
  BY <1>a, <1>b, <1>c, <1>d, <1>e, <1>11 DEF Lease!LaunchFails, Lease!Goto, Lease!world,
     Lease!worker, Lease!At, LeaseTypes, Lease!TypeOK
<1>12. CASE Lease!Establish(w)
  BY <1>a, <1>b, <1>c, <1>d, <1>e, <1>12 DEF Lease!Establish, Lease!Goto, Lease!world, Lease!At,
     LeaseTypes, Lease!TypeOK
<1>13. CASE Lease!RequestClose(w)
  <2>1. active' \in [Workers -> BOOLEAN]
        /\ mut' \in [Workers -> {None, Lease!Removal} \cup {Lease!Write(lease) : lease \in Lease!Leases}]
    BY <1>a, <1>0, <1>13, ReadsAreTyped DEF Lease!RequestClose
  <2> QED
    BY <1>a, <1>c, <2>1, <1>13 DEF Lease!RequestClose, Lease!world, LeaseTypes, Lease!TypeOK
<1>14. CASE Lease!HandOffInPlace(w)
  <2>1. active' \in [Workers -> BOOLEAN]
        /\ mut' \in [Workers -> {None, Lease!Removal} \cup {Lease!Write(lease) : lease \in Lease!Leases}]
    BY <1>a, <1>0, <1>14, ReadsAreTyped DEF Lease!HandOffInPlace
  <2> QED
    BY <1>a, <1>c, <2>1, <1>14 DEF Lease!HandOffInPlace, LeaseTypes, Lease!TypeOK
<1>15. CASE Lease!Resume(w)
  BY <1>a, <1>b, <1>c, <1>d, <1>e, <1>15 DEF Lease!Resume, Lease!Goto, Lease!At, LeaseTypes,
     Lease!TypeOK
<1>16. CASE Lease!Exited(w)
  <2>1. active' \in [Workers -> BOOLEAN]
        /\ mut' \in [Workers -> {None, Lease!Removal} \cup {Lease!Write(lease) : lease \in Lease!Leases}]
    BY <1>a, <1>0, <1>16, ReadsAreTyped DEF Lease!Exited
  <2> QED
    BY <1>a, <1>c, <2>1, <1>16 DEF Lease!Exited, Lease!world, LeaseTypes, Lease!TypeOK
<1>17. CASE Lease!ProfileUnlocked(w)
  <2>1. active' \in [Workers -> BOOLEAN]
        /\ mut' \in [Workers -> {None, Lease!Removal} \cup {Lease!Write(lease) : lease \in Lease!Leases}]
    BY <1>a, <1>0, <1>17, ReadsAreTyped DEF Lease!ProfileUnlocked
  <2> QED
    BY <1>a, <1>c, <2>1, <1>17 DEF Lease!ProfileUnlocked, Lease!world, LeaseTypes, Lease!TypeOK
<1>18. CASE Lease!Release(w)
  BY <1>a, <1>b, <1>c, <1>d, <1>e, <1>18 DEF Lease!Release, Lease!Owns, Lease!Goto, Lease!world,
     Lease!At, LeaseTypes, Lease!TypeOK
<1>19. CASE Lease!Detach(w)
  BY <1>a, <1>b, <1>c, <1>d, <1>e, <1>19 DEF Lease!Detach, Lease!Goto, Lease!world, Lease!At,
     LeaseTypes, Lease!TypeOK
<1>20. CASE Lease!Heartbeat(w)
  <2>0. (IF Lease!Owns(w) THEN file.phase ELSE "launching") \in Lease!Phases
    BY <1>0, <1>g DEF Lease!Owns
  <2>1. active' \in [Workers -> BOOLEAN]
        /\ mut' \in [Workers -> {None, Lease!Removal} \cup {Lease!Write(lease) : lease \in Lease!Leases}]
    BY <1>a, <2>0, <1>20, ReadsAreTyped DEF Lease!Heartbeat
  <2> QED
    BY <1>a, <1>c, <2>1, <1>20 DEF Lease!Heartbeat, Lease!world, LeaseTypes, Lease!TypeOK
<1>21. CASE Lease!Finish(w)
  BY <1>a, <1>b, <1>c, <1>d, <1>e, <1>21 DEF Lease!Finish, Lease!world, Lease!worker,
     LeaseTypes, Lease!TypeOK, Pending
<1>22. CASE Lease!Crash(w)
  BY <1>a, <1>b, <1>c, <1>d, <1>e, <1>22 DEF Lease!Crash, LeaseTypes, Lease!TypeOK
<1> QED
  BY <1>1, <1>2, <1>3, <1>4, <1>5, <1>6, <1>7, <1>8, <1>9, <1>10, <1>11, <1>12, <1>13, <1>14,
     <1>15, <1>16, <1>17, <1>18, <1>19, <1>20, <1>21, <1>22 DEF Lease!WorkerStep

\* Who changes what: the file, what was inspected, a mutation in progress.
LEMMA FileWriters ==
    ASSUME NEW w \in Workers,
           Lease!WorkerStep(w) \/ Lease!Heartbeat(w) \/ Lease!Finish(w) \/ Lease!Crash(w)
    PROVE  \/ file' = file
           \/ file' \in {Lease!NewLease(w, "launching", None), Lease!NewLease(w, "human_input", seen[w].process)}
              /\ (Lease!Claim(w) \/ Lease!ClaimAdopted(w) \/ Lease!ClaimNativeIfNeeded(w))
           \/ Lease!Establish(w) \/ Lease!Finish(w)
BY DEF Lease!WorkerStep, Lease!Heartbeat, Lease!Crash, Lease!Prepare, Lease!Decide, Lease!PrepareAdoption,
   Lease!Signal, Lease!Terminated, Lease!RemoveOrphan, Lease!RemoveAdopted, Lease!RemoveInspected,
   Lease!Claim, Lease!ClaimAdopted, Lease!ClaimNativeIfNeeded, Lease!Link, Lease!Launch, Lease!LaunchFails,
   Lease!RequestClose, Lease!HandOffInPlace, Lease!Resume, Lease!Exited, Lease!ProfileUnlocked,
   Lease!Release, Lease!Detach

LEMMA SeenWriters ==
    ASSUME NEW w \in Workers,
           Lease!WorkerStep(w) \/ Lease!Heartbeat(w) \/ Lease!Finish(w) \/ Lease!Crash(w)
    PROVE  \/ seen' = seen
           \/ file # None /\ seen' = [seen EXCEPT ![w] = file]
           \/ seen' = [seen EXCEPT ![w] = file] /\ file = None
           \/ Lease!PrepareAdoption(w) \/ Lease!ClaimAdopted(w) \/ Lease!Launch(w)
BY DEF Lease!WorkerStep, Lease!Heartbeat, Lease!Finish, Lease!Crash, Lease!Prepare, Lease!Decide,
   Lease!Signal, Lease!Terminated, Lease!RemoveOrphan, Lease!RemoveAdopted, Lease!RemoveInspected,
   Lease!Claim, Lease!ClaimNativeIfNeeded, Lease!Link, Lease!LaunchFails, Lease!Establish,
   Lease!RequestClose, Lease!HandOffInPlace, Lease!Resume, Lease!Exited, Lease!ProfileUnlocked,
   Lease!Release, Lease!Detach, Lease!worker

\* A browser that has run becomes no human's, and no worker connects to it but a human's.
LEMMA WorldGrows ==
    ASSUME LeaseInv, NEW w \in Workers,
           Lease!WorkerStep(w) \/ Lease!Heartbeat(w) \/ Lease!Finish(w) \/ Lease!Crash(w)
    PROVE  /\ used \subseteq used' /\ alive' \subseteq alive
           /\ \A p \in used : p \in native' => p \in native
           /\ \A v \in alive', p \in used \ native : p # None /\ drives'[v] = p => drives[v] = p
<1>a. /\ LeaseTypes
      /\ w \in alive /\ pc[w] = "human" => seen[w].process \in native
  BY DEF LeaseInv, PlacesFit, SeenFits
<1>1. CASE Lease!Prepare(w)
  BY <1>a, <1>1 DEF Lease!Prepare, Lease!Decide, Lease!Unlocked, Lease!Goto, Lease!world,
     Lease!At, LeaseTypes, Lease!TypeOK
<1>2. CASE Lease!PrepareAdoption(w)
  BY <1>a, <1>2 DEF Lease!PrepareAdoption, Lease!Unlocked, Lease!Goto, Lease!world, Lease!At,
     LeaseTypes, Lease!TypeOK
<1>3. CASE Lease!Signal(w)
  BY <1>a, <1>3 DEF Lease!Signal, Lease!Goto, Lease!worker, Lease!At, LeaseTypes, Lease!TypeOK
<1>4. CASE Lease!Terminated(w)
  BY <1>a, <1>4 DEF Lease!Terminated, Lease!Goto, Lease!world, Lease!worker, Lease!At,
     LeaseTypes, Lease!TypeOK
<1>5. CASE Lease!RemoveOrphan(w)
  BY <1>a, <1>5 DEF Lease!RemoveOrphan, Lease!RemoveInspected, Lease!IsLeaseOf, Lease!Goto,
     Lease!world, Lease!worker, Lease!At, LeaseTypes, Lease!TypeOK
<1>6. CASE Lease!RemoveAdopted(w)
  BY <1>a, <1>6 DEF Lease!RemoveAdopted, Lease!RemoveInspected, Lease!IsLeaseOf, Lease!Goto,
     Lease!world, Lease!worker, Lease!At, LeaseTypes, Lease!TypeOK
<1>7. CASE Lease!Claim(w)
  BY <1>a, <1>7 DEF Lease!Claim, Lease!Link, Lease!Goto, Lease!world, Lease!At, LeaseTypes,
     Lease!TypeOK
<1>8. CASE Lease!ClaimAdopted(w)
  BY <1>a, <1>8 DEF Lease!ClaimAdopted, Lease!Link, Lease!Goto, Lease!world, Lease!At,
     LeaseTypes, Lease!TypeOK
<1>9. CASE Lease!ClaimNativeIfNeeded(w)
  BY <1>a, <1>9 DEF Lease!ClaimNativeIfNeeded, Lease!Link, Lease!Goto, Lease!world, Lease!At,
     LeaseTypes, Lease!TypeOK
<1>10. CASE Lease!Launch(w)
  BY <1>a, <1>10 DEF Lease!Launch, Lease!Unlocked, Lease!Goto, Lease!At, LeaseTypes,
     Lease!TypeOK
<1>11. CASE Lease!LaunchFails(w)
  BY <1>a, <1>11 DEF Lease!LaunchFails, Lease!Goto, Lease!world, Lease!worker, Lease!At,
     LeaseTypes, Lease!TypeOK
<1>12. CASE Lease!Establish(w)
  BY <1>a, <1>12 DEF Lease!Establish, Lease!Goto, Lease!world, Lease!At, LeaseTypes,
     Lease!TypeOK
<1>13. CASE Lease!RequestClose(w)
  BY <1>a, <1>13 DEF Lease!RequestClose, Lease!UpdatePhase, Lease!ReadOwn, Lease!Goto,
     Lease!world, Lease!At, LeaseTypes, Lease!TypeOK
<1>14. CASE Lease!HandOffInPlace(w)
  BY <1>a, <1>14 DEF Lease!HandOffInPlace, Lease!UpdatePhase, Lease!ReadOwn, Lease!Goto,
     Lease!At, LeaseTypes, Lease!TypeOK
<1>15. CASE Lease!Resume(w)
  BY <1>a, <1>15 DEF Lease!Resume, Lease!Goto, Lease!At, LeaseTypes, Lease!TypeOK
<1>16. CASE Lease!Exited(w)
  BY <1>a, <1>16 DEF Lease!Exited, Lease!UpdatePhase, Lease!ReadOwn, Lease!Goto, Lease!world,
     Lease!At, LeaseTypes, Lease!TypeOK
<1>17. CASE Lease!ProfileUnlocked(w)
  BY <1>a, <1>17 DEF Lease!ProfileUnlocked, Lease!UpdatePhase, Lease!ReadOwn, Lease!Goto,
     Lease!world, Lease!At, LeaseTypes, Lease!TypeOK
<1>18. CASE Lease!Release(w)
  BY <1>a, <1>18 DEF Lease!Release, Lease!Goto, Lease!world, Lease!At, LeaseTypes, Lease!TypeOK
<1>19. CASE Lease!Detach(w)
  BY <1>a, <1>19 DEF Lease!Detach, Lease!Goto, Lease!world, Lease!At, LeaseTypes, Lease!TypeOK
<1>20. CASE Lease!Heartbeat(w)
  BY <1>a, <1>20 DEF Lease!Heartbeat, Lease!ReadOwn, Lease!world, LeaseTypes, Lease!TypeOK
<1>21. CASE Lease!Finish(w)
  BY <1>a, <1>21 DEF Lease!Finish, Lease!world, Lease!worker, LeaseTypes, Lease!TypeOK
<1>22. CASE Lease!Crash(w)
  BY <1>a, <1>22 DEF Lease!Crash, LeaseTypes, Lease!TypeOK
<1> QED
  BY <1>1, <1>2, <1>3, <1>4, <1>5, <1>6, <1>7, <1>8, <1>9, <1>10, <1>11, <1>12, <1>13, <1>14,
     <1>15, <1>16, <1>17, <1>18, <1>19, <1>20, <1>21, <1>22 DEF Lease!WorkerStep

\* So what a lease says of the processes stays true.
LEMMA HonestStays ==
    ASSUME LeaseInv, NEW w \in Workers,
           Lease!WorkerStep(w) \/ Lease!Heartbeat(w) \/ Lease!Finish(w) \/ Lease!Crash(w),
           NEW lease, Honest(lease)
    PROVE  Honest(lease)'
BY WorldGrows DEF Honest

\* The lease that a worker writes is as true as the one it has inspected.
LEMMA NewLeasesAreHonest ==
    ASSUME LeaseInv, NEW w \in alive, NEW phase
    PROVE  /\ Honest(Lease!NewLease(w, phase, None))
           /\ pc[w] \in {"claim adopted", "establish"} => Honest(Lease!NewLease(w, phase, seen[w].process))
<1>1. w \in Workers /\ SeenFits(w) /\ Honest(seen[w])
  BY DEF LeaseInv, LeaseTypes, Lease!TypeOK, PlacesFit, LeasesAreHonest
<1>2. native \subseteq used
  BY DEF LeaseInv, LeaseTypes, Lease!TypeOK
<1> QED
  BY <1>1, <1>2 DEF Honest, SeenFits, Lease!NewLease

LEMMA FileStaysHonest ==
    ASSUME LeaseInv, NEW w \in Workers,
           Lease!WorkerStep(w) \/ Lease!Heartbeat(w) \/ Lease!Finish(w) \/ Lease!Crash(w)
    PROVE  Honest(file)'
<1>1. Honest(file) /\ (Pending(w) => Honest(mut[w].lease))
  BY DEF LeaseInv, LeasesAreHonest
<1>2. \A lease : Honest(lease) => Honest(lease)'
  BY HonestStays
<1>3. CASE file' = file
  BY <1>1, <1>2, <1>3
<1>4. CASE /\ file' \in {Lease!NewLease(w, "launching", None), Lease!NewLease(w, "human_input", seen[w].process)}
           /\ Lease!Claim(w) \/ Lease!ClaimAdopted(w) \/ Lease!ClaimNativeIfNeeded(w)
  <2>1. (w \in alive /\ file' = Lease!NewLease(w, "launching", None))
        \/ (w \in alive /\ pc[w] = "claim adopted" /\ file' = Lease!NewLease(w, "human_input", seen[w].process))
        \/ file' = file
    BY <1>4 DEF Lease!Claim, Lease!ClaimAdopted, Lease!ClaimNativeIfNeeded, Lease!Link, Lease!At
  <2>2. Honest(file')
    BY <1>1, <2>1, NewLeasesAreHonest
  <2> QED BY <1>2, <2>2
<1>5. CASE Lease!Establish(w)
  <2>1. \E phase : file' = Lease!NewLease(w, phase, seen[w].process) /\ w \in alive /\ pc[w] = "establish"
    BY <1>5 DEF Lease!Establish, Lease!At
  <2>2. Honest(file')
    BY <2>1, NewLeasesAreHonest
  <2> QED BY <1>2, <2>2
<1>6. CASE Lease!Finish(w)
  <2>1. file' = None \/ (Pending(w) /\ file' = mut[w].lease)
    BY <1>6 DEF Lease!Finish, Pending
  <2> QED BY <1>1, <1>2, <2>1 DEF Honest
<1> QED
  BY <1>3, <1>4, <1>5, <1>6, FileWriters

LEMMA SeenStaysHonest ==
    ASSUME LeaseInv, NEW w \in Workers,
           Lease!WorkerStep(w) \/ Lease!Heartbeat(w) \/ Lease!Finish(w) \/ Lease!Crash(w),
           NEW v \in Workers
    PROVE  Honest(seen[v])'
<1>1. Honest(file) /\ Honest(seen[v]) /\ LeaseTypes
  BY DEF LeaseInv, LeasesAreHonest
<1>2. \A lease : Honest(lease) => Honest(lease)'
  BY HonestStays
<1>3. CASE seen'[v] \in {seen[v], file}
  BY <1>1, <1>2, <1>3
<1>4. CASE Lease!PrepareAdoption(w) /\ v = w
  <2>1. seen'[w] = [file EXCEPT !.process = browser] /\ file # None /\ browser # None
        /\ file.mode \in {"human_handoff", "native_cdp"}
    BY <1>1, <1>4 DEF Lease!PrepareAdoption, Lease!Inspection, Lease!Owns, Lease!Foreign, Lease!Unlocked,
       LeaseTypes, Lease!TypeOK
  <2>2. file \in Lease!Leases /\ browser \in used
    BY <1>1, <2>1 DEF LeaseTypes, Lease!TypeOK, LeaseInv, BrowserIsKnown
  <2>3. seen'[w].mode # "playwright" /\ seen'[w].process \in used
    BY <2>1, <2>2 DEF Lease!Leases
  <2> QED
    BY <1>4, <2>3, WorldGrows DEF Honest
<1>5. CASE Lease!ClaimAdopted(w) /\ v = w
  <2>1. seen'[w] = Lease!NewLease(w, "human_input", seen[w].process) /\ w \in alive /\ pc[w] = "claim adopted"
    BY <1>1, <1>5 DEF Lease!ClaimAdopted, Lease!At, LeaseTypes, Lease!TypeOK
  <2>2. Honest(seen'[w])
    BY <2>1, NewLeasesAreHonest
  <2> QED
    BY <1>2, <1>5, <2>2
<1>6. CASE Lease!Launch(w) /\ v = w
  <2>1. seen'[w] = Lease!NewLease(w, "launching", browser')
    BY <1>1, <1>6 DEF Lease!Launch, LeaseTypes, Lease!TypeOK
  <2>2. CASE goal[w] = "native_cdp"
    <3>1. seen'[w].mode # "playwright" /\ seen'[w].process \in used'
      BY <1>1, <1>6, <2>1, <2>2 DEF Lease!Launch, Lease!NewLease, LeaseTypes, Lease!TypeOK
    <3> QED BY <1>6, <3>1 DEF Honest
  <2>3. CASE goal[w] = "human_handoff"
    <3>1. seen'[w].mode # "playwright" /\ seen'[w].process \in used'
      BY <1>1, <1>6, <2>1, <2>3 DEF Lease!Launch, Lease!NewLease, LeaseTypes, Lease!TypeOK
    <3> QED BY <1>6, <3>1 DEF Honest
  <2>4. CASE goal[w] \notin {"native_cdp", "human_handoff"}
    <3>1. PICK p \in Processes \ used : browser' = p /\ used' = used \cup {p} /\ native' = native
                                       /\ alive' = alive /\ drives' = [drives EXCEPT ![w] = p]
      BY <1>6, <2>4 DEF Lease!Launch
    <3>2. ASSUME NEW u \in alive, drives'[u] = p, p # None PROVE u = w
      <4>1. SUFFICES ASSUME u # w PROVE FALSE
        OBVIOUS
      <4>2. drives[u] = p /\ u \in Workers
        BY <1>1, <3>1, <3>2, <4>1 DEF LeaseTypes, Lease!TypeOK
      <4>3. seen[u] # None /\ seen[u].process = p /\ Honest(seen[u])
        BY <3>2, <4>2 DEF LeaseInv, PlacesFit, SeenFits, LeasesAreHonest
      <4> QED
        BY <3>1, <3>2, <4>3 DEF Honest
    <3>3. p \notin native
      BY <1>1, <3>1 DEF LeaseTypes, Lease!TypeOK
    <3>4. seen'[w].process = p /\ seen'[w].owner = w
      BY <2>1, <3>1 DEF Lease!NewLease
    <3> QED
      BY <1>6, <3>1, <3>2, <3>3, <3>4 DEF Honest
  <2> QED BY <2>2, <2>3, <2>4
<1>7. v # w \/ ~(Lease!PrepareAdoption(w) \/ Lease!ClaimAdopted(w) \/ Lease!Launch(w)) => seen'[v] \in {seen[v], file}
  BY <1>1, SeenWriters DEF LeaseTypes, Lease!TypeOK, Lease!PrepareAdoption, Lease!ClaimAdopted, Lease!Launch
<1> QED
  BY <1>3, <1>4, <1>5, <1>6, <1>7

\* A mutation begins by what its worker reads: a lease of its own, when it believes to.
LEMMA MutWriters ==
    ASSUME LeaseTypes, NEW w \in Workers,
           Lease!WorkerStep(w) \/ Lease!Heartbeat(w) \/ Lease!Finish(w) \/ Lease!Crash(w)
    PROVE  /\ \A v \in Workers \ {w} : UNCHANGED <<mut[v], active[v]>>
           /\ Pending(w)' => /\ file # None /\ file.owner = w /\ active[w] /\ active' = active
                             /\ \E phase : mut'[w] = Lease!Write([file EXCEPT !.phase = phase])
<1>1. CASE Lease!Prepare(w)
  BY <1>1 DEF Lease!Prepare, Lease!Decide, Lease!Owns, Lease!Goto, Lease!world, Lease!At,
     LeaseTypes, Lease!TypeOK, Pending
<1>2. CASE Lease!PrepareAdoption(w)
  BY <1>2 DEF Lease!PrepareAdoption, Lease!Owns, Lease!Goto, Lease!world, Lease!At, LeaseTypes,
     Lease!TypeOK, Pending
<1>3. CASE Lease!Signal(w)
  BY <1>3 DEF Lease!Signal, Lease!Goto, Lease!worker, Lease!At, LeaseTypes, Lease!TypeOK,
     Pending
<1>4. CASE Lease!Terminated(w)
  BY <1>4 DEF Lease!Terminated, Lease!Goto, Lease!world, Lease!worker, Lease!At, LeaseTypes,
     Lease!TypeOK, Pending
<1>5. CASE Lease!RemoveOrphan(w)
  BY <1>5 DEF Lease!RemoveOrphan, Lease!RemoveInspected, Lease!IsLeaseOf, Lease!Goto,
     Lease!world, Lease!worker, Lease!At, LeaseTypes, Lease!TypeOK, Pending
<1>6. CASE Lease!RemoveAdopted(w)
  BY <1>6 DEF Lease!RemoveAdopted, Lease!RemoveInspected, Lease!IsLeaseOf, Lease!Goto,
     Lease!world, Lease!worker, Lease!At, LeaseTypes, Lease!TypeOK, Pending
<1>7. CASE Lease!Claim(w)
  BY <1>7 DEF Lease!Claim, Lease!Link, Lease!Goto, Lease!world, Lease!At, LeaseTypes,
     Lease!TypeOK, Pending
<1>8. CASE Lease!ClaimAdopted(w)
  BY <1>8 DEF Lease!ClaimAdopted, Lease!Link, Lease!Goto, Lease!world, Lease!At, LeaseTypes,
     Lease!TypeOK, Pending
<1>9. CASE Lease!ClaimNativeIfNeeded(w)
  BY <1>9 DEF Lease!ClaimNativeIfNeeded, Lease!Link, Lease!Goto, Lease!world, Lease!At,
     LeaseTypes, Lease!TypeOK, Pending
<1>10. CASE Lease!Launch(w)
  BY <1>10 DEF Lease!Launch, Lease!Goto, Lease!At, LeaseTypes, Lease!TypeOK, Pending
<1>11. CASE Lease!LaunchFails(w)
  BY <1>11 DEF Lease!LaunchFails, Lease!Goto, Lease!world, Lease!worker, Lease!At, LeaseTypes,
     Lease!TypeOK, Pending
<1>12. CASE Lease!Establish(w)
  BY <1>12 DEF Lease!Establish, Lease!Goto, Lease!world, Lease!At, LeaseTypes, Lease!TypeOK,
     Pending
<1>13. CASE Lease!RequestClose(w)
  <2>1. mut[w] = None /\ Lease!UpdatePhase(w, "close_requested")
    BY <1>13 DEF Lease!RequestClose, Lease!At
  <2> QED
    BY <2>1 DEF Lease!UpdatePhase, Lease!ReadOwn, Lease!Owns, LeaseTypes, Lease!TypeOK, Pending
<1>14. CASE Lease!HandOffInPlace(w)
  BY <1>14 DEF Lease!HandOffInPlace, Lease!UpdatePhase, Lease!ReadOwn, Lease!Owns, Lease!Goto,
     Lease!At, LeaseTypes, Lease!TypeOK, Pending
<1>15. CASE Lease!Resume(w)
  BY <1>15 DEF Lease!Resume, Lease!Goto, Lease!At, LeaseTypes, Lease!TypeOK, Pending
<1>16. CASE Lease!Exited(w)
  BY <1>16 DEF Lease!Exited, Lease!UpdatePhase, Lease!ReadOwn, Lease!Owns, Lease!Goto,
     Lease!world, Lease!At, LeaseTypes, Lease!TypeOK, Pending
<1>17. CASE Lease!ProfileUnlocked(w)
  BY <1>17 DEF Lease!ProfileUnlocked, Lease!UpdatePhase, Lease!ReadOwn, Lease!Owns, Lease!Goto,
     Lease!world, Lease!At, LeaseTypes, Lease!TypeOK, Pending
<1>18. CASE Lease!Release(w)
  BY <1>18 DEF Lease!Release, Lease!Owns, Lease!Goto, Lease!world, Lease!At, LeaseTypes,
     Lease!TypeOK, Pending
<1>19. CASE Lease!Detach(w)
  BY <1>19 DEF Lease!Detach, Lease!Goto, Lease!world, Lease!At, LeaseTypes, Lease!TypeOK,
     Pending
<1>20. CASE Lease!Heartbeat(w)
  BY <1>20 DEF Lease!Heartbeat, Lease!ReadOwn, Lease!Owns, Lease!world, LeaseTypes,
     Lease!TypeOK, Pending
<1>21. CASE Lease!Finish(w)
  BY <1>21 DEF Lease!Finish, Lease!world, Lease!worker, LeaseTypes, Lease!TypeOK, Pending
<1>22. CASE Lease!Crash(w)
  BY <1>22 DEF Lease!Crash, LeaseTypes, Lease!TypeOK, Pending
<1> QED
  BY <1>1, <1>2, <1>3, <1>4, <1>5, <1>6, <1>7, <1>8, <1>9, <1>10, <1>11, <1>12, <1>13, <1>14,
     <1>15, <1>16, <1>17, <1>18, <1>19, <1>20, <1>21, <1>22 DEF Lease!WorkerStep

\* A mutation in progress is of its worker, which goes on believing to own the file.
LEMMA PendingStaysHonest ==
    ASSUME LeaseInv, NEW w \in Workers,
           Lease!WorkerStep(w) \/ Lease!Heartbeat(w) \/ Lease!Finish(w) \/ Lease!Crash(w),
           NEW v \in Workers, Pending(v)'
    PROVE  (Honest(mut[v].lease) /\ mut[v].lease.owner = v /\ active[v])'
<1>1. Honest(file) /\ LeaseTypes /\ (Pending(v) => Honest(mut[v].lease) /\ mut[v].lease.owner = v /\ active[v])
  BY DEF LeaseInv, LeasesAreHonest
<1>2. \A lease : Honest(lease) => Honest(lease)'
  BY HonestStays
<1>3. CASE Pending(v) /\ UNCHANGED <<mut[v], active[v]>>
  BY <1>1, <1>2, <1>3
<1>4. CASE /\ v = w /\ file # None /\ file.owner = w /\ active[w] /\ active' = active
           /\ \E phase : mut'[w] = Lease!Write([file EXCEPT !.phase = phase])
  <2>1. PICK phase : mut'[w] = Lease!Write([file EXCEPT !.phase = phase])
    BY <1>4
  <2>2. file \in Lease!Leases
    BY <1>1, <1>4 DEF LeaseTypes, Lease!TypeOK
  <2> DEFINE again == [file EXCEPT !.phase = phase]
  <2>3. again.process = file.process /\ again.mode = file.mode /\ again.owner = file.owner
    BY <2>2 DEF Lease!Leases
  <2>4. mut'[w].lease = again
    BY <2>1 DEF Lease!Write
  <2> HIDE DEF again
  <2>5. Honest(again)
    BY <1>1, <1>4, <2>3 DEF Honest
  <2> QED
    BY <1>2, <1>4, <2>3, <2>4, <2>5
<1> QED
  BY <1>1, <1>3, <1>4, MutWriters DEF Pending


LEMMA OthersStay ==
    ASSUME LeaseTypes, NEW w \in Workers,
           Lease!WorkerStep(w) \/ Lease!Heartbeat(w) \/ Lease!Finish(w) \/ Lease!Crash(w)
    PROVE  /\ native \subseteq native'
           /\ \A v \in Workers \ {w} : UNCHANGED <<pc[v], seen[v], goal[v], drives[v]>>
           /\ browser' # browser => Lease!Launch(w)
<1>1. CASE Lease!Prepare(w)
  BY <1>1 DEF Lease!Prepare, Lease!Decide, Lease!Goto, Lease!world, Lease!At, LeaseTypes,
     Lease!TypeOK
<1>2. CASE Lease!PrepareAdoption(w)
  BY <1>2 DEF Lease!PrepareAdoption, Lease!Goto, Lease!world, Lease!At, LeaseTypes, Lease!TypeOK
<1>3. CASE Lease!Signal(w)
  BY <1>3 DEF Lease!Signal, Lease!Goto, Lease!worker, Lease!At, LeaseTypes, Lease!TypeOK
<1>4. CASE Lease!Terminated(w)
  BY <1>4 DEF Lease!Terminated, Lease!Goto, Lease!world, Lease!worker, Lease!At, LeaseTypes,
     Lease!TypeOK
<1>5. CASE Lease!RemoveOrphan(w)
  BY <1>5 DEF Lease!RemoveOrphan, Lease!RemoveInspected, Lease!IsLeaseOf, Lease!Goto,
     Lease!world, Lease!worker, Lease!At, LeaseTypes, Lease!TypeOK
<1>6. CASE Lease!RemoveAdopted(w)
  BY <1>6 DEF Lease!RemoveAdopted, Lease!RemoveInspected, Lease!IsLeaseOf, Lease!Goto,
     Lease!world, Lease!worker, Lease!At, LeaseTypes, Lease!TypeOK
<1>7. CASE Lease!Claim(w)
  BY <1>7 DEF Lease!Claim, Lease!Link, Lease!Goto, Lease!world, Lease!At, LeaseTypes,
     Lease!TypeOK
<1>8. CASE Lease!ClaimAdopted(w)
  BY <1>8 DEF Lease!ClaimAdopted, Lease!Link, Lease!Goto, Lease!world, Lease!At, LeaseTypes,
     Lease!TypeOK
<1>9. CASE Lease!ClaimNativeIfNeeded(w)
  BY <1>9 DEF Lease!ClaimNativeIfNeeded, Lease!Link, Lease!Goto, Lease!world, Lease!At,
     LeaseTypes, Lease!TypeOK
<1>10. CASE Lease!Launch(w)
  BY <1>10 DEF Lease!Launch, Lease!Goto, Lease!At, LeaseTypes, Lease!TypeOK
<1>11. CASE Lease!LaunchFails(w)
  BY <1>11 DEF Lease!LaunchFails, Lease!Goto, Lease!world, Lease!worker, Lease!At, LeaseTypes,
     Lease!TypeOK
<1>12. CASE Lease!Establish(w)
  BY <1>12 DEF Lease!Establish, Lease!Goto, Lease!world, Lease!At, LeaseTypes, Lease!TypeOK
<1>13. CASE Lease!RequestClose(w)
  BY <1>13 DEF Lease!RequestClose, Lease!UpdatePhase, Lease!ReadOwn, Lease!Goto, Lease!world,
     Lease!At, LeaseTypes, Lease!TypeOK
<1>14. CASE Lease!HandOffInPlace(w)
  BY <1>14 DEF Lease!HandOffInPlace, Lease!UpdatePhase, Lease!ReadOwn, Lease!Goto, Lease!At,
     LeaseTypes, Lease!TypeOK
<1>15. CASE Lease!Resume(w)
  BY <1>15 DEF Lease!Resume, Lease!Goto, Lease!At, LeaseTypes, Lease!TypeOK
<1>16. CASE Lease!Exited(w)
  BY <1>16 DEF Lease!Exited, Lease!UpdatePhase, Lease!ReadOwn, Lease!Goto, Lease!world,
     Lease!At, LeaseTypes, Lease!TypeOK
<1>17. CASE Lease!ProfileUnlocked(w)
  BY <1>17 DEF Lease!ProfileUnlocked, Lease!UpdatePhase, Lease!ReadOwn, Lease!Goto, Lease!world,
     Lease!At, LeaseTypes, Lease!TypeOK
<1>18. CASE Lease!Release(w)
  BY <1>18 DEF Lease!Release, Lease!Goto, Lease!world, Lease!At, LeaseTypes, Lease!TypeOK
<1>19. CASE Lease!Detach(w)
  BY <1>19 DEF Lease!Detach, Lease!Goto, Lease!world, Lease!At, LeaseTypes, Lease!TypeOK
<1>20. CASE Lease!Heartbeat(w)
  BY <1>20 DEF Lease!Heartbeat, Lease!ReadOwn, Lease!world, LeaseTypes, Lease!TypeOK
<1>21. CASE Lease!Finish(w)
  BY <1>21 DEF Lease!Finish, Lease!world, Lease!worker, LeaseTypes, Lease!TypeOK
<1>22. CASE Lease!Crash(w)
  BY <1>22 DEF Lease!Crash, LeaseTypes, Lease!TypeOK
<1> QED
  BY <1>1, <1>2, <1>3, <1>4, <1>5, <1>6, <1>7, <1>8, <1>9, <1>10, <1>11, <1>12, <1>13, <1>14,
     <1>15, <1>16, <1>17, <1>18, <1>19, <1>20, <1>21, <1>22 DEF Lease!WorkerStep

\* What a worker has inspected fits the place it goes to.
LEMMA PlaceFits ==
    ASSUME LeaseInv, NEW w \in Workers,
           Lease!WorkerStep(w) \/ Lease!Heartbeat(w) \/ Lease!Finish(w) \/ Lease!Crash(w),
           w \in alive'
    PROVE  SeenFits(w)'
<1>c. /\ \A p : \A phase \in {"launching", "human_input"} :
           /\ Lease!NewLease(w, phase, p).process = p /\ Lease!NewLease(w, phase, p).mode = goal[w]
           /\ Lease!NewLease(w, phase, p).owner = w
           /\ p \in Processes \cup {None} => Lease!NewLease(w, phase, p) # None
      /\ file # None => /\ [file EXCEPT !.process = browser] # None
                        /\ [file EXCEPT !.process = browser].process = browser
      /\ seen[w] # None => seen[w].process \in Processes \cup {None}
  <2>1. \A lease \in Lease!Leases : lease # None /\ [lease EXCEPT !.process = browser].process = browser
    BY DEF LeaseInv, Lease!Leases
  <2>2. {"launching", "human_input"} \subseteq Lease!Phases
    BY DEF Lease!Phases
  <2>3. LeaseTypes
    BY DEF LeaseInv
  <2> QED
    BY <2>1, <2>2, <2>3, LeasesAreTyped DEF Lease!NewLease, LeaseTypes, Lease!TypeOK
<1>a. LeaseTypes /\ SeenFits(w) /\ w \in alive /\ alive' \subseteq alive
  BY WorldGrows DEF LeaseInv, PlacesFit, LeaseTypes, Lease!TypeOK
<1>b. awaiting /\ browser # None => browser \in native
  BY DEF LeaseInv, BrowserIsKnown
<1>1. CASE Lease!Prepare(w)
  BY <1>a, <1>b, <1>1 DEF Lease!Prepare, Lease!Decide, Lease!Inspection, Lease!OwnsNative,
     Lease!Owns, Lease!Foreign, Lease!Matched, Lease!Adoptable, Lease!Terminable,
     Lease!Attachable, Lease!Unlocked, Lease!Goto, Lease!world, Lease!At, LeaseTypes,
     Lease!TypeOK, SeenFits
<1>2. CASE Lease!PrepareAdoption(w)
  BY <1>a, <1>b, <1>2, <1>c DEF Lease!PrepareAdoption, Lease!Inspection, Lease!Owns,
     Lease!Foreign, Lease!Matched, Lease!Unlocked, Lease!Goto, Lease!world, Lease!At,
     LeaseTypes, Lease!TypeOK, SeenFits
<1>3. CASE Lease!Signal(w)
  BY <1>a, <1>b, <1>3 DEF Lease!Signal, Lease!Goto, Lease!worker, Lease!At, LeaseTypes,
     Lease!TypeOK, SeenFits
<1>4. CASE Lease!Terminated(w)
  BY <1>a, <1>b, <1>4 DEF Lease!Terminated, Lease!Goto, Lease!world, Lease!worker, Lease!At,
     LeaseTypes, Lease!TypeOK, SeenFits
<1>5. CASE Lease!RemoveOrphan(w)
  BY <1>a, <1>b, <1>5 DEF Lease!RemoveOrphan, Lease!RemoveInspected, Lease!IsLeaseOf,
     Lease!Goto, Lease!world, Lease!worker, Lease!Removal, Lease!At, LeaseTypes, Lease!TypeOK,
     SeenFits
<1>6. CASE Lease!RemoveAdopted(w)
  BY <1>a, <1>b, <1>6 DEF Lease!RemoveAdopted, Lease!RemoveInspected, Lease!IsLeaseOf,
     Lease!Goto, Lease!world, Lease!worker, Lease!Removal, Lease!At, LeaseTypes, Lease!TypeOK,
     SeenFits
<1>7. CASE Lease!Claim(w)
  BY <1>a, <1>b, <1>7 DEF Lease!Claim, Lease!Link, Lease!Goto, Lease!world, Lease!At,
     LeaseTypes, Lease!TypeOK, SeenFits
<1>8. CASE Lease!ClaimAdopted(w)
  BY <1>a, <1>b, <1>8, <1>c DEF Lease!ClaimAdopted, Lease!Link, Lease!Goto, Lease!world,
     Lease!At, LeaseTypes, Lease!TypeOK, SeenFits
<1>9. CASE Lease!ClaimNativeIfNeeded(w)
  BY <1>a, <1>b, <1>9 DEF Lease!ClaimNativeIfNeeded, Lease!Link, Lease!Goto, Lease!world,
     Lease!At, LeaseTypes, Lease!TypeOK, SeenFits
<1>10. CASE Lease!Launch(w)
  <2> DEFINE new == Lease!NewLease(w, "launching", browser')
  <2>1. browser' \in Processes \cup {None} /\ seen'[w] = new
    BY <1>a, <1>10 DEF Lease!Launch, LeaseTypes, Lease!TypeOK
  <2>2. new # None /\ new.process = browser' /\ new.mode = goal[w] /\ new.owner = w
    BY <1>c, <2>1
  <2> HIDE DEF new
  <2>3. pc'[w] = "establish" /\ goal' = goal
    BY <1>a, <1>10 DEF Lease!Launch, Lease!Goto, LeaseTypes, Lease!TypeOK
  <2>4. drives'[w] \in {None, browser'} /\ (goal[w] = "human_handoff" => drives'[w] = None)
        /\ (goal[w] # "playwright" => browser' \in native')
    BY <1>a, <1>10 DEF Lease!Launch, LeaseTypes, Lease!TypeOK, Lease!Modes
  <2> QED
    BY <2>1, <2>2, <2>3, <2>4 DEF SeenFits
<1>11. CASE Lease!LaunchFails(w)
  BY <1>a, <1>b, <1>11 DEF Lease!LaunchFails, Lease!Goto, Lease!world, Lease!worker, Lease!At,
     LeaseTypes, Lease!TypeOK, SeenFits
<1>12. CASE Lease!Establish(w)
  BY <1>a, <1>b, <1>12 DEF Lease!Establish, Lease!Goto, Lease!world, Lease!At, LeaseTypes,
     Lease!TypeOK, SeenFits
<1>13. CASE Lease!RequestClose(w)
  BY <1>a, <1>b, <1>13 DEF Lease!RequestClose, Lease!UpdatePhase, Lease!ReadOwn, Lease!Owns,
     Lease!Write, Lease!Goto, Lease!world, Lease!At, LeaseTypes, Lease!TypeOK, SeenFits
<1>14. CASE Lease!HandOffInPlace(w)
  BY <1>a, <1>b, <1>14 DEF Lease!HandOffInPlace, Lease!UpdatePhase, Lease!ReadOwn, Lease!Owns,
     Lease!Write, Lease!Goto, Lease!At, LeaseTypes, Lease!TypeOK, SeenFits
<1>15. CASE Lease!Resume(w)
  BY <1>a, <1>b, <1>15 DEF Lease!Resume, Lease!Goto, Lease!At, LeaseTypes, Lease!TypeOK,
     SeenFits
<1>16. CASE Lease!Exited(w)
  BY <1>a, <1>b, <1>16 DEF Lease!Exited, Lease!UpdatePhase, Lease!ReadOwn, Lease!Owns,
     Lease!Write, Lease!Goto, Lease!world, Lease!At, LeaseTypes, Lease!TypeOK, SeenFits
<1>17. CASE Lease!ProfileUnlocked(w)
  BY <1>a, <1>b, <1>17 DEF Lease!ProfileUnlocked, Lease!UpdatePhase, Lease!ReadOwn, Lease!Owns,
     Lease!Write, Lease!Goto, Lease!world, Lease!At, LeaseTypes, Lease!TypeOK, SeenFits
<1>18. CASE Lease!Release(w)
  BY <1>a, <1>b, <1>18 DEF Lease!Release, Lease!Owns, Lease!Removal, Lease!Goto, Lease!world,
     Lease!At, LeaseTypes, Lease!TypeOK, SeenFits
<1>19. CASE Lease!Detach(w)
  BY <1>a, <1>b, <1>19 DEF Lease!Detach, Lease!Goto, Lease!world, Lease!At, LeaseTypes,
     Lease!TypeOK, SeenFits
<1>20. CASE Lease!Heartbeat(w)
  BY <1>a, <1>b, <1>20 DEF Lease!Heartbeat, Lease!ReadOwn, Lease!Owns, Lease!Write, Lease!world,
     LeaseTypes, Lease!TypeOK, SeenFits
<1>21. CASE Lease!Finish(w)
  BY <1>a, <1>b, <1>21 DEF Lease!Finish, Lease!world, Lease!worker, Lease!Removal, Lease!Write,
     LeaseTypes, Lease!TypeOK, SeenFits
<1>22. CASE Lease!Crash(w)
  BY <1>a, <1>b, <1>22 DEF Lease!Crash, LeaseTypes, Lease!TypeOK, SeenFits
<1> QED
  BY <1>1, <1>2, <1>3, <1>4, <1>5, <1>6, <1>7, <1>8, <1>9, <1>10, <1>11, <1>12, <1>13, <1>14,
     <1>15, <1>16, <1>17, <1>18, <1>19, <1>20, <1>21, <1>22 DEF Lease!WorkerStep


LEMMA PlacesStayFit ==
    ASSUME LeaseInv, NEW w \in Workers,
           Lease!WorkerStep(w) \/ Lease!Heartbeat(w) \/ Lease!Finish(w) \/ Lease!Crash(w)
    PROVE  PlacesFit'
<1> SUFFICES ASSUME NEW v \in alive' PROVE SeenFits(v)'
  BY DEF PlacesFit
<1>1. LeaseTypes /\ v \in alive /\ SeenFits(v) /\ alive' \subseteq alive
  BY WorldGrows DEF LeaseInv, PlacesFit
<1>2. CASE v = w
  BY <1>2, PlaceFits
<1>3. CASE v # w
  BY <1>1, <1>3, OthersStay DEF SeenFits, LeaseTypes, Lease!TypeOK
<1> QED BY <1>2, <1>3

\* The browser that runs stays known, and the one that awaits its user a human's.

LEMMA BrowserStaysKnown ==
    ASSUME LeaseInv, NEW w \in Workers,
           Lease!WorkerStep(w) \/ Lease!Heartbeat(w) \/ Lease!Finish(w) \/ Lease!Crash(w)
    PROVE  BrowserIsKnown'
<1>a. LeaseTypes /\ BrowserIsKnown
  BY DEF LeaseInv
<1>1. CASE Lease!Prepare(w)
  BY <1>a, <1>1 DEF Lease!Prepare, Lease!Decide, Lease!Goto, Lease!world, Lease!At, LeaseTypes,
     Lease!TypeOK, BrowserIsKnown
<1>2. CASE Lease!PrepareAdoption(w)
  BY <1>a, <1>2 DEF Lease!PrepareAdoption, Lease!Goto, Lease!world, Lease!At, LeaseTypes,
     Lease!TypeOK, BrowserIsKnown
<1>3. CASE Lease!Signal(w)
  BY <1>a, <1>3 DEF Lease!Signal, Lease!Goto, Lease!worker, Lease!At, LeaseTypes, Lease!TypeOK,
     BrowserIsKnown
<1>4. CASE Lease!Terminated(w)
  BY <1>a, <1>4 DEF Lease!Terminated, Lease!Goto, Lease!world, Lease!worker, Lease!At,
     LeaseTypes, Lease!TypeOK, BrowserIsKnown
<1>5. CASE Lease!RemoveOrphan(w)
  BY <1>a, <1>5 DEF Lease!RemoveOrphan, Lease!RemoveInspected, Lease!IsLeaseOf, Lease!Goto,
     Lease!world, Lease!worker, Lease!At, LeaseTypes, Lease!TypeOK, BrowserIsKnown
<1>6. CASE Lease!RemoveAdopted(w)
  BY <1>a, <1>6 DEF Lease!RemoveAdopted, Lease!RemoveInspected, Lease!IsLeaseOf, Lease!Goto,
     Lease!world, Lease!worker, Lease!At, LeaseTypes, Lease!TypeOK, BrowserIsKnown
<1>7. CASE Lease!Claim(w)
  BY <1>a, <1>7 DEF Lease!Claim, Lease!Link, Lease!Goto, Lease!world, Lease!At, LeaseTypes,
     Lease!TypeOK, BrowserIsKnown
<1>8. CASE Lease!ClaimAdopted(w)
  BY <1>a, <1>8 DEF Lease!ClaimAdopted, Lease!Link, Lease!Goto, Lease!world, Lease!At,
     LeaseTypes, Lease!TypeOK, BrowserIsKnown
<1>9. CASE Lease!ClaimNativeIfNeeded(w)
  BY <1>a, <1>9 DEF Lease!ClaimNativeIfNeeded, Lease!Link, Lease!Goto, Lease!world, Lease!At,
     LeaseTypes, Lease!TypeOK, BrowserIsKnown
<1>10. CASE Lease!Launch(w)
  BY <1>a, <1>10 DEF Lease!Launch, Lease!Goto, Lease!At, LeaseTypes, Lease!TypeOK,
     BrowserIsKnown
<1>11. CASE Lease!LaunchFails(w)
  BY <1>a, <1>11 DEF Lease!LaunchFails, Lease!Goto, Lease!world, Lease!worker, Lease!At,
     LeaseTypes, Lease!TypeOK, BrowserIsKnown
<1>12. CASE Lease!Establish(w)
  BY <1>a, <1>12 DEF Lease!Establish, Lease!Goto, Lease!world, Lease!At, LeaseTypes,
     Lease!TypeOK, BrowserIsKnown
<1>13. CASE Lease!RequestClose(w)
  BY <1>a, <1>13 DEF Lease!RequestClose, Lease!UpdatePhase, Lease!ReadOwn, Lease!Goto,
     Lease!world, Lease!At, LeaseTypes, Lease!TypeOK, BrowserIsKnown
<1>14. CASE Lease!HandOffInPlace(w)
  BY <1>a, <1>14 DEF Lease!HandOffInPlace, Lease!UpdatePhase, Lease!ReadOwn, Lease!Goto,
     Lease!At, LeaseTypes, Lease!TypeOK, BrowserIsKnown
<1>15. CASE Lease!Resume(w)
  BY <1>a, <1>15 DEF Lease!Resume, Lease!Goto, Lease!At, LeaseTypes, Lease!TypeOK,
     BrowserIsKnown
<1>16. CASE Lease!Exited(w)
  BY <1>a, <1>16 DEF Lease!Exited, Lease!UpdatePhase, Lease!ReadOwn, Lease!Goto, Lease!world,
     Lease!At, LeaseTypes, Lease!TypeOK, BrowserIsKnown
<1>17. CASE Lease!ProfileUnlocked(w)
  BY <1>a, <1>17 DEF Lease!ProfileUnlocked, Lease!UpdatePhase, Lease!ReadOwn, Lease!Goto,
     Lease!world, Lease!At, LeaseTypes, Lease!TypeOK, BrowserIsKnown
<1>18. CASE Lease!Release(w)
  BY <1>a, <1>18 DEF Lease!Release, Lease!Goto, Lease!world, Lease!At, LeaseTypes, Lease!TypeOK,
     BrowserIsKnown
<1>19. CASE Lease!Detach(w)
  BY <1>a, <1>19 DEF Lease!Detach, Lease!Goto, Lease!world, Lease!At, LeaseTypes, Lease!TypeOK,
     BrowserIsKnown
<1>20. CASE Lease!Heartbeat(w)
  BY <1>a, <1>20 DEF Lease!Heartbeat, Lease!ReadOwn, Lease!world, LeaseTypes, Lease!TypeOK,
     BrowserIsKnown
<1>21. CASE Lease!Finish(w)
  BY <1>a, <1>21 DEF Lease!Finish, Lease!world, Lease!worker, LeaseTypes, Lease!TypeOK,
     BrowserIsKnown
<1>22. CASE Lease!Crash(w)
  BY <1>a, <1>22 DEF Lease!Crash, LeaseTypes, Lease!TypeOK, BrowserIsKnown
<1> QED
  BY <1>1, <1>2, <1>3, <1>4, <1>5, <1>6, <1>7, <1>8, <1>9, <1>10, <1>11, <1>12, <1>13, <1>14,
     <1>15, <1>16, <1>17, <1>18, <1>19, <1>20, <1>21, <1>22 DEF Lease!WorkerStep

\* A worker that gives its lease up is about to remove it.
LEMMA NothingIsRecreated ==
    ASSUME LeaseInv, NEW w \in Workers,
           Lease!WorkerStep(w) \/ Lease!Heartbeat(w) \/ Lease!Finish(w) \/ Lease!Crash(w)
    PROVE  (w \in alive /\ Lease!Owns(w) /\ pc[w] # "detached" => active[w] \/ mut[w] = Lease!Removal)'
<1>a. /\ LeaseTypes
      /\ w \in alive /\ Lease!Owns(w) /\ pc[w] # "detached" => active[w] \/ mut[w] = Lease!Removal
      /\ Pending(w) => active[w]
  BY DEF LeaseInv, Lease!NotRecreated, LeasesAreHonest
<1>1. CASE Lease!Prepare(w)
  BY <1>a, <1>1 DEF Lease!Prepare, Lease!Decide, Lease!Goto, Lease!world, Lease!At, LeaseTypes,
     Lease!TypeOK, Lease!Owns
<1>2. CASE Lease!PrepareAdoption(w)
  BY <1>a, <1>2 DEF Lease!PrepareAdoption, Lease!Goto, Lease!world, Lease!At, LeaseTypes,
     Lease!TypeOK, Lease!Owns
<1>3. CASE Lease!Signal(w)
  BY <1>a, <1>3 DEF Lease!Signal, Lease!Goto, Lease!worker, Lease!At, LeaseTypes, Lease!TypeOK,
     Lease!Owns
<1>4. CASE Lease!Terminated(w)
  BY <1>a, <1>4 DEF Lease!Terminated, Lease!Goto, Lease!world, Lease!worker, Lease!At,
     LeaseTypes, Lease!TypeOK, Lease!Owns
<1>5. CASE Lease!RemoveOrphan(w)
  BY <1>a, <1>5 DEF Lease!RemoveOrphan, Lease!RemoveInspected, Lease!IsLeaseOf, Lease!Goto,
     Lease!world, Lease!worker, Lease!At, LeaseTypes, Lease!TypeOK, Lease!Owns
<1>6. CASE Lease!RemoveAdopted(w)
  BY <1>a, <1>6 DEF Lease!RemoveAdopted, Lease!RemoveInspected, Lease!IsLeaseOf, Lease!Goto,
     Lease!world, Lease!worker, Lease!At, LeaseTypes, Lease!TypeOK, Lease!Owns
<1>7. CASE Lease!Claim(w)
  BY <1>a, <1>7 DEF Lease!Claim, Lease!Link, Lease!NewLease, Lease!Goto, Lease!world, Lease!At,
     LeaseTypes, Lease!TypeOK, Lease!Owns
<1>8. CASE Lease!ClaimAdopted(w)
  BY <1>a, <1>8 DEF Lease!ClaimAdopted, Lease!Link, Lease!NewLease, Lease!Goto, Lease!world,
     Lease!At, LeaseTypes, Lease!TypeOK, Lease!Owns
<1>9. CASE Lease!ClaimNativeIfNeeded(w)
  BY <1>a, <1>9 DEF Lease!ClaimNativeIfNeeded, Lease!Link, Lease!NewLease, Lease!Goto,
     Lease!world, Lease!At, LeaseTypes, Lease!TypeOK, Lease!Owns
<1>10. CASE Lease!Launch(w)
  BY <1>a, <1>10 DEF Lease!Launch, Lease!NewLease, Lease!Goto, Lease!At, LeaseTypes,
     Lease!TypeOK, Lease!Owns
<1>11. CASE Lease!LaunchFails(w)
  BY <1>a, <1>11 DEF Lease!LaunchFails, Lease!Goto, Lease!world, Lease!worker, Lease!At,
     LeaseTypes, Lease!TypeOK, Lease!Owns
<1>12. CASE Lease!Establish(w)
  BY <1>a, <1>12 DEF Lease!Establish, Lease!NewLease, Lease!Goto, Lease!world, Lease!At,
     LeaseTypes, Lease!TypeOK, Lease!Owns
<1>13. CASE Lease!RequestClose(w)
  BY <1>a, <1>13 DEF Lease!RequestClose, Lease!UpdatePhase, Lease!ReadOwn, Lease!Goto,
     Lease!world, Lease!At, LeaseTypes, Lease!TypeOK, Lease!Owns
<1>14. CASE Lease!HandOffInPlace(w)
  BY <1>a, <1>14 DEF Lease!HandOffInPlace, Lease!UpdatePhase, Lease!ReadOwn, Lease!Goto,
     Lease!At, LeaseTypes, Lease!TypeOK, Lease!Owns
<1>15. CASE Lease!Resume(w)
  BY <1>a, <1>15 DEF Lease!Resume, Lease!Goto, Lease!At, LeaseTypes, Lease!TypeOK, Lease!Owns
<1>16. CASE Lease!Exited(w)
  BY <1>a, <1>16 DEF Lease!Exited, Lease!UpdatePhase, Lease!ReadOwn, Lease!Goto, Lease!world,
     Lease!At, LeaseTypes, Lease!TypeOK, Lease!Owns
<1>17. CASE Lease!ProfileUnlocked(w)
  BY <1>a, <1>17 DEF Lease!ProfileUnlocked, Lease!UpdatePhase, Lease!ReadOwn, Lease!Goto,
     Lease!world, Lease!At, LeaseTypes, Lease!TypeOK, Lease!Owns
<1>18. CASE Lease!Release(w)
  BY <1>a, <1>18 DEF Lease!Release, Lease!Goto, Lease!world, Lease!At, LeaseTypes, Lease!TypeOK,
     Lease!Owns
<1>19. CASE Lease!Detach(w)
  BY <1>a, <1>19 DEF Lease!Detach, Lease!Goto, Lease!world, Lease!At, LeaseTypes, Lease!TypeOK,
     Lease!Owns
<1>20. CASE Lease!Heartbeat(w)
  BY <1>a, <1>20 DEF Lease!Heartbeat, Lease!ReadOwn, Lease!world, LeaseTypes, Lease!TypeOK,
     Lease!Owns
<1>21. CASE Lease!Finish(w)
  BY <1>a, <1>21 DEF Lease!Finish, Lease!world, Lease!worker, LeaseTypes, Lease!TypeOK,
     Lease!Owns, Pending
<1>22. CASE Lease!Crash(w)
  BY <1>a, <1>22 DEF Lease!Crash, LeaseTypes, Lease!TypeOK, Lease!Owns
<1> QED
  BY <1>1, <1>2, <1>3, <1>4, <1>5, <1>6, <1>7, <1>8, <1>9, <1>10, <1>11, <1>12, <1>13, <1>14,
     <1>15, <1>16, <1>17, <1>18, <1>19, <1>20, <1>21, <1>22 DEF Lease!WorkerStep

LEMMA WorkersKeepTheLease ==
    ASSUME LeaseInv, NEW w \in Workers,
           Lease!WorkerStep(w) \/ Lease!Heartbeat(w) \/ Lease!Finish(w) \/ Lease!Crash(w)
    PROVE  LeaseInv'
<1>1. LeaseTypes' /\ PlacesFit' /\ BrowserIsKnown'
  BY LeaseStepTypes, PlacesStayFit, BrowserStaysKnown
<1>2. LeasesAreHonest'
  BY FileStaysHonest, SeenStaysHonest, PendingStaysHonest DEF LeasesAreHonest
<1>3. Lease!NotRecreated'
  <2> SUFFICES ASSUME NEW v \in alive', Lease!Owns(v)', pc'[v] # "detached"
               PROVE  (active[v] \/ mut[v] = Lease!Removal)'
    BY DEF Lease!NotRecreated
  <2>1. CASE v = w
    BY <2>1, NothingIsRecreated
  <2>2. CASE v # w
    <3>1. v \in alive /\ v \in Workers /\ UNCHANGED <<mut[v], active[v], pc[v]>>
      BY <2>2, WorldGrows, MutWriters, OthersStay DEF LeaseInv, LeaseTypes, Lease!TypeOK
    <3>2. Lease!Owns(v) \/ (Pending(w) /\ mut[w].lease.owner = v)
      <4>1. file' = file \/ file' = None \/ (file' # None /\ file'.owner = w)
            \/ (Pending(w) /\ file' = mut[w].lease)
        BY FileWriters DEF Lease!NewLease, Lease!Establish, Lease!Finish, Pending
      <4>2. file' # None /\ file'.owner = v
        BY DEF Lease!Owns
      <4> QED
        BY <2>2, <4>1, <4>2 DEF Lease!Owns
    <3>3. Lease!Owns(v)
      BY <2>2, <3>2 DEF LeaseInv, LeasesAreHonest
    <3> QED
      BY <3>1, <3>3 DEF LeaseInv, Lease!NotRecreated
  <2> QED BY <2>1, <2>2
<1> QED
  BY <1>1, <1>2, <1>3 DEF LeaseInv, Lease!Leases, Lease!Modes, Lease!Phases

LEMMA ExitsKeepTheLease ==
    ASSUME LeaseInv, Lease!BrowserExits \/ UNCHANGED Lease!vars
    PROVE  LeaseInv'
<1>1. UNCHANGED <<file, used, native, awaiting, alive, pc, goal, seen, active, mut, drives, signalled>>
      /\ browser' \in {browser, None}
  BY DEF Lease!BrowserExits, Lease!worker, Lease!vars
<1>2. LeaseTypes' /\ BrowserIsKnown'
  BY <1>1 DEF LeaseInv, LeaseTypes, Lease!TypeOK, BrowserIsKnown, Lease!Leases, Lease!Modes, Lease!Phases
<1>3. LeasesAreHonest'
  BY <1>1 DEF LeaseInv, LeasesAreHonest, Honest, Pending, Lease!Removal
<1>4. PlacesFit'
  BY <1>1 DEF LeaseInv, PlacesFit, SeenFits
<1>5. Lease!NotRecreated'
  BY <1>1 DEF LeaseInv, Lease!NotRecreated, Lease!Owns, Lease!Removal
<1> QED
  BY <1>2, <1>3, <1>4, <1>5 DEF LeaseInv, Lease!Leases, Lease!Modes, Lease!Phases

\* Only an orphan is signalled: nobody living drives it, and it is no human's.
LEMMA SignalsReachOrphans ==
    ASSUME LeaseInv, [Lease!Next]_(Lease!vars)
    PROVE  [Lease!OnlyOrphansSignalled]_(Lease!vars)
<1> SUFFICES ASSUME NEW p \in signalled' \ signalled
             PROVE  (\A w \in alive : drives[w] # p) /\ p \notin native
  BY DEF Lease!OnlyOrphansSignalled
<1>1. PICK w \in Workers : Lease!Signal(w)
  BY DEF Lease!Next, Lease!vars, Lease!BrowserExits, Lease!WorkerStep, Lease!Heartbeat, Lease!Finish,
     Lease!Crash, Lease!Prepare, Lease!Decide, Lease!PrepareAdoption, Lease!Terminated, Lease!RemoveOrphan,
     Lease!RemoveAdopted, Lease!RemoveInspected, Lease!Claim, Lease!ClaimAdopted,
     Lease!ClaimNativeIfNeeded, Lease!Link, Lease!Launch, Lease!LaunchFails, Lease!Establish,
     Lease!RequestClose, Lease!HandOffInPlace, Lease!Resume, Lease!Exited, Lease!ProfileUnlocked,
     Lease!Release, Lease!Detach, Lease!world
<1>2. p = seen[w].process /\ SeenFits(w) /\ pc[w] = "signal" /\ Honest(seen[w])
  BY <1>1 DEF Lease!Signal, Lease!At, LeaseInv, PlacesFit, LeasesAreHonest
<1> QED
  BY <1>2 DEF SeenFits, Honest

\* However the workers' reads and writes of the lease file interleave, and
\* whichever of them crash, for any number of them and of browser processes.
\* None of it needs the fairness of Lease!Spec.
THEOREM LeasesAreRespected ==
    ASSUME None \notin Lease!Leases
    PROVE  Lease!Init /\ [][Lease!Next]_(Lease!vars) => LeaseIsRespected
<1>1. Lease!Init => LeaseInv
  BY DEF Lease!Init, LeaseInv, LeaseTypes, Lease!TypeOK, Lease!Modes, LeasePlaces, LeasesAreHonest,
     Honest, Pending, BrowserIsKnown, PlacesFit, SeenFits, Lease!NotRecreated, Lease!Owns
<1>2. LeaseInv /\ [Lease!Next]_(Lease!vars) => LeaseInv'
  BY WorkersKeepTheLease, ExitsKeepTheLease DEF Lease!Next
<1>3. LeaseInv => Lease!TypeOK /\ Lease!NotRecreated
  BY DEF LeaseInv, LeaseTypes
<1>4. LeaseInv /\ [Lease!Next]_(Lease!vars) => [Lease!OnlyOrphansSignalled]_(Lease!vars)
  BY SignalsReachOrphans
<1> QED
  BY <1>1, <1>2, <1>3, <1>4, PTL DEF LeaseIsRespected

-----------------------------------------------------------------------------
(* Connection: the waits and the sessions of one MCP connection.            *)

Connection == INSTANCE LoungeConnection

\* Two waits never run side by side, and no session is left listening after
\* its wait (lounge-service.ts, lounge-store-client.ts).
OneWaitListens == Connection!TypeOK /\ Connection!OneWait /\ Connection!WakeableOnlyWhileWaiting

\* A connection has finitely many calls; what rejects a request is no answer, and
\* what is not there is no session.
ConnectionConstants ==
    /\ IsFiniteSet(Calls)
    /\ MaxSessions \in Nat /\ MaxRevisions \in Nat /\ MaxPolls \in Nat
    /\ Failed # None /\ None \notin Nat

CallPlaces == {"free", "join", "join notice", "status", "pin", "close session", "close"} \cup Connection!WaitSteps
CallStates == [at : CallPlaces, agent : Agents \cup {None}, session : Connection!Ids \cup {None},
               reply : Connection!Revisions \cup Connection!Ids \cup {None, Failed}, polls : 0 .. MaxPolls, known : Connection!Revisions,
               mail : BOOLEAN, cancelled : BOOLEAN]
SessionRows == [agent : Agents, open : BOOLEAN, state : {"connected", "listening", "processing", "offline"}]

ConnectionTyped ==
    /\ calls \in [Calls -> CallStates] /\ queue \in Seq(Calls)
    /\ joined \in DOMAIN sessions \cup {None} /\ lastNotice \in Connection!Revisions \cup {None}
    /\ waiting \in BOOLEAN /\ closed \in BOOLEAN
    /\ sessions \in Seq(SessionRows) /\ Len(sessions) <= MaxSessions
    /\ notice \in Connection!Revisions /\ mail \in BOOLEAN /\ told \subseteq Connection!Revisions

\* A request is in line once, for as long as its call awaits it.
AwaitsReply(x) == x.reply = None /\ x.at \notin {"free", "pause"}
QueueOfPending ==
    /\ \A i \in 1 .. Len(queue) : AwaitsReply(calls[queue[i]])
    /\ \A i, j \in 1 .. Len(queue) : queue[i] = queue[j] => i = j

\* What a call has in hand at each step.
Answered(x) == x.reply \notin {None, Failed}
CallFits(x, ids, wait) ==
    /\ x.at = "join" => x.agent \in Agents /\ (Answered(x) => x.reply \in ids)
    /\ x.at \in {"join notice", "status", "pin", "look"} => (Answered(x) => x.reply \in Connection!Revisions)
    /\ x.at \in {"join notice", "status", "pin", "close session"} \cup Connection!WaitSteps => x.session \in ids
    /\ x.at \in Connection!WaitSteps => wait
CallsFit == \A c \in Calls : CallFits(calls[c], DOMAIN sessions, waiting)

OneCallWaits == \A c, d \in Calls : calls[c].at \in Connection!WaitSteps
  /\ calls[d].at \in Connection!WaitSteps => c = d
ClosedSessionIsOffline == \A s \in DOMAIN sessions : ~sessions[s].open => sessions[s].state = "offline"

\* A session that listens is that of the wait, which has still to end it.
StillListens(x, s) ==
    /\ x.at \in Connection!WaitSteps /\ x.session = s
    /\ x.at \in {"deliver", "expire", "give up"} => x.reply = None
ListensForWait ==
    closed \/ \A s \in DOMAIN sessions : sessions[s].state = "listening" => \E c \in Calls : StillListens(calls[c], s)

ConnectionInv == ConnectionTyped /\ QueueOfPending /\ CallsFit /\ OneCallWaits /\ ClosedSessionIsOffline
  /\ ListensForWait

\* One call goes on, its request in line or not.
LEMMA CallGoesOn ==
    ASSUME ConnectionConstants, ConnectionInv, NEW c \in Calls, NEW x \in CallStates,
           calls' = [calls EXCEPT ![c] = x],
           \/ queue' = queue /\ (AwaitsReply(calls[c]) => AwaitsReply(x))
           \/ queue' = Append(queue, c) /\ ~AwaitsReply(calls[c]) /\ AwaitsReply(x),
           UNCHANGED <<Connection!store, closed>>,
           joined' \in DOMAIN sessions \cup {None}, lastNotice' \in Connection!Revisions \cup {None},
           waiting' \in BOOLEAN, told' \subseteq Connection!Revisions,
           CallFits(x, DOMAIN sessions', waiting'),
           waiting' = waiting \/ ~waiting \/ calls[c].at \in Connection!WaitSteps,
           x.at \in Connection!WaitSteps => calls[c].at \in Connection!WaitSteps \/ ~waiting,
           calls[c].at \in Connection!WaitSteps => closed \/ \A s \in DOMAIN sessions :
                StillListens(calls[c], s) /\ sessions[s].state = "listening" => StillListens(x, s)
    PROVE  ConnectionInv'
<1> USE DEF ConnectionInv
<1>1. ConnectionTyped'
  <2>1. calls' \in [Calls -> CallStates]
    BY DEF ConnectionTyped
  <2>2. queue' \in Seq(Calls)
    <3>1. queue \in Seq(Calls)
      BY DEF ConnectionTyped
    <3>2. queue' = queue \/ queue' = Append(queue, c)
      OBVIOUS
    <3> HIDE DEF ConnectionInv
    <3> QED BY <3>1, <3>2
  <2> QED
    BY <2>1, <2>2 DEF ConnectionTyped, Connection!store
<1>2. QueueOfPending'
  <2>1. calls'[c] = x /\ \A d \in Calls : d # c => calls'[d] = calls[d]
    BY DEF ConnectionTyped
  <2>2. CASE queue' = queue /\ (AwaitsReply(calls[c]) => AwaitsReply(x))
    BY <2>1, <2>2 DEF QueueOfPending, ConnectionTyped, AwaitsReply
  <2>3. CASE queue' = Append(queue, c) /\ ~AwaitsReply(calls[c]) /\ AwaitsReply(x)
    <3>1. \A i \in 1 .. Len(queue) : queue[i] # c /\ queue[i] \in Calls
      BY <2>3 DEF QueueOfPending, ConnectionTyped
    <3>2. Len(queue') = Len(queue) + 1 /\ queue'[Len(queue) + 1] = c
          /\ \A i \in 1 .. Len(queue) : queue'[i] = queue[i]
      BY <2>3 DEF ConnectionTyped
    <3>3. Len(queue) \in Nat
      BY DEF ConnectionTyped
    <3> QED
      BY <2>1, <2>3, <3>1, <3>2, <3>3 DEF QueueOfPending, AwaitsReply
  <2> QED BY <2>2, <2>3
<1>3. CallsFit'
  <2>1. ASSUME NEW d \in Calls, d # c PROVE CallFits(calls'[d], DOMAIN sessions', waiting')
    BY <2>1 DEF ConnectionTyped, CallsFit, CallFits, Answered, OneCallWaits, Connection!store
  <2> QED
    BY <2>1 DEF ConnectionTyped, CallsFit
<1>4. OneCallWaits'
  BY DEF OneCallWaits, ConnectionTyped, CallsFit, CallFits
<1>5. ClosedSessionIsOffline'
  BY DEF ClosedSessionIsOffline, Connection!store
<1>6. ListensForWait'
  <2> SUFFICES ASSUME ~closed, NEW s \in DOMAIN sessions, sessions[s].state = "listening"
               PROVE  \E d \in Calls : StillListens(calls'[d], s)
    BY DEF ListensForWait, StillListens, Connection!store
  <2>1. PICK d \in Calls : StillListens(calls[d], s)
    BY DEF ListensForWait
  <2>2. calls'[c] = x /\ (d # c => calls'[d] = calls[d])
    BY DEF ConnectionTyped
  <2> QED
    BY <2>1, <2>2 DEF StillListens
<1> QED BY <1>1, <1>2, <1>3, <1>4, <1>5, <1>6

\* The same for a call that makes a request, or is refused by a closed client.
LEMMA RequestGoesOn ==
    ASSUME ConnectionConstants, ConnectionInv, NEW c \in Calls, NEW x \in CallStates,
           Connection!Request(c, x), ~AwaitsReply(calls[c]), x.at \notin {"free", "pause"},
           UNCHANGED <<Connection!store, closed>>,
           joined' \in DOMAIN sessions \cup {None}, lastNotice' \in Connection!Revisions \cup {None},
           waiting' \in BOOLEAN, told' \subseteq Connection!Revisions,
           CallFits([x EXCEPT !.reply = None], DOMAIN sessions', waiting'),
           waiting' = waiting \/ ~waiting \/ calls[c].at \in Connection!WaitSteps,
           x.at \in Connection!WaitSteps => calls[c].at \in Connection!WaitSteps \/ ~waiting,
           calls[c].at \in Connection!WaitSteps => \A s \in DOMAIN sessions :
                StillListens(calls[c], s)
                  /\ sessions[s].state = "listening" => StillListens([x EXCEPT !.reply = None], s)
    PROVE  ConnectionInv'
<1>1. CASE closed
  <2> DEFINE y == [x EXCEPT !.reply = Failed]
  <2>1. y \in CallStates /\ calls' = [calls EXCEPT ![c] = y] /\ queue' = queue /\ y.at = x.at /\ y.reply = Failed
        /\ y.session = x.session /\ y.agent = x.agent
    BY <1>1 DEF Connection!Request, CallStates
  <2>2. CallFits(y, DOMAIN sessions', waiting')
    BY <2>1 DEF CallFits, CallStates, Answered
  <2> HIDE DEF y
  <2> QED
    BY <1>1, <2>1, <2>2, CallGoesOn
<1>2. CASE ~closed
  <2> DEFINE y == [x EXCEPT !.reply = None]
  <2>1. y \in CallStates /\ calls' = [calls EXCEPT ![c] = y] /\ queue' = Append(queue, c) /\ y.at = x.at
          /\ y.reply = None
    BY <1>2 DEF Connection!Request, CallStates
  <2>2. AwaitsReply(y)
    BY <2>1 DEF AwaitsReply
  <2> HIDE DEF y
  <2>3. CallFits(y, DOMAIN sessions', waiting') /\ (calls[c].at \in Connection!WaitSteps => \A s \in DOMAIN sessions :
                StillListens(calls[c], s) /\ sessions[s].state = "listening" => StillListens(y, s))
    BY DEF y
  <2> QED
    BY <2>1, <2>2, <2>3, CallGoesOn
<1> QED BY <1>1, <1>2

\* A wait that is over leaves no session listening.
LEMMA CallReturns ==
    ASSUME ConnectionConstants, ConnectionInv, NEW c \in Calls, Connection!Return(c), ~AwaitsReply(calls[c]),
           UNCHANGED <<Connection!store, closed>>,
           joined' \in DOMAIN sessions \cup {None}, lastNotice' \in Connection!Revisions \cup {None},
           waiting' \in BOOLEAN, told' \subseteq Connection!Revisions,
           waiting' = waiting \/ calls[c].at \in Connection!WaitSteps,
           calls[c].at \in Connection!WaitSteps => closed \/ \A s \in DOMAIN sessions :
                sessions[s].state = "listening" => ~StillListens(calls[c], s)
    PROVE  ConnectionInv'
<1>1. Connection!Free \in CallStates /\ Connection!Free.at = "free"
  BY DEF Connection!Free, CallStates, CallPlaces, Connection!Revisions, ConnectionConstants
<1>4. ~AwaitsReply(Connection!Free) /\ CallFits(Connection!Free, DOMAIN sessions', waiting')
  BY <1>1 DEF Connection!WaitSteps, AwaitsReply, CallFits
<1>2. calls' = [calls EXCEPT ![c] = Connection!Free] /\ queue' = queue
  BY DEF Connection!Return
<1>3. Connection!Free.at \notin Connection!WaitSteps
  BY <1>1 DEF Connection!WaitSteps
<1> QED
  BY <1>1, <1>2, <1>3, <1>4, CallGoesOn

\* What follows when a reply has come.
LEMMA CallsContinue ==
    ASSUME ConnectionConstants, ConnectionInv, NEW c \in Calls, Connection!Continue(c)
    PROVE  ConnectionInv'
<1>0. /\ calls[c] \in CallStates /\ CallFits(calls[c], DOMAIN sessions, waiting)
      /\ joined \in DOMAIN sessions \cup {None} /\ lastNotice \in Connection!Revisions \cup {None}
      /\ waiting \in BOOLEAN /\ told \subseteq Connection!Revisions
  BY DEF ConnectionInv, ConnectionTyped, CallsFit
<1>1. CASE Connection!Joined(c)
  <2> DEFINE x == [calls[c] EXCEPT !.at = "join notice", !.session = calls[c].reply]
  <2>0. /\ calls[c].at = "join" /\ calls[c].reply \in DOMAIN sessions /\ calls[c].reply # None
        /\ DOMAIN sessions \subseteq Connection!Ids
    BY <1>0, <1>1
       DEF Connection!Joined, Connection!Replied, CallFits, Answered, ConnectionInv, ConnectionTyped,
           Connection!Ids, ConnectionConstants
  <2>1. x \in CallStates /\ CallFits([x EXCEPT !.reply = None], DOMAIN sessions', waiting') /\ x.at = "join notice"
    BY <1>0, <1>1, <2>0
       DEF Connection!Joined, CallFits, CallStates, CallPlaces, Answered, Connection!WaitSteps,
           Connection!store
  <2> HIDE DEF x
  <2> QED
    BY <1>0, <1>1, <2>0, <2>1, RequestGoesOn DEF Connection!Joined, x, Connection!WaitSteps, AwaitsReply
<1>2. CASE Connection!NoticeKnown(c)
  BY <1>0, <1>2, CallReturns
     DEF Connection!NoticeKnown, Connection!Replied, Connection!Answer, CallFits, Answered, AwaitsReply,
         Connection!WaitSteps
<1>3. CASE Connection!CallFails(c)
  BY <1>0, <1>3, CallReturns
     DEF Connection!CallFails, AwaitsReply, Connection!WaitSteps, Connection!service, ConnectionConstants
<1>4. CASE Connection!CloseStore(c)
  <2> DEFINE x == [calls[c] EXCEPT !.at = "close"]
  <2>1. x \in CallStates /\ CallFits([x EXCEPT !.reply = None], DOMAIN sessions', waiting') /\ x.at = "close"
    BY <1>0, <1>4 DEF Connection!CloseStore, CallFits, CallStates, CallPlaces, Answered, Connection!WaitSteps
  <2> HIDE DEF x
  <2> QED
    BY <1>0, <1>4, <2>1, RequestGoesOn DEF Connection!CloseStore, x, Connection!WaitSteps, AwaitsReply
<1>5. CASE Connection!Closed(c)
  <2>1. closed' /\ queue' = <<>> /\ UNCHANGED <<Connection!service, Connection!store, told>>
    BY <1>5 DEF Connection!Closed
  <2>2. \A d \in Calls : \/ calls'[d] = Connection!Free
                         \/ calls'[d] = calls[d]
                         \/ calls'[d] = [calls[d] EXCEPT !.reply = Failed]
    BY <1>5 DEF Connection!Closed
  <2>3. \A d \in Calls : /\ calls'[d] \in CallStates /\ CallFits(calls'[d], DOMAIN sessions', waiting')
                         /\ calls'[d].at \in {calls[d].at, "free"}
    <3> SUFFICES ASSUME NEW d \in Calls
                 PROVE  /\ calls'[d] \in CallStates /\ CallFits(calls'[d], DOMAIN sessions', waiting')
                        /\ calls'[d].at \in {calls[d].at, "free"}
      OBVIOUS
    <3>1. calls[d] \in CallStates /\ CallFits(calls[d], DOMAIN sessions, waiting)
      BY DEF ConnectionInv, ConnectionTyped, CallsFit
    <3>2. Connection!Free \in CallStates /\ Connection!Free.at = "free"
      BY DEF Connection!Free, CallStates, CallPlaces, Connection!Revisions, ConnectionConstants
    <3>3. CASE calls'[d] = Connection!Free
      BY <3>2, <3>3 DEF CallFits, Connection!WaitSteps
    <3>4. CASE calls'[d] = calls[d]
      BY <2>1, <3>1, <3>4 DEF Connection!service, Connection!store
    <3>5. CASE calls'[d] = [calls[d] EXCEPT !.reply = Failed]
      BY <2>1, <3>1, <3>5 DEF Connection!service, Connection!store, CallFits, Answered, CallStates
    <3> QED BY <2>2, <3>3, <3>4, <3>5
  <2>4. ConnectionTyped' /\ QueueOfPending' /\ CallsFit' /\ ClosedSessionIsOffline' /\ ListensForWait'
    BY <1>5, <2>1, <2>3
       DEF Connection!Closed, ConnectionInv, ConnectionTyped, QueueOfPending, CallsFit,
           ClosedSessionIsOffline, ListensForWait, Connection!service, Connection!store
  <2>5. OneCallWaits'
    BY <2>3 DEF ConnectionInv, OneCallWaits, Connection!WaitSteps
  <2> QED BY <2>4, <2>5 DEF ConnectionInv
<1>6. CASE Connection!Listening(c)
  <2> DEFINE x == [calls[c] EXCEPT !.at = "claim"]
  <2>1. x \in CallStates /\ CallFits([x EXCEPT !.reply = None], DOMAIN sessions', waiting') /\ x.at = "claim"
          /\ x.session = calls[c].session /\ calls[c].at \in Connection!WaitSteps
    BY <1>0, <1>6
       DEF Connection!Listening, Connection!Replied, CallFits, CallStates, CallPlaces, Answered,
           Connection!WaitSteps, Connection!service, Connection!store
  <2> HIDE DEF x
  <2> QED
    BY <1>0, <1>6, <2>1, RequestGoesOn
       DEF Connection!Listening, Connection!Replied, x, Connection!WaitSteps, AwaitsReply,
           Connection!service, StillListens, CallStates
<1>7. CASE Connection!Claimed(c)
  <2> DEFINE x == [calls[c] EXCEPT !.at = "look"]
  <2>1. x \in CallStates /\ CallFits([x EXCEPT !.reply = None], DOMAIN sessions', waiting') /\ x.at = "look"
          /\ x.session = calls[c].session /\ calls[c].at \in Connection!WaitSteps
    BY <1>0, <1>7
       DEF Connection!Claimed, Connection!Replied, CallFits, CallStates, CallPlaces, Answered,
           Connection!WaitSteps, Connection!service, Connection!store
  <2> HIDE DEF x
  <2> QED
    BY <1>0, <1>7, <2>1, RequestGoesOn
       DEF Connection!Claimed, Connection!Replied, x, Connection!WaitSteps, AwaitsReply, Connection!service,
           StillListens, CallStates
<1>8. CASE Connection!Looked(c)
  <2>0. calls[c].at = "look" /\ calls[c].reply \in Connection!Revisions /\ ~AwaitsReply(calls[c])
    BY <1>0, <1>8 DEF Connection!Looked, Connection!Replied, CallFits, Answered, AwaitsReply
  <2>1. ASSUME NEW where \in {"deliver", "expire"}, Connection!Request(c, [calls[c] EXCEPT !.at = where, !.known = calls[c].reply])
        PROVE  ConnectionInv'
    <3> DEFINE x == [calls[c] EXCEPT !.at = where, !.known = calls[c].reply]
    <3>1. x \in CallStates /\ CallFits([x EXCEPT !.reply = None], DOMAIN sessions', waiting') /\ x.at = where
            /\ x.session = calls[c].session /\ calls[c].at \in Connection!WaitSteps
      BY <1>0, <1>8, <2>0, <2>1
         DEF Connection!Looked, CallFits, CallStates, CallPlaces, Answered, Connection!WaitSteps,
             Connection!service, Connection!store
    <3> HIDE DEF x
    <3>2. lastNotice' \in Connection!Revisions \cup {None}
      BY <1>0, <1>8, <2>0 DEF Connection!Looked
    <3> QED
      BY <1>0, <1>8, <2>0, <2>1, <3>1, <3>2, RequestGoesOn
         DEF Connection!Looked, x, Connection!WaitSteps, StillListens, CallStates
  <2>2. ASSUME calls' = [calls EXCEPT ![c].at = "pause", ![c].reply = None], UNCHANGED queue
        PROVE  ConnectionInv'
    <3> DEFINE x == [calls[c] EXCEPT !.at = "pause", !.reply = None]
    <3>1. x \in CallStates /\ CallFits(x, DOMAIN sessions', waiting') /\ x.at = "pause"
            /\ x.session = calls[c].session /\ calls[c].at \in Connection!WaitSteps
          /\ calls' = [calls EXCEPT ![c] = x] /\ x.reply = None
      BY <1>0, <1>8, <2>0, <2>2
         DEF Connection!Looked, CallFits, CallStates, CallPlaces, Answered, Connection!WaitSteps,
             Connection!service, Connection!store
    <3> HIDE DEF x
    <3>2. lastNotice' \in Connection!Revisions \cup {None}
      BY <1>0, <1>8, <2>0 DEF Connection!Looked
    <3> QED
      BY <1>0, <1>8, <2>0, <2>2, <3>1, <3>2, CallGoesOn DEF Connection!Looked, Connection!WaitSteps, StillListens
  <2> QED
    BY <1>8, <2>1, <2>2 DEF Connection!Looked
<1>9. CASE Connection!Paused(c)
  <2> DEFINE x == [calls[c] EXCEPT !.at = "claim", !.polls = IF @ < MaxPolls THEN @ + 1 ELSE @]
  <2>0. (IF calls[c].polls < MaxPolls THEN calls[c].polls + 1 ELSE calls[c].polls) \in 0 .. MaxPolls
    BY <1>0 DEF CallStates, ConnectionConstants
  <2>1. x \in CallStates /\ CallFits([x EXCEPT !.reply = None], DOMAIN sessions', waiting') /\ x.at = "claim"
          /\ x.session = calls[c].session /\ calls[c].at \in Connection!WaitSteps
    BY <1>0, <1>9, <2>0
       DEF Connection!Paused, CallFits, CallStates, CallPlaces, Answered, Connection!WaitSteps,
           Connection!service, Connection!store
  <2> HIDE DEF x
  <2> QED
    BY <1>0, <1>9, <2>1, RequestGoesOn
       DEF Connection!Paused, x, Connection!WaitSteps, AwaitsReply, Connection!service, StillListens,
           CallStates
<1>10. CASE Connection!GiveUp(c)
  <2> DEFINE x == [calls[c] EXCEPT !.at = "give up"]
  <2>1. x \in CallStates /\ CallFits([x EXCEPT !.reply = None], DOMAIN sessions', waiting')
          /\ x.at = "give up" /\ x.session = calls[c].session /\ calls[c].at \in Connection!WaitSteps
        /\ [x EXCEPT !.reply = None].reply = None
    BY <1>0, <1>10
       DEF Connection!GiveUp, Connection!Aborted, Connection!WaitFailed, CallFits, CallStates, CallPlaces,
           Answered, Connection!WaitSteps, Connection!service, Connection!store
  <2>2. ~AwaitsReply(calls[c])
    BY <1>10 DEF Connection!GiveUp, Connection!Aborted, Connection!WaitFailed, AwaitsReply, ConnectionConstants
  <2> HIDE DEF x
  <2> QED
    BY <1>0, <1>10, <2>1, <2>2, RequestGoesOn
       DEF Connection!GiveUp, x, Connection!WaitSteps, Connection!service, StillListens, CallStates
<1>11. CASE Connection!GaveUp(c)
  BY <1>0, <1>11, CallReturns DEF Connection!GaveUp, AwaitsReply, Connection!WaitSteps, StillListens
<1>12. CASE Connection!Delivered(c)
  BY <1>0, <1>12, CallReturns
     DEF Connection!Delivered, Connection!Replied, Connection!Answer, AwaitsReply, Connection!WaitSteps,
         StillListens, CallStates
<1> QED
  BY <1>1, <1>2, <1>3, <1>4, <1>5, <1>6, <1>7, <1>8, <1>9, <1>10, <1>11, <1>12 DEF Connection!Continue

\* What an answer may be, and what becomes of the sessions with it.
Ending(place) == place \in {"deliver", "expire", "give up"}
SameCall(x, y) == x.at = y.at /\ x.session = y.session /\ x.agent = y.agent
SessionsAfter(place, s) ==
    /\ sessions' \in Seq(SessionRows) /\ Len(sessions') <= MaxSessions /\ Len(sessions) <= Len(sessions')
    /\ \A t \in DOMAIN sessions' : ~sessions'[t].open => sessions'[t].state = "offline"
    /\ \A t \in DOMAIN sessions' : sessions'[t].state = "listening" =>
          \/ place = "listen" /\ t = s
          \/ /\ t \in DOMAIN sessions /\ sessions[t].state = "listening"
             /\ ~(Ending(place) /\ t = s)

LEMMA ReplyComes ==
    ASSUME ConnectionInv, NEW c \in Calls, NEW x, x = calls'[c],
           NEW r, r \in Connection!Revisions \cup Connection!Ids \cup {None, Failed}, Connection!Reply(c, r)
    PROVE  x \in CallStates /\ calls' = [calls EXCEPT ![c] = x] /\ SameCall(x, calls[c]) /\ x.reply = r
<1>1. calls \in [Calls -> CallStates] /\ calls' = [calls EXCEPT ![c].reply = r]
  BY DEF ConnectionInv, ConnectionTyped, Connection!Reply
<1>2. x = [calls[c] EXCEPT !.reply = r] /\ calls' = [calls EXCEPT ![c] = x]
  BY <1>1
<1> QED BY <1>1, <1>2 DEF CallStates, SameCall

Noticing(place) == place \in {"join notice", "status", "pin", "look"}
LEMMA StillFits ==
    ASSUME NEW x, NEW y, SameCall(x, y), NEW ids, NEW more, NEW wait, CallFits(y, ids, wait), ids \subseteq more,
           x.at = "join" /\ Answered(x) => x.reply \in more,
           Noticing(x.at) /\ Answered(x) => x.reply \in Connection!Revisions
    PROVE  CallFits(x, more, wait)
BY Zenon DEF SameCall, CallFits, Noticing

\* The request at the head of the line is carried out.
LEMMA HeadOfLine ==
    ASSUME ConnectionInv, queue # <<>>, queue' = Tail(queue), NEW c, c = Head(queue)
    PROVE  /\ c \in Calls /\ AwaitsReply(calls[c]) /\ queue' \in Seq(Calls)
           /\ Len(queue') = Len(queue) - 1 /\ \A i \in 1 .. Len(queue') : queue'[i] = queue[i + 1] /\ queue'[i] # c
<1>1. queue \in Seq(Calls) /\ Len(queue) \in Nat \ {0} /\ c = queue[1]
  BY DEF ConnectionInv, ConnectionTyped
<1>2. queue' \in Seq(Calls) /\ Len(queue') = Len(queue) - 1 /\ \A i \in 1 .. Len(queue') : queue'[i] = queue[i + 1]
  BY <1>1
<1>3. 1 \in 1 .. Len(queue) /\ \A i \in 1 .. Len(queue') : i + 1 \in 1 .. Len(queue) /\ i + 1 # 1
  BY <1>1, <1>2
<1>4. c \in Calls /\ AwaitsReply(calls[c]) /\ \A i \in 1 .. Len(queue') : queue[i + 1] # queue[1]
  BY <1>1, <1>3 DEF ConnectionInv, QueueOfPending
<1> QED BY <1>1, <1>2, <1>4

\* The worker's thread answers the request at the head of the line.
LEMMA WorkerAnswers ==
    ASSUME ConnectionConstants, ConnectionInv, Connection!Execute,
           NEW c, NEW s, NEW x, c = Head(queue), s = calls[c].session, x = calls'[c]
    PROVE  ConnectionInv'
<1>q. queue # <<>> /\ queue' = Tail(queue) /\ UNCHANGED <<Connection!service, closed, told>>
  BY DEF Connection!Execute
<1>c. c = Head(queue)
  OBVIOUS
<1>s. s = calls[c].session
  OBVIOUS
<1>x. x = calls'[c]
  OBVIOUS
<1>1. c \in Calls /\ AwaitsReply(calls[c]) /\ (\A i \in 1 .. Len(queue') : queue'[i] = queue[i + 1] /\ queue'[i] # c)
      /\ queue' \in Seq(Calls) /\ Len(queue') = Len(queue) - 1
  BY <1>q, <1>c, HeadOfLine
<1> USE DEF ConnectionInv
<1>2. calls[c] \in CallStates /\ CallFits(calls[c], DOMAIN sessions, waiting)
  BY <1>1 DEF ConnectionTyped, CallsFit
<1>3. UNCHANGED <<Connection!service, closed, told>>
  BY <1>q
<1>a. DOMAIN sessions = 1 .. Len(sessions) /\ sessions \in Seq(SessionRows) /\ Len(sessions) \in Nat
        /\ Len(sessions) <= MaxSessions
      /\ MaxSessions \in Nat /\ notice \in Connection!Revisions /\ 0 \in Connection!Revisions /\ mail \in BOOLEAN
  BY DEF ConnectionTyped, ConnectionConstants, Connection!Revisions
<1>n. None \notin DOMAIN sessions
  BY <1>a DEF ConnectionConstants
<1>4. /\ x \in CallStates /\ calls' = [calls EXCEPT ![c] = x] /\ SameCall(x, calls[c])
      /\ notice' \in Connection!Revisions /\ mail' \in BOOLEAN
      /\ CallFits(x, DOMAIN sessions', waiting) /\ SessionsAfter(calls[c].at, s)
  <2>0. ASSUME NEW r, r \in Connection!Revisions \cup Connection!Ids \cup {None, Failed}, Connection!Reply(c, r)
        PROVE  x \in CallStates /\ calls' = [calls EXCEPT ![c] = x] /\ SameCall(x, calls[c]) /\ x.reply = r
    BY <1>1, <1>x, <2>0, ReplyComes
  <2>f. ASSUME SameCall(x, calls[c]), DOMAIN sessions \subseteq DOMAIN sessions',
               calls[c].at = "join" => x.reply \in DOMAIN sessions', Noticing(calls[c].at)
                 /\ Answered(x) => x.reply \in Connection!Revisions
        PROVE  CallFits(x, DOMAIN sessions', waiting)
    <3>1. x.at = calls[c].at
      BY <2>f DEF SameCall
    <3> QED BY <1>2, <2>f, <3>1, StillFits
  <2>s. s = calls[c].session
    BY <1>s
  <2>b. /\ \A t \in DOMAIN sessions : ~sessions[t].open => sessions[t].state = "offline"
        /\ s \in DOMAIN sessions => sessions[s] \in SessionRows
    BY <1>a DEF ClosedSessionIsOffline
  <2>c. ASSUME UNCHANGED sessions, Ending(calls[c].at) => sessions[s].state # "listening"
        PROVE  SessionsAfter(calls[c].at, s)
    BY <1>a, <2>b, <2>c DEF SessionsAfter
  <2> HIDE DEF ConnectionInv
  <2>1. CASE calls[c].at = "join"
    <3> DEFINE row == [agent |-> calls[c].agent, open |-> TRUE, state |-> "connected"]
               old == [i \in DOMAIN sessions |-> IF sessions[i].agent = calls[c].agent
                        THEN [sessions[i] EXCEPT !.open = FALSE, !.state = "offline"] ELSE sessions[i]]
    <3>1. Len(sessions) < MaxSessions /\ sessions' = Append(old, row)
            /\ Connection!Reply(c, Len(sessions) + 1) /\ UNCHANGED <<notice, mail>>
      BY <2>1, <1>c, <1>s DEF Connection!Execute
    <3>a. calls[c].agent \in Agents
      BY <1>2, <2>1 DEF CallFits
    <3>2. row \in SessionRows /\ row.open /\ row.state = "connected"
      BY <3>a DEF SessionRows
    <3>b. \A i \in 1 .. Len(sessions) : sessions[i] \in SessionRows
      BY <1>a
    <3>3. old \in Seq(SessionRows) /\ Len(old) = Len(sessions) /\ DOMAIN old = DOMAIN sessions
      <4>1. \A i \in 1 .. Len(sessions) : old[i] \in SessionRows
        BY <1>a, <3>b DEF SessionRows
      <4>2. old = [i \in 1 .. Len(sessions) |-> old[i]]
        BY <1>a
      <4> HIDE DEF old
      <4> QED BY <1>a, <4>1, <4>2
    <3>4. \A i \in DOMAIN sessions : (~old[i].open => old[i].state = "offline")
                                    /\ (old[i].state = "listening" => sessions[i].state = "listening")
      BY <1>a, <2>b, <3>b DEF SessionRows
    <3> HIDE DEF row, old
    <3>5. sessions' \in Seq(SessionRows) /\ Len(sessions') = Len(sessions) + 1 /\ sessions'[Len(sessions) + 1] = row
          /\ \A i \in 1 .. Len(sessions) : sessions'[i] = old[i]
      BY <3>1, <3>2, <3>3
    <3>6. Len(sessions') <= MaxSessions /\ Len(sessions) <= Len(sessions')
            /\ DOMAIN sessions' = 1 .. Len(sessions) + 1
          /\ Len(sessions) + 1 \in Connection!Ids /\ DOMAIN sessions \subseteq DOMAIN sessions'
               /\ Len(sessions) + 1 \in DOMAIN sessions'
      BY <1>a, <3>1, <3>5 DEF Connection!Ids
    <3>7. x \in CallStates /\ calls' = [calls EXCEPT ![c] = x] /\ SameCall(x, calls[c]) /\ x.reply = Len(sessions) + 1
      BY <2>0, <3>1, <3>6
    <3>8. CallFits(x, DOMAIN sessions', waiting)
      <4>1. ~Noticing(calls[c].at)
        BY <2>1 DEF Noticing
      <4> QED BY <2>f, <3>6, <3>7, <4>1
    <3>9. \A t \in DOMAIN sessions' : t \in 1 .. Len(sessions) \/ t = Len(sessions) + 1
      BY <1>a, <3>6
    <3>c. ~Ending(calls[c].at)
      BY <2>1 DEF Ending
    <3>10. SessionsAfter(calls[c].at, s)
      BY <1>a, <3>2, <3>4, <3>5, <3>6, <3>9, <3>c DEF SessionsAfter
    <3> QED
      BY <1>a, <3>1, <3>7, <3>8, <3>10
  <2>2. CASE calls[c].at \in {"listen", "deliver", "expire", "give up"}
    <3>1. /\ UNCHANGED <<notice, mail>>
          /\ IF Connection!Open(s)
             THEN
               /\ Connection!SetState(s, IF calls[c].at = "give up" THEN "connected" ELSE Connection!Presence[calls[c].at])
                  /\ Connection!Reply(c, 0)
             ELSE Connection!Reply(c, Failed) /\ UNCHANGED sessions
      BY <2>2, <1>c, <1>s DEF Connection!Execute
    <3>2. s \in DOMAIN sessions
      BY <1>2, <1>s, <2>2 DEF CallFits, Connection!WaitSteps
    <3>a. ~Noticing(calls[c].at) /\ calls[c].at # "join" /\ (calls[c].at # "listen" => Ending(calls[c].at))
          /\ (Ending(calls[c].at) => calls[c].at # "listen")
      BY <2>2 DEF Noticing, Ending
    <3>3. CASE Connection!Open(s)
      <4>1. PICK state \in {"connected", "listening", "processing"} :
                /\ sessions' = [sessions EXCEPT ![s].state = state]
                /\ state = "listening" => calls[c].at = "listen"
        <5>1. Connection!Presence["listen"] = "listening" /\ Connection!Presence["deliver"] = "processing"
                /\ Connection!Presence["expire"] = "connected"
          BY DEF Connection!Presence
        <5>2. sessions' = [sessions EXCEPT ![s].state = IF calls[c].at = "give up" THEN "connected" ELSE Connection!Presence[calls[c].at]]
          BY <3>1, <3>3 DEF Connection!SetState
        <5>3. CASE calls[c].at = "give up"
          BY <5>2, <5>3
        <5>4. CASE calls[c].at = "listen"
          BY <5>1, <5>2, <5>4
        <5>5. CASE calls[c].at = "deliver"
          BY <5>1, <5>2, <5>5
        <5>6. CASE calls[c].at = "expire"
          BY <5>1, <5>2, <5>6
        <5> QED BY <2>2, <5>3, <5>4, <5>5, <5>6
      <4>2. sessions' \in Seq(SessionRows) /\ Len(sessions') = Len(sessions) /\ DOMAIN sessions' = DOMAIN sessions
        BY <1>a, <2>b, <3>2, <4>1 DEF SessionRows
      <4>3. sessions'[s].state = state /\ sessions'[s].open
              /\ \A t \in DOMAIN sessions : t # s => sessions'[t] = sessions[t]
        BY <1>a, <2>b, <3>2, <3>3, <4>1 DEF SessionRows, Connection!Open
      <4>4. x \in CallStates /\ calls' = [calls EXCEPT ![c] = x] /\ SameCall(x, calls[c])
        BY <1>a, <2>0, <3>1, <3>3
      <4>5. CallFits(x, DOMAIN sessions', waiting)
        BY <2>f, <3>a, <4>2, <4>4
      <4>6. SessionsAfter(calls[c].at, s)
        BY <1>a, <2>b, <3>a, <4>1, <4>2, <4>3 DEF SessionsAfter
      <4> QED
        BY <1>a, <3>1, <4>4, <4>5, <4>6
    <3>4. CASE ~Connection!Open(s)
      <4>1. x \in CallStates /\ calls' = [calls EXCEPT ![c] = x] /\ SameCall(x, calls[c])
        BY <2>0, <3>1, <3>4
      <4>2. CallFits(x, DOMAIN sessions', waiting) /\ UNCHANGED sessions
        BY <2>f, <3>1, <3>4, <3>a, <4>1
      <4>3. sessions[s].state # "listening"
        <5>1. s # None => sessions[s].state = "offline"
          BY <2>b, <3>2, <3>4 DEF Connection!Open
        <5> QED BY <3>2, <5>1, <1>a, <1>n
      <4>4. SessionsAfter(calls[c].at, s)
        BY <2>c, <4>2, <4>3
      <4> QED
        BY <1>a, <3>1, <4>1, <4>2, <4>4
    <3> QED BY <3>3, <3>4
  <2>u. ASSUME UNCHANGED <<sessions, mail>>, notice' \in Connection!Revisions, ~Ending(calls[c].at), calls[c].at # "join",
               NEW r \in Connection!Revisions \cup {Failed}, Connection!Reply(c, r)
        PROVE  /\ x \in CallStates /\ calls' = [calls EXCEPT ![c] = x] /\ SameCall(x, calls[c])
               /\ notice' \in Connection!Revisions /\ mail' \in BOOLEAN
               /\ CallFits(x, DOMAIN sessions', waiting) /\ SessionsAfter(calls[c].at, s)
    <3>1. SessionsAfter(calls[c].at, s)
      BY <2>c, <2>u
    <3>2. x \in CallStates /\ calls' = [calls EXCEPT ![c] = x] /\ SameCall(x, calls[c]) /\ x.reply = r
      BY <2>0, <2>u
    <3>3. CallFits(x, DOMAIN sessions', waiting)
      BY <2>f, <2>u, <3>2 DEF Answered
    <3> QED BY <1>a, <2>u, <3>1, <3>2, <3>3
  <2>3. CASE calls[c].at = "claim"
    <3>1. calls' = [calls EXCEPT ![c].reply = IF Connection!Open(s) THEN 0 ELSE Failed, ![c].mail = mail]
            /\ UNCHANGED Connection!store
      BY <2>3, <1>c, <1>s DEF Connection!Execute
    <3>2. x = [calls[c] EXCEPT !.reply = IF Connection!Open(s) THEN 0 ELSE Failed, !.mail = mail]
            /\ calls' = [calls EXCEPT ![c] = x]
      BY <1>1, <1>2, <1>x, <3>1 DEF ConnectionInv, ConnectionTyped
    <3>3. x \in CallStates /\ SameCall(x, calls[c])
      BY <1>2, <1>a, <3>2 DEF CallStates, SameCall
    <3>a. ~Noticing(calls[c].at) /\ calls[c].at # "join" /\ ~Ending(calls[c].at)
      BY <2>3 DEF Noticing, Ending
    <3>4. CallFits(x, DOMAIN sessions', waiting)
      BY <2>f, <3>1, <3>3, <3>a DEF Connection!store
    <3>5. SessionsAfter(calls[c].at, s)
      BY <2>c, <3>1, <3>a DEF Connection!store
    <3> QED
      BY <1>a, <3>1, <3>2, <3>3, <3>4, <3>5 DEF Connection!store
  <2>4. CASE calls[c].at \in {"join notice", "look", "status"}
    <3>1. Connection!Reply(c, IF Connection!Open(s) THEN notice ELSE Failed) /\ UNCHANGED Connection!store
      BY <2>4, <1>c, <1>s DEF Connection!Execute
    <3>2. calls[c].at # "join" /\ ~Ending(calls[c].at)
      BY <2>4 DEF Ending
    <3>3. (IF Connection!Open(s) THEN notice ELSE Failed) \in Connection!Revisions \cup {Failed}
      BY <1>a
    <3> QED
      BY <1>a, <2>u, <3>1, <3>2, <3>3 DEF Connection!store
  <2>5. CASE calls[c].at = "pin"
    <3>1. /\ UNCHANGED <<sessions, mail>>
          /\ IF Connection!Open(s) /\ notice < MaxRevisions
             THEN notice' = notice + 1 /\ Connection!Reply(c, notice + 1)
             ELSE Connection!Reply(c, Failed) /\ UNCHANGED notice
      BY <2>5, <1>c, <1>s DEF Connection!Execute
    <3>0. notice < MaxRevisions => notice + 1 \in Connection!Revisions
      BY <1>a DEF Connection!Revisions, ConnectionConstants
    <3>2. PICK r \in Connection!Revisions \cup {Failed} : Connection!Reply(c, r)
      BY <3>0, <3>1
    <3>3. notice' \in Connection!Revisions
      BY <1>a, <3>0, <3>1
    <3>4. calls[c].at # "join" /\ ~Ending(calls[c].at)
      BY <2>5 DEF Ending
    <3> QED
      BY <2>u, <3>1, <3>2, <3>3, <3>4
  <2>6. CASE calls[c].at = "close session"
    <3>1. sessions' = [sessions EXCEPT ![s].open = FALSE, ![s].state = "offline"] /\ Connection!Reply(c, 0)
            /\ UNCHANGED <<notice, mail>>
      BY <2>6, <1>c, <1>s DEF Connection!Execute
    <3>2. s \in DOMAIN sessions
      <4>1. calls[c].session \in DOMAIN sessions
        BY Zenon, <1>2, <2>6 DEF CallFits
      <4> QED BY <4>1, <1>s
    <3>b. [sessions[s] EXCEPT !.open = FALSE, !.state = "offline"] \in SessionRows
      BY <2>b, <3>2 DEF SessionRows
    <3>e. sessions' = [sessions EXCEPT ![s] = [sessions[s] EXCEPT !.open = FALSE, !.state = "offline"]]
      BY <1>a, <3>1, <3>2
    <3>3. sessions' \in Seq(SessionRows) /\ Len(sessions') = Len(sessions) /\ DOMAIN sessions' = DOMAIN sessions
      <4>1. PICK r : r = [sessions[s] EXCEPT !.open = FALSE, !.state = "offline"]
        OBVIOUS
      <4> QED BY <1>a, <3>2, <3>e, <3>b, <4>1
    <3>4. sessions'[s].state = "offline" /\ \A t \in DOMAIN sessions : t # s => sessions'[t] = sessions[t]
      BY <1>a, <2>b, <3>1, <3>2 DEF SessionRows
    <3>5. x \in CallStates /\ calls' = [calls EXCEPT ![c] = x] /\ SameCall(x, calls[c])
      BY <1>a, <2>0, <3>1
    <3>a. ~Noticing(calls[c].at) /\ calls[c].at # "join" /\ ~Ending(calls[c].at)
      BY <2>6 DEF Noticing, Ending
    <3>6. CallFits(x, DOMAIN sessions', waiting)
      BY <2>f, <3>3, <3>5, <3>a
    <3>7. SessionsAfter(calls[c].at, s)
      BY <1>a, <2>b, <3>3, <3>4, <3>a DEF SessionsAfter
    <3> QED
      BY <1>a, <3>1, <3>5, <3>6, <3>7
  <2>7. CASE calls[c].at \in {"close"}
    <3>1. Connection!Reply(c, 0) /\ UNCHANGED Connection!store
      BY <2>7, <1>c, <1>s DEF Connection!Execute
    <3>2. calls[c].at # "join" /\ ~Ending(calls[c].at)
      BY <2>7 DEF Ending
    <3> QED
      BY <1>a, <2>u, <3>1, <3>2 DEF Connection!store
  <2> QED
    BY <1>1, <1>2, <2>1, <2>2, <2>3, <2>4, <2>5, <2>6, <2>7
       DEF CallStates, CallPlaces, Connection!WaitSteps, AwaitsReply
<1>b. calls' \in [Calls -> CallStates] /\ \A d \in Calls : d # c => calls'[d] = calls[d]
  BY <1>1, <1>4 DEF ConnectionTyped
<1>5. x.at = calls[c].at /\ x.session = calls[c].session /\ calls'[c] = x
  BY <1>4, <1>x DEF SameCall
<1>6. ConnectionTyped'
  <2>1. UNCHANGED <<joined, lastNotice, waiting, closed, told>> /\ DOMAIN sessions \subseteq DOMAIN sessions'
    BY <1>3, <1>4, <1>a DEF Connection!service, SessionsAfter
  <2>2. sessions' \in Seq(SessionRows) /\ Len(sessions') <= MaxSessions
    BY <1>4 DEF SessionsAfter
  <2> QED BY <2>1, <2>2, <1>1, <1>b, <1>4 DEF ConnectionTyped
<1>7. QueueOfPending'
  <2>1. \A i \in 1 .. Len(queue') : i + 1 \in 1 .. Len(queue)
    BY <1>1 DEF ConnectionTyped
  <2>2. \A i \in 1 .. Len(queue') : queue'[i] \in Calls
    BY <1>1
  <2>3. \A i \in 1 .. Len(queue') : calls'[queue'[i]] = calls[queue[i + 1]]
    BY <2>2, <1>1, <1>b
  <2>4. \A i, j \in 1 .. Len(queue') : queue'[i] = queue'[j] => i + 1 = j + 1
    BY <2>1, <1>1 DEF QueueOfPending
  <2>5. \A i \in 1 .. Len(queue') : AwaitsReply(calls[queue[i + 1]])
    BY <2>1 DEF QueueOfPending
  <2>6. (\A i \in 1 .. Len(queue') : AwaitsReply(calls'[queue'[i]]))
          /\ (\A i, j \in 1 .. Len(queue') : queue'[i] = queue'[j] => i = j)
    <3>1. \A i, j \in 1 .. Len(queue') : i + 1 = j + 1 => i = j
      OBVIOUS
    <3> QED BY <2>3, <2>4, <2>5, <3>1
  <2> QED BY <2>6 DEF QueueOfPending, AwaitsReply
<1>8. CallsFit'
  <2> SUFFICES ASSUME NEW d \in Calls PROVE CallFits(calls'[d], DOMAIN sessions', waiting')
    BY DEF CallsFit
  <2>1. DOMAIN sessions \subseteq DOMAIN sessions' /\ waiting' = waiting
    BY <1>3, <1>4, <1>a DEF SessionsAfter, Connection!service
  <2> QED
    BY <1>b, <1>4, <1>5, <2>1 DEF CallsFit, CallFits
<1>9. OneCallWaits'
  BY <1>b, <1>5 DEF OneCallWaits
<1>10. ClosedSessionIsOffline'
  BY <1>4 DEF ClosedSessionIsOffline, SessionsAfter
<1>11. ListensForWait'
  <2> SUFFICES ASSUME ~closed, NEW t \in DOMAIN sessions', sessions'[t].state = "listening"
               PROVE  \E d \in Calls : StillListens(calls'[d], t)
    BY <1>3 DEF ListensForWait
  <2>1. CASE calls[c].at = "listen" /\ t = s
    BY <1>1, <1>s, <1>5, <2>1 DEF StillListens, Connection!WaitSteps
  <2>2. CASE t \in DOMAIN sessions /\ sessions[t].state = "listening"
             /\ ~(Ending(calls[c].at) /\ t = s)
    <3>1. PICK d \in Calls : StillListens(calls[d], t)
      BY <2>2 DEF ListensForWait
    <3>2. CASE d = c
      BY <1>1, <1>s, <1>5, <2>2, <3>1, <3>2 DEF StillListens, Ending
    <3>3. CASE d # c
      BY <1>b, <3>1, <3>3
    <3> QED BY <3>2, <3>3
  <2> QED BY <1>4, <2>1, <2>2 DEF SessionsAfter
<1> QED BY <1>6, <1>7, <1>8, <1>9, <1>10, <1>11

\* A tool is called, whose first request is made at once.
Begins(c, x, where, a, s) ==
    /\ where \in {"join", "join notice", "status", "pin", "close session", "close", "listen"}
    /\ a \in Agents \cup {None} /\ s \in DOMAIN sessions \cup {None}
    /\ calls[c].at = "free" /\ Connection!Request(c, x) /\ x \in CallStates /\ x.at = where /\ x.agent = a
         /\ x.session = s
    /\ (where = "join" => a \in Agents) /\ (where \notin {"join", "close"} => s \in DOMAIN sessions)
    /\ (where = "listen" => ~waiting /\ waiting' = TRUE) /\ (where # "listen" => waiting' = waiting)
    /\ UNCHANGED <<joined, lastNotice, closed, Connection!store, told>>
LEMMA CallBegins ==
    ASSUME ConnectionConstants, ConnectionInv, NEW c \in Calls, NEW x, NEW where, NEW a, NEW s, Begins(c, x, where, a, s)
    PROVE  ConnectionInv'
<1>0. /\ joined \in DOMAIN sessions \cup {None} /\ lastNotice \in Connection!Revisions \cup {None}
           /\ DOMAIN sessions \subseteq Connection!Ids
      /\ waiting \in BOOLEAN /\ told \subseteq Connection!Revisions /\ 0 \in Connection!Revisions
           /\ 0 \in 0 .. MaxPolls
  BY DEF ConnectionInv, ConnectionTyped, ConnectionConstants, Connection!Revisions, Connection!Ids
<1> DEFINE y == [x EXCEPT !.reply = None]
<1>2. x \in CallStates /\ Connection!Request(c, x) /\ x.at = where /\ x.agent = a /\ x.session = s
  BY Zenon DEF Begins
<1>1. y.at = where /\ y.agent = a /\ y.session = s /\ y.reply = None
  BY <1>2 DEF CallStates
<1> HIDE DEF y
<1>4. UNCHANGED <<joined, lastNotice, closed, Connection!store, told>>
  BY Zenon DEF Begins
<1>5. CallFits(y, DOMAIN sessions', waiting')
  <2>1. DOMAIN sessions' = DOMAIN sessions
    BY <1>4 DEF Connection!store
  <2>2. CASE where = "join"
    BY Zenon, <1>1, <2>2 DEF Begins, CallFits, Connection!WaitSteps, Answered
  <2>3. CASE where = "close"
    BY Zenon, <1>1, <2>3 DEF Begins, CallFits, Connection!WaitSteps, Answered
  <2>4. CASE where \notin {"join", "close"}
    <3>1. s \in DOMAIN sessions'
      BY Zenon, <2>1, <2>4 DEF Begins
    <3>2. where \in Connection!WaitSteps => waiting'
      BY Zenon DEF Begins, Connection!WaitSteps
    <3> QED BY Zenon, <1>1, <2>4, <3>1, <3>2 DEF CallFits, Answered
  <2> QED BY <2>2, <2>3, <2>4
<1>6. calls[c].at \notin Connection!WaitSteps /\ ~AwaitsReply(calls[c]) /\ x.at \notin {"free", "pause"}
      /\ (x.at \in Connection!WaitSteps => ~waiting)
  BY Zenon, <1>2 DEF Begins, Connection!WaitSteps, AwaitsReply
<1>7. (waiting' = waiting \/ ~waiting) /\ waiting' \in BOOLEAN
  <2>1. (~waiting /\ waiting' = TRUE) \/ waiting' = waiting
    BY Zenon DEF Begins
  <2> QED BY <1>0, <2>1
<1>8. CallFits([x EXCEPT !.reply = None], DOMAIN sessions', waiting')
  BY <1>5 DEF y
<1>9. UNCHANGED <<Connection!store, closed>> /\ joined' \in DOMAIN sessions \cup {None}
        /\ lastNotice' \in Connection!Revisions \cup {None}
      /\ told' \subseteq Connection!Revisions
  BY <1>0, <1>4
<1> QED
  BY <1>2, <1>6, <1>7, <1>8, <1>9, RequestGoesOn

\* A tool is called.
LEMMA CallsBegin ==
    ASSUME ConnectionConstants, ConnectionInv, NEW c \in Calls,
           (\E a \in Agents : Connection!Join(c, a)) \/ Connection!Status(c) \/ Connection!Pin(c) \/ Connection!Close(c) \/ Connection!StartWait(c)
    PROVE  ConnectionInv'
<1>0. /\ joined \in DOMAIN sessions \cup {None} /\ lastNotice \in Connection!Revisions \cup {None}
           /\ DOMAIN sessions \subseteq Connection!Ids
      /\ waiting \in BOOLEAN /\ told \subseteq Connection!Revisions /\ 0 \in Connection!Revisions
           /\ 0 \in 0 .. MaxPolls
  BY DEF ConnectionInv, ConnectionTyped, ConnectionConstants, Connection!Revisions, Connection!Ids
<1>1. ASSUME NEW x, NEW where, NEW a, NEW s, Begins(c, x, where, a, s) PROVE ConnectionInv'
  BY <1>1, CallBegins
<1>f. /\ Connection!Free \in CallStates /\ Connection!Free.agent = None
      /\ \A where \in CallPlaces, s \in DOMAIN sessions \cup {None} :
            LET x == [Connection!Free EXCEPT !.at = where, !.session = s]
            IN x \in CallStates /\ x.at = where /\ x.agent = None /\ x.session = s
  <2>1. Connection!Free \in CallStates /\ Connection!Free.agent = None
    BY <1>0 DEF Connection!Free, CallStates, CallPlaces
  <2> HIDE DEF Connection!Free
  <2> QED BY <1>0, <2>1 DEF CallStates
<1> HIDE DEF Connection!Free
<1>p. \A where \in {"join", "join notice", "status", "pin", "close session", "close", "listen"} : where \in CallPlaces
  BY Zenon DEF CallPlaces, Connection!WaitSteps
<1>2. ASSUME NEW a \in Agents, Connection!Join(c, a) PROVE ConnectionInv'
  <2>1. calls[c].at = "free" /\ waiting' = waiting /\ UNCHANGED <<joined, lastNotice, closed, Connection!store, told>>
    BY <1>2 DEF Connection!Join, Connection!service
  <2>2. CASE joined = None
    <3> DEFINE x == [Connection!Free EXCEPT !.at = "join", !.agent = a]
    <3>1. Connection!Request(c, x)
      BY <1>2, <2>2 DEF Connection!Join
    <3>2. x.at = "join" /\ x.agent = a /\ x.session = Connection!Free.session /\ x \in CallStates
      BY <1>f DEF CallStates, CallPlaces
    <3>3. Connection!Free.session = None
      BY DEF Connection!Free
    <3> HIDE DEF x
    <3>4. Begins(c, x, "join", a, None)
      BY Zenon, <2>1, <3>1, <3>2, <3>3 DEF Begins
    <3> QED BY <1>1, <3>4
  <2>3. CASE joined # None
    <3> DEFINE x == [Connection!Free EXCEPT !.at = "join notice", !.session = joined]
    <3>1. Connection!Request(c, x)
      BY <1>2, <2>3 DEF Connection!Join
    <3>2. x \in CallStates /\ x.at = "join notice" /\ x.agent = None /\ x.session = joined
      BY Zenon, <1>0, <1>f, <1>p
    <3> HIDE DEF x
    <3>3. joined \in DOMAIN sessions
      BY <1>0, <2>3
    <3>4. Begins(c, x, "join notice", None, joined)
      BY Zenon, <2>1, <3>1, <3>2, <3>3 DEF Begins
    <3> QED BY <1>1, <3>4
  <2> QED BY <2>2, <2>3
<1>3. ASSUME NEW where \in {"status", "pin"}, Connection!Ask(c, where) PROVE ConnectionInv'
  <2> DEFINE x == [Connection!Free EXCEPT !.at = where, !.session = joined]
  <2>1. /\ calls[c].at = "free" /\ joined # None /\ waiting' = waiting
             /\ UNCHANGED <<joined, lastNotice, closed, Connection!store, told>>
        /\ Connection!Request(c, x)
    BY <1>3 DEF Connection!Ask, Connection!service
  <2>a. where \in CallPlaces
    BY Zenon, <1>3, <1>p
  <2>2. x \in CallStates /\ x.at = where /\ x.agent = None /\ x.session = joined
    BY Zenon, <1>0, <1>f, <2>a
  <2> HIDE DEF x
  <2>3. joined \in DOMAIN sessions
    BY <1>0, <2>1
  <2>4. where \notin {"listen", "join", "close"}
    BY <1>3
  <2>5. Begins(c, x, where, None, joined)
    BY Zenon, <1>3, <2>1, <2>2, <2>3, <2>4 DEF Begins
  <2> QED BY <1>1, <2>5
<1>4. CASE Connection!Close(c)
  <2>1. calls[c].at = "free" /\ waiting' = waiting /\ UNCHANGED <<joined, lastNotice, closed, Connection!store, told>>
    BY <1>4 DEF Connection!Close, Connection!service
  <2>2. CASE joined = None
    <3> DEFINE x == [Connection!Free EXCEPT !.at = "close", !.session = joined]
    <3>1. Connection!Request(c, x)
      BY <1>4, <2>2 DEF Connection!Close
    <3>2. x \in CallStates /\ x.at = "close" /\ x.agent = None /\ x.session = joined
      BY Zenon, <1>0, <1>f, <1>p
    <3> HIDE DEF x
    <3>4. Begins(c, x, "close", None, joined)
      BY Zenon, <1>0, <2>1, <3>1, <3>2 DEF Begins
    <3> QED BY <1>1, <3>4
  <2>3. CASE joined # None
    <3> DEFINE x == [Connection!Free EXCEPT !.at = "close session", !.session = joined]
    <3>1. Connection!Request(c, x)
      BY Zenon, <1>4, <2>3 DEF Connection!Close
    <3>2. x \in CallStates /\ x.at = "close session" /\ x.agent = None /\ x.session = joined
      BY Zenon, <1>0, <1>f, <1>p
    <3> HIDE DEF x
    <3>3. joined \in DOMAIN sessions
      BY <1>0, <2>3
    <3>4. Begins(c, x, "close session", None, joined)
      BY Zenon, <2>1, <3>1, <3>2, <3>3 DEF Begins
    <3> QED BY <1>1, <3>4
  <2> QED BY <2>2, <2>3
<1>5. CASE Connection!StartWait(c)
  <2> DEFINE x == [Connection!Free EXCEPT !.at = "listen", !.session = joined]
  <2>1. /\ calls[c].at = "free" /\ joined # None /\ ~waiting /\ waiting' = TRUE
        /\ UNCHANGED <<joined, lastNotice, closed, Connection!store, told>>
        /\ Connection!Request(c, x)
    BY <1>5 DEF Connection!StartWait
  <2>2. x \in CallStates /\ x.at = "listen" /\ x.agent = None /\ x.session = joined
    BY Zenon, <1>0, <1>f, <1>p
  <2> HIDE DEF x
  <2>3. joined \in DOMAIN sessions
    BY <1>0, <2>1
  <2>4. Begins(c, x, "listen", None, joined)
    BY Zenon, <2>1, <2>2, <2>3 DEF Begins
  <2> QED BY <1>1, <2>4
<1> QED BY <1>2, <1>3, <1>4, <1>5 DEF Connection!Status, Connection!Pin

\* The host cancels a call; the client is closed under what is pending; others act on the store.
LEMMA OthersAct ==
    ASSUME ConnectionConstants, ConnectionInv,
           \/ Connection!Disconnect \/ Connection!OtherPins \/ Connection!OtherSends \/ (\E s \in DOMAIN sessions : Connection!Superseded(s))
           \/ (\E c \in Calls : Connection!Cancel(c))
    PROVE  ConnectionInv'
<1> USE DEF ConnectionInv
<1>1. CASE Connection!Disconnect
  <2>1. closed' /\ queue' = <<>> /\ UNCHANGED <<joined, lastNotice, waiting, sessions, notice, mail, told>>
    BY <1>1 DEF Connection!Disconnect, Connection!service, Connection!store
  <2>2. \A d \in Calls : calls'[d] \in CallStates /\ SameCall(calls'[d], calls[d])
                         /\ (calls'[d].reply = calls[d].reply \/ calls'[d].reply = Failed)
    <3> SUFFICES ASSUME NEW d \in Calls
                 PROVE  calls'[d] \in CallStates /\ SameCall(calls'[d], calls[d])
                         /\ (calls'[d].reply = calls[d].reply \/ calls'[d].reply = Failed)
      OBVIOUS
    <3>1. calls[d] \in CallStates /\ (calls'[d] = calls[d] \/ calls'[d] = [calls[d] EXCEPT !.reply = Failed])
      BY <1>1 DEF Connection!Disconnect, ConnectionTyped
    <3> QED BY <3>1 DEF CallStates, SameCall
  <2>3. ASSUME NEW d \in Calls PROVE CallFits(calls'[d], DOMAIN sessions', waiting')
    <3>1. CallFits(calls[d], DOMAIN sessions, waiting)
      BY DEF CallsFit
    <3> QED BY Zenon, <2>1, <2>2, <3>1 DEF SameCall, CallFits, Answered
  <2>4. calls' = [d \in Calls |-> calls'[d]]
    BY <1>1 DEF Connection!Disconnect
  <2>5. ConnectionTyped'
    BY <2>1, <2>2, <2>4 DEF ConnectionTyped
  <2>6. QueueOfPending' /\ CallsFit' /\ ClosedSessionIsOffline' /\ ListensForWait'
    BY <2>1, <2>3 DEF QueueOfPending, CallsFit, ClosedSessionIsOffline, ListensForWait
  <2>7. OneCallWaits'
    BY <2>2 DEF OneCallWaits, SameCall
  <2> QED BY <2>5, <2>6, <2>7
<1>2. CASE Connection!OtherPins
  <2>1. notice' \in Connection!Revisions
          /\ UNCHANGED <<calls, queue, joined, lastNotice, waiting, closed, sessions, mail, told>>
    BY <1>2 DEF Connection!OtherPins, ConnectionTyped, Connection!Revisions, ConnectionConstants, Connection!service
  <2> QED BY <2>1 DEF ConnectionTyped, QueueOfPending, CallsFit, OneCallWaits, ClosedSessionIsOffline, ListensForWait
<1>3. CASE Connection!OtherSends
  <2>1. mail' \in BOOLEAN /\ UNCHANGED <<calls, queue, joined, lastNotice, waiting, closed, sessions, notice, told>>
    BY <1>3 DEF Connection!OtherSends, Connection!service
  <2> QED BY <2>1 DEF ConnectionTyped, QueueOfPending, CallsFit, OneCallWaits, ClosedSessionIsOffline, ListensForWait
<1>4. ASSUME NEW s \in DOMAIN sessions, Connection!Superseded(s) PROVE ConnectionInv'
  <2>1. /\ sessions' = [sessions EXCEPT ![s].open = FALSE, ![s].state = "offline"]
        /\ UNCHANGED <<calls, queue, joined, lastNotice, waiting, closed, notice, mail, told>>
    BY <1>4 DEF Connection!Superseded, Connection!service
  <2>2. sessions \in Seq(SessionRows) /\ DOMAIN sessions = 1 .. Len(sessions) /\ sessions[s] \in SessionRows
    BY DEF ConnectionTyped
  <2>r. [sessions[s] EXCEPT !.open = FALSE, !.state = "offline"] \in SessionRows
    BY <2>2 DEF SessionRows
  <2>e. sessions' = [sessions EXCEPT ![s] = [sessions[s] EXCEPT !.open = FALSE, !.state = "offline"]]
    BY <2>1, <2>2
  <2>3. sessions' \in Seq(SessionRows) /\ Len(sessions') = Len(sessions) /\ DOMAIN sessions' = DOMAIN sessions
    <3>1. PICK r : r = [sessions[s] EXCEPT !.open = FALSE, !.state = "offline"]
      OBVIOUS
    <3> HIDE DEF ConnectionInv
    <3> QED BY <2>2, <2>e, <2>r, <3>1
  <2>4. \A t \in DOMAIN sessions : IF t = s THEN sessions'[t].state = "offline" ELSE sessions'[t] = sessions[t]
    BY <2>1, <2>2 DEF SessionRows
  <2>5. ConnectionTyped'
    BY <2>1, <2>3 DEF ConnectionTyped
  <2>6. QueueOfPending' /\ CallsFit' /\ OneCallWaits'
    BY <2>1, <2>3 DEF QueueOfPending, CallsFit, OneCallWaits
  <2>7. ClosedSessionIsOffline' /\ ListensForWait'
    BY <2>1, <2>3, <2>4 DEF ClosedSessionIsOffline, ListensForWait
  <2> QED BY <2>5, <2>6, <2>7
<1>5. ASSUME NEW c \in Calls, Connection!Cancel(c) PROVE ConnectionInv'
  <2> DEFINE x == [calls[c] EXCEPT !.cancelled = TRUE]
  <2>1. /\ calls' = [calls EXCEPT ![c] = x] /\ queue' = queue
             /\ UNCHANGED <<Connection!store, closed, joined, lastNotice, waiting, told>>
        /\ calls[c] \in CallStates
    BY <1>5 DEF Connection!Cancel, Connection!service, ConnectionTyped
  <2>2. x \in CallStates /\ SameCall(x, calls[c]) /\ x.reply = calls[c].reply
    BY <2>1 DEF CallStates, SameCall
  <2> HIDE DEF x
  <2>3. CallFits(x, DOMAIN sessions', waiting')
    <3>1. CallFits(calls[c], DOMAIN sessions, waiting) /\ DOMAIN sessions' = DOMAIN sessions /\ waiting' = waiting
      BY <2>1 DEF CallsFit, Connection!store
    <3> QED BY Zenon, <2>2, <3>1 DEF SameCall, CallFits, Answered
  <2>4. AwaitsReply(calls[c]) => AwaitsReply(x)
    BY <2>2 DEF SameCall, AwaitsReply
  <2>5. x.at = calls[c].at /\ \A s : StillListens(calls[c], s) => StillListens(x, s)
    BY <2>2 DEF SameCall, StillListens
  <2>6. joined \in DOMAIN sessions \cup {None} /\ lastNotice \in Connection!Revisions \cup {None}
          /\ waiting \in BOOLEAN /\ told \subseteq Connection!Revisions
    BY DEF ConnectionTyped
  <2> HIDE DEF ConnectionInv
  <2> QED BY <2>1, <2>2, <2>3, <2>4, <2>5, <2>6, CallGoesOn
<1> QED BY <1>1, <1>2, <1>3, <1>4, <1>5

LEMMA ConnectionStarts == ASSUME ConnectionConstants, Connection!Init PROVE ConnectionInv
<1>1. Connection!Free \in CallStates /\ Connection!Free.at = "free"
  BY DEF Connection!Free, CallStates, CallPlaces, Connection!Revisions, ConnectionConstants
<1>2. calls = [c \in Calls |-> Connection!Free] /\ \A c \in Calls : calls[c] = Connection!Free
  BY DEF Connection!Init
<1>3. CallFits(Connection!Free, {}, FALSE) /\ Connection!Free.at \notin Connection!WaitSteps
  BY Zenon, <1>1 DEF CallFits, Connection!WaitSteps
<1> HIDE DEF Connection!Free
<1>4. DOMAIN sessions = {} /\ ~waiting /\ sessions = <<>> /\ sessions \in Seq(SessionRows) /\ Len(sessions) = 0
  BY DEF Connection!Init
<1>5. ConnectionTyped
  <2>1. calls \in [Calls -> CallStates]
    BY <1>1, <1>2
  <2>2. queue \in Seq(Calls) /\ Len(sessions) <= MaxSessions /\ 0 \in Connection!Revisions
    BY <1>4 DEF Connection!Init, Connection!Revisions, ConnectionConstants
  <2> QED
    BY <1>4, <2>1, <2>2 DEF Connection!Init, ConnectionTyped
<1>6. CallsFit
  BY <1>2, <1>3, <1>4 DEF CallsFit, CallFits
<1> QED
  BY <1>2, <1>3, <1>4, <1>5, <1>6
     DEF Connection!Init, ConnectionInv, QueueOfPending, OneCallWaits, ClosedSessionIsOffline, ListensForWait

LEMMA ConnectionGoesOn ==
    ASSUME ConnectionConstants, ConnectionInv, [Connection!Next]_(Connection!vars)
    PROVE  ConnectionInv'
<1>1. CASE UNCHANGED Connection!vars
  BY <1>1
     DEF Connection!vars, Connection!service, Connection!store, ConnectionInv, ConnectionTyped,
         QueueOfPending, CallsFit, OneCallWaits, ClosedSessionIsOffline, ListensForWait
<1>2. CASE Connection!Execute
  BY <1>2, WorkerAnswers
<1>3. CASE Connection!Disconnect \/ Connection!OtherPins \/ Connection!OtherSends \/ \E s \in DOMAIN sessions : Connection!Superseded(s)
  BY <1>3, OthersAct
<1>4. ASSUME NEW c \in Calls,
             \/ \E a \in Agents : Connection!Join(c, a)
             \/ Connection!Status(c) \/ Connection!Pin(c) \/ Connection!Close(c) \/ Connection!StartWait(c) \/ Connection!Cancel(c) \/ Connection!Continue(c)
      PROVE  ConnectionInv'
  BY <1>4, CallsBegin, OthersAct, CallsContinue
<1> QED BY <1>1, <1>2, <1>3, <1>4 DEF Connection!Next

\* The connection's Cardinality is that of FiniteSets.
LEMMA SameCardinality == \A S : Connection!Cardinality(S) = Cardinality(S)
BY Zenon DEF Connection!Cardinality, Cardinality

LEMMA ConnectionPromises ==
    ASSUME ConnectionConstants, ConnectionInv
    PROVE  Connection!TypeOK /\ Connection!OneWait /\ Connection!WakeableOnlyWhileWaiting
<1>1. Len(queue) \in Nat /\ queue \in [1 .. Len(queue) -> Calls]
  BY DEF ConnectionInv, ConnectionTyped
<1>2. queue \in Injection(1 .. Len(queue), Calls)
  BY <1>1 DEF ConnectionInv, QueueOfPending, Injection, IsInjective
<1>3. Cardinality(1 .. Len(queue)) <= Cardinality(Calls)
  BY <1>1, <1>2, FS_Injection DEF ConnectionConstants, ExistsInjection
<1>4. Len(queue) <= Cardinality(Calls)
  BY <1>1, <1>3, FS_Interval
<1>5. sessions \in Seq([agent : Agents, open : BOOLEAN, state : {"connected", "listening", "processing", "offline"}])
  BY DEF ConnectionInv, ConnectionTyped, SessionRows
<1>6. Connection!TypeOK
  <2>1. Len(queue) <= Connection!Cardinality(Calls)
    BY <1>4, SameCardinality
  <2> QED
    BY Zenon, <1>5, <2>1 DEF Connection!TypeOK, ConnectionInv, ConnectionTyped, CallStates, CallPlaces
<1>7. Connection!OneWait
  <2> DEFINE W == {c \in Calls : calls[c].at \in Connection!WaitSteps}
  <2>1. CASE W = {}
    <3>1. Cardinality(W) = 0
      BY <2>1, FS_EmptySet
    <3> QED BY <3>1, SameCardinality DEF Connection!OneWait
  <2>2. CASE W # {}
    <3>1. PICK c : c \in W
      BY <2>2
    <3>2. W = {c}
      BY <3>1 DEF ConnectionInv, OneCallWaits
    <3>3. Cardinality(W) = 1
      BY <3>2, FS_Singleton
    <3> QED BY <3>3, SameCardinality DEF Connection!OneWait
  <2> QED BY <2>1, <2>2
<1>8. Connection!WakeableOnlyWhileWaiting
  BY DEF Connection!WakeableOnlyWhileWaiting, ConnectionInv, ListensForWait, StillListens, CallsFit, CallFits
<1> QED BY <1>6, <1>7, <1>8

\* The waits of a connection come one at a time and leave no session listening,
\* for any number of calls, agents, sessions, revisions and polls.
THEOREM OneWaitAtATime ==
    ASSUME ConnectionConstants
    PROVE  Connection!Spec => []OneWaitListens
<1>1. ConnectionInv => OneWaitListens
  BY ConnectionPromises DEF OneWaitListens
<1> QED
  BY <1>1, ConnectionStarts, ConnectionGoesOn, PTL DEF Connection!Spec

-----------------------------------------------------------------------------
(* Agent: what the supervisor remembers of an agent's browser and policy.  *)

Agent == INSTANCE AgentContext

\* The context file keeps up with the selected browser, and taking it up never
\* ends a worker that drives one (supervisor/agent-context.ts).
ContextFollows ==
    /\ [](Agent!TypeOK /\ Agent!StoredFollows)
    /\ [][Agent!LiveBrowserStays]_(Agent!vars)

Contexts == [browser : Browsers \cup {None}, policy : Agent!Policies \cup {None}]
AgentHosts == [bound : BOOLEAN, browser : Browsers, policy : Agent!Policies,
          knownBrowser : BOOLEAN, knownPolicy : BOOLEAN,
          pendingBrowser : Browsers \cup {None}, pendingPolicy : Agent!Policies \cup {None},
          connected : BOOLEAN, human : BOOLEAN]
AgentWorkers == [browser : Browsers, policy : Agent!Policies, connected : BOOLEAN, handoff : BOOLEAN]
AgentStages == {"idle", "take", "retune", "persist", "ensure", "request", "note"}
AgentOps == [stage : AgentStages, command : Agent!Commands, browser : Browsers, policy : Agent!Policies]

\* None is no browser, no policy, no context file and no worker.
AgentConstants ==
    Default \in Browsers /\ None \notin Browsers \cup Agent!Policies \cup Contexts \cup AgentWorkers

AgentTyped ==
    /\ stored \in Contexts \cup {None} /\ host \in AgentHosts /\ worker \in AgentWorkers \cup {None}
    /\ private \in Browsers \cup {None} /\ op \in AgentOps

\* The file names the selected browser or the one it was read to be, and the
\* selected one when nothing is pending or a browser runs, which wins.
StoredIsNear == host.bound /\ host.knownBrowser =>
    /\ stored # None /\ stored.browser # None /\ stored.browser \in {host.browser, host.pendingBrowser}
    /\ host.pendingBrowser = None \/ Agent!Live => stored.browser = host.browser

\* A host that is not bound has read nothing, and a worker that drives a browser
\* has been reported to drive it. While an answer waits to be noted, or what was
\* pending to be written, the file may lag.
AgentInv ==
    /\ AgentTyped
    /\ ~host.bound => ~host.knownBrowser /\ host.pendingBrowser = None
    /\ host.pendingBrowser # None => host.knownBrowser
    /\ worker # None /\ worker.connected => host.connected
    /\ op.stage \notin {"persist", "note"} => StoredIsNear

LEMMA AgentInit == ASSUME AgentConstants, Agent!Init PROVE AgentInv
<1>1. AgentTyped
  BY DEF AgentConstants, Agent!Init, AgentTyped, Agent!FreshHost, AgentHosts, Agent!Idle, AgentOps, AgentStages, Agent!Commands, Agent!Policies
<1> QED BY <1>1 DEF Agent!Init, AgentInv, Agent!FreshHost, StoredIsNear, Agent!Idle

LEMMA AgentBinds == ASSUME AgentConstants, AgentInv, Agent!Bind PROVE AgentInv'
<1>1. /\ host \in AgentHosts /\ ~host.bound /\ ~host.knownBrowser /\ host.pendingBrowser = None
      /\ stored \in Contexts \cup {None} /\ UNCHANGED <<worker, private, op>>
  BY DEF AgentInv, AgentTyped, Agent!Bind
<1> DEFINE h == [host EXCEPT !.bound = TRUE]
           b == Agent!RestoredBrowser(h)
<1>2. h \in AgentHosts /\ h.bound /\ h.browser = host.browser /\ h.pendingBrowser = None /\ ~h.knownBrowser
      /\ h.connected = host.connected /\ h.human = host.human
  BY <1>1 DEF AgentHosts
<1>3. /\ b \in AgentHosts /\ b.bound /\ b.connected = host.connected /\ b.human = host.human
      /\ Agent!Live => b.knownBrowser /\ b.pendingBrowser = None /\ b.browser = host.browser
      /\ ~Agent!Live /\ b.knownBrowser =>
            /\ stored # None /\ stored.browser # None
            /\ b.pendingBrowser = None => b.browser = stored.browser
            /\ b.pendingBrowser # None => b.pendingBrowser = stored.browser
      /\ b.pendingBrowser # None => b.knownBrowser
  <2> HIDE DEF h
  <2>1. CASE Agent!Live
    BY <1>2, <2>1 DEF Agent!RestoredBrowser, AgentHosts
  <2>2. CASE ~Agent!Live /\ (stored = None \/ stored.browser = None)
    BY <1>2, <2>2 DEF Agent!RestoredBrowser
  <2>3. CASE ~Agent!Live /\ stored # None /\ stored.browser # None
    <3>1. stored.browser \in Browsers
      BY <1>1, <2>3 DEF Contexts
    <3> QED BY <1>2, <2>3, <3>1 DEF Agent!RestoredBrowser, AgentHosts, AgentConstants
  <2> QED BY <2>1, <2>2, <2>3
<1> HIDE DEF b
<1>4. host' = Agent!RestoredPolicy(b)
  BY DEF Agent!Bind, b, h
<1>5. /\ host' \in AgentHosts /\ host'.bound /\ host'.connected = host.connected /\ host'.human = host.human
      /\ host'.knownBrowser = b.knownBrowser /\ host'.browser = b.browser /\ host'.pendingBrowser = b.pendingBrowser
  <2>1. CASE b.knownPolicy \/ stored = None \/ stored.policy = None
    BY <1>3, <1>4, <2>1 DEF Agent!RestoredPolicy
  <2>2. CASE ~b.knownPolicy /\ stored # None /\ stored.policy # None
    <3>1. stored.policy \in Agent!Policies
      BY <1>1, <2>2 DEF Contexts
    <3>2. \/ host' = [b EXCEPT !.knownPolicy = TRUE, !.policy = stored.policy]
          \/ host' = [b EXCEPT !.knownPolicy = TRUE, !.pendingPolicy = stored.policy]
      BY <1>4, <2>2 DEF Agent!RestoredPolicy
    <3> QED BY <1>3, <3>1, <3>2 DEF AgentHosts
  <2> QED BY <2>1, <2>2
<1>6. CASE ~Agent!Live
  <2>1. stored' = stored
    BY <1>6 DEF Agent!Bind
  <2> QED BY <1>1, <1>3, <1>5, <1>6, <2>1 DEF AgentInv, AgentTyped, StoredIsNear, Agent!Live
<1>7. CASE Agent!Live
  <2>1. PICK p : /\ stored' = [browser |-> host.browser, policy |-> p]
                 /\ p = IF host'.pendingPolicy # None THEN host'.pendingPolicy ELSE Agent!Written(host').policy
    BY <1>7 DEF Agent!Bind
  <2>2. p \in Agent!Policies \cup {None} /\ host.browser \in Browsers
    BY <1>1, <1>5, <2>1 DEF AgentHosts, Agent!Written
  <2>3. stored' \in Contexts /\ stored' # None /\ stored'.browser = host.browser /\ stored'.browser # None
    BY <2>1, <2>2 DEF Contexts, AgentConstants
  <2> QED BY <1>1, <1>3, <1>5, <1>7, <2>3 DEF AgentInv, AgentTyped, StoredIsNear, Agent!Live
<1> QED BY <1>6, <1>7

\* A file that is written names the browser of the host that is known.
LEMMA WrittenNames ==
    ASSUME AgentConstants, NEW h \in AgentHosts, h.bound, h.knownBrowser
    PROVE  Agent!Persisted(h) \in Contexts /\ Agent!Persisted(h) # None /\ Agent!Persisted(h).browser = h.browser
             /\ Agent!Persisted(h).browser # None
<1>1. Agent!Persisted(h) = [browser |-> h.browser, policy |-> IF h.knownPolicy THEN h.policy ELSE None]
  BY DEF Agent!Persisted, Agent!Written
<1> QED BY <1>1 DEF Contexts, AgentHosts, AgentConstants
LEMMA WrittenIsTyped ==
    ASSUME AgentConstants, NEW h \in AgentHosts, stored \in Contexts \cup {None}
    PROVE  Agent!Persisted(h) \in Contexts \cup {None}
BY DEF Agent!Persisted, Agent!Written, Contexts, AgentHosts

LEMMA StageMoves ==
    ASSUME op \in AgentOps, NEW stage \in AgentStages, Agent!Go(stage)
    PROVE  op' \in AgentOps /\ op'.stage = stage
BY DEF Agent!Go, AgentOps

LEMMA AgentTakes == ASSUME AgentConstants, AgentInv, Agent!Take PROVE AgentInv'
<1>1. /\ host \in AgentHosts /\ op \in AgentOps /\ op.stage = "take" /\ StoredIsNear /\ UNCHANGED <<stored, private>>
      /\ stored \in Contexts \cup {None} /\ private \in Browsers \cup {None}
      /\ worker \in AgentWorkers \cup {None} /\ (worker # None /\ worker.connected => host.connected)
      /\ host.pendingBrowser # None => host.knownBrowser
      /\ ~host.bound => ~host.knownBrowser /\ host.pendingBrowser = None
  BY DEF AgentInv, AgentTyped, Agent!Take, Agent!At
<1> DEFINE product == IF Agent!Switches THEN host.pendingBrowser ELSE host.browser
           policy == IF host.pendingPolicy # None THEN host.pendingPolicy ELSE host.policy
           known == host.knownBrowser \/ (Agent!Live /\ host.pendingBrowser # None)
           changes == Agent!Switches /\ host.pendingBrowser # host.browser
           stage == IF worker # None /\ ~changes /\ host.pendingPolicy \notin {None, host.policy} THEN "retune"
                    ELSE IF host.pendingBrowser = None /\ host.pendingPolicy = None THEN "ensure"
                    ELSE "persist"
<1>2. host' = [host EXCEPT !.pendingBrowser = None, !.pendingPolicy = None, !.browser = product,
                           !.policy = policy, !.knownBrowser = known]
  BY DEF Agent!Take
<1>3. worker' = (IF changes THEN None ELSE worker) /\ Agent!Go(stage)
  BY DEF Agent!Take
<1>4. product \in Browsers /\ policy \in Agent!Policies /\ known = host.knownBrowser /\ known \in BOOLEAN
  BY <1>1 DEF Agent!Switches, AgentHosts
<1>5. /\ host' \in AgentHosts /\ host'.pendingBrowser = None /\ host'.browser = product /\ host'.knownBrowser = known
      /\ host'.bound = host.bound /\ host'.connected = host.connected /\ host'.human = host.human
  <2> HIDE DEF product, policy, known
  <2> QED BY <1>1, <1>2, <1>4 DEF AgentHosts
<1>6. stage \in AgentStages
  BY DEF AgentStages
<1>7. op' \in AgentOps /\ op'.stage = stage
  <2> HIDE DEF stage
  <2> QED BY <1>1, <1>3, <1>6, StageMoves
<1>8. worker' \in AgentWorkers \cup {None} /\ (worker' # None /\ worker'.connected => host.connected)
  BY <1>1, <1>3
<1>9. stage # "persist" => product = host.browser /\ (host.pendingBrowser # None => Agent!Live \/ host.pendingBrowser = host.browser)
  BY DEF Agent!Switches
<1> HIDE DEF product, policy, known, changes, stage
<1>10. stage # "persist" => StoredIsNear'
  BY <1>1, <1>4, <1>5, <1>9 DEF StoredIsNear
<1> QED BY <1>1, <1>4, <1>5, <1>7, <1>8, <1>10 DEF AgentInv, AgentTyped

LEMMA AgentPersists == ASSUME AgentConstants, AgentInv, Agent!Persist PROVE AgentInv'
<1>1. /\ op' \in AgentOps /\ op'.stage = "ensure" /\ UNCHANGED <<host, worker, private>>
      /\ stored' = Agent!Persisted(host)
  BY StageMoves DEF Agent!Persist, AgentInv, AgentTyped, AgentStages
<1>2. stored' \in Contexts \cup {None}
  BY <1>1, WrittenIsTyped DEF AgentInv, AgentTyped
<1>3. host.bound /\ host.knownBrowser => stored' # None /\ stored'.browser = host.browser /\ stored'.browser # None
  BY <1>1, WrittenNames DEF AgentInv, AgentTyped
<1>4. StoredIsNear'
  BY <1>1, <1>3 DEF StoredIsNear
<1> QED BY <1>1, <1>2, <1>4 DEF AgentInv, AgentTyped

LEMMA AgentNotes == ASSUME AgentConstants, AgentInv, Agent!Note PROVE AgentInv'
<1>1. op' \in AgentOps /\ op'.stage = "idle" /\ UNCHANGED <<worker, private>> /\ stored' = Agent!Persisted(host')
  BY DEF Agent!Note, Agent!Idle, AgentOps, AgentStages, Agent!Commands, Agent!Policies, AgentConstants
<1>2. /\ host' \in AgentHosts /\ host'.bound = host.bound /\ host'.browser = host.browser
      /\ host'.pendingBrowser = host.pendingBrowser /\ host'.connected = host.connected
      /\ (host.knownBrowser => host'.knownBrowser) /\ (~host.bound => host' = host)
  <2>1. CASE ~host.bound
    BY <2>1 DEF Agent!Note, AgentInv, AgentTyped
  <2>2. CASE host.bound
    <3> DEFINE kb == \/ host.knownBrowser \/ host.connected
                     \/ op.command \in Agent!Commands \ {"setPolicy", "policyStatus", "authStatus"}
               kp == host.knownPolicy \/ op.command = "setPolicy"
    <3>1. host' = [host EXCEPT !.knownBrowser = kb, !.knownPolicy = kp]
      BY <2>2 DEF Agent!Note
    <3>2. kb \in BOOLEAN /\ kp \in BOOLEAN /\ (host.knownBrowser => kb) /\ host \in AgentHosts
      BY DEF AgentInv, AgentTyped, AgentHosts
    <3> HIDE DEF kb, kp
    <3> QED BY <2>2, <3>1, <3>2 DEF AgentHosts
  <2> QED BY <2>1, <2>2
<1>3. stored' \in Contexts \cup {None}
  BY <1>1, <1>2, WrittenIsTyped DEF AgentInv, AgentTyped
<1>4. host'.bound /\ host'.knownBrowser => stored' # None /\ stored'.browser = host'.browser /\ stored'.browser # None
  BY <1>1, <1>2, WrittenNames
<1>5. StoredIsNear'
  BY <1>4 DEF StoredIsNear
<1> QED BY <1>1, <1>2, <1>3, <1>5 DEF AgentInv, AgentTyped

\* A request that fails leaves what the host knows, and
LEMMA RequestEnds ==
    ASSUME AgentConstants, AgentInv, op.stage \in {"request", "retune"}, UNCHANGED <<stored, host, private>>,
           NEW w \in AgentWorkers, w.connected => host.connected, worker' = w, op' = Agent!Idle
    PROVE  AgentInv'
<1>1. op' \in AgentOps /\ op'.stage = "idle"
  BY DEF Agent!Idle, AgentOps, AgentStages, Agent!Commands, Agent!Policies, AgentConstants
<1>2. StoredIsNear /\ StoredIsNear'
  BY DEF AgentInv, StoredIsNear, Agent!Live
<1> QED BY <1>1, <1>2 DEF AgentInv, AgentTyped

\* an answer is still to be noted.
LEMMA RequestIsAnswered ==
    ASSUME AgentConstants, AgentInv, op.stage = "request", UNCHANGED stored,
           private' \in Browsers \cup {None},
           NEW w \in AgentWorkers, NEW h \in AgentHosts, Agent!Answered(w, h), w.connected => h.connected,
           h.bound = host.bound, h.knownBrowser = host.knownBrowser, h.pendingBrowser = host.pendingBrowser
    PROVE  AgentInv'
<1>1. op' \in AgentOps /\ op'.stage = "note" /\ worker' = w /\ host' = h
  BY StageMoves DEF Agent!Answered, AgentInv, AgentTyped, AgentStages
<1> QED BY <1>1 DEF AgentInv, AgentTyped, AgentConstants

LEMMA Reports ==
    ASSUME host \in AgentHosts, NEW w \in AgentWorkers, NEW h \in {Agent!Report(w), Agent!AuthReport(w)}
    PROVE  /\ h \in AgentHosts /\ h.connected = w.connected
           /\ h.bound = host.bound /\ h.knownBrowser = host.knownBrowser /\ h.pendingBrowser = host.pendingBrowser
<1>1. /\ Agent!Report(w) \in AgentHosts /\ Agent!Report(w).connected = w.connected /\ Agent!Report(w).bound = host.bound
      /\ Agent!Report(w).knownBrowser = host.knownBrowser /\ Agent!Report(w).pendingBrowser = host.pendingBrowser
  BY DEF Agent!Report, AgentHosts, AgentWorkers
<1>2. CASE h = Agent!Report(w)
  BY <1>1, <1>2
<1>3. CASE h = Agent!AuthReport(w)
  <2>1. w.handoff \in BOOLEAN
    BY DEF AgentWorkers
  <2> QED BY <1>1, <1>3, <2>1 DEF Agent!AuthReport, AgentHosts
<1> QED BY <1>2, <1>3

LEMMA AgentStarts == ASSUME AgentConstants, AgentInv, Agent!Start PROVE AgentInv'
<1>1. /\ op.stage = "request" /\ worker \in AgentWorkers /\ host \in AgentHosts /\ op \in AgentOps
      /\ private \in Browsers \cup {None} /\ (worker.connected => host.connected)
      /\ UNCHANGED <<stored, private>>
  BY DEF Agent!Start, Agent!At, AgentInv, AgentTyped
<1> DEFINE aimed == IF op.command = "start" \/ op.browser = worker.browser THEN worker
                    ELSE [worker EXCEPT !.browser = op.browser, !.connected = FALSE]
           started == Agent!Started(aimed)
<1>2. aimed \in AgentWorkers /\ (aimed.connected => host.connected) /\ aimed.handoff = FALSE
  BY <1>1 DEF Agent!Start, Agent!Permitted, AgentWorkers, AgentOps
<1>3. \/ started.connected /\ Agent!Answered(started, Agent!Report(started))
      \/ ~aimed.connected /\ Agent!RequestFails(IF started.handoff THEN started ELSE aimed)
  BY DEF Agent!Start
<1> HIDE DEF aimed
<1>4. started \in AgentWorkers /\ started.connected \in BOOLEAN /\ (started.handoff => started.connected = aimed.connected \/ private # aimed.browser)
  BY <1>2 DEF Agent!Started, AgentWorkers
<1>5. CASE started.connected /\ Agent!Answered(started, Agent!Report(started))
  <2> HIDE DEF started
  <2>1. /\ Agent!Report(started) \in AgentHosts /\ Agent!Report(started).connected = started.connected
        /\ Agent!Report(started).bound = host.bound /\ Agent!Report(started).knownBrowser = host.knownBrowser
        /\ Agent!Report(started).pendingBrowser = host.pendingBrowser
    BY <1>1, <1>4, Reports
  <2> QED BY <1>1, <1>4, <1>5, <2>1, RequestIsAnswered
<1>6. CASE ~aimed.connected /\ Agent!RequestFails(IF started.handoff THEN started ELSE aimed)
  <2>1. PICK w \in AgentWorkers : Agent!RequestFails(w) /\ (w = aimed \/ (w = started /\ started.handoff))
    <3> HIDE DEF started
    <3> QED BY <1>2, <1>4, <1>6
  <2>3. w.connected => host.connected
    BY <1>2, <1>6, <2>1 DEF Agent!Started, AgentWorkers
  <2> QED BY <1>1, <2>1, <2>3, RequestEnds DEF Agent!RequestFails
<1> QED BY <1>3, <1>5, <1>6

LEMMA AgentAnswers == ASSUME AgentConstants, AgentInv, Agent!Simple PROVE AgentInv'
<1>1. /\ op.stage = "request" /\ worker \in AgentWorkers /\ host \in AgentHosts /\ op \in AgentOps
      /\ private \in Browsers \cup {None} /\ (worker.connected => host.connected)
      /\ UNCHANGED <<stored, private>>
  BY DEF Agent!Simple, Agent!At, AgentInv, AgentTyped
<1>2. CASE LET w == [worker EXCEPT !.connected = FALSE] IN Agent!Answered(w, Agent!Report(w))
  <2>1. PICK w \in AgentWorkers : Agent!Answered(w, Agent!Report(w))
    BY <1>1, <1>2 DEF AgentWorkers
  <2> QED BY <1>1, <2>1, Reports, RequestIsAnswered
<1>3. CASE Agent!Answered([worker EXCEPT !.policy = op.policy], [host EXCEPT !.policy = op.policy])
  <2>1. PICK w \in AgentWorkers, h \in AgentHosts :
          /\ Agent!Answered(w, h) /\ w.connected = worker.connected /\ h.connected = host.connected
          /\ h.bound = host.bound /\ h.knownBrowser = host.knownBrowser /\ h.pendingBrowser = host.pendingBrowser
    BY <1>1, <1>3 DEF AgentWorkers, AgentHosts, AgentOps
  <2> QED BY <1>1, <2>1, RequestIsAnswered
<1>4. CASE Agent!Answered(worker, [host EXCEPT !.policy = worker.policy])
  <2>1. PICK h \in AgentHosts :
          /\ Agent!Answered(worker, h) /\ h.connected = host.connected
          /\ h.bound = host.bound /\ h.knownBrowser = host.knownBrowser /\ h.pendingBrowser = host.pendingBrowser
    BY <1>1, <1>4 DEF AgentWorkers, AgentHosts
  <2> QED BY <1>1, <2>1, RequestIsAnswered
<1>5. CASE LET w == [worker EXCEPT !.handoff = ~worker.connected /\ private = worker.browser]
           IN Agent!Answered(w, Agent!AuthReport(w))
  <2>1. PICK w \in AgentWorkers : Agent!Answered(w, Agent!AuthReport(w))
    BY <1>1, <1>5 DEF AgentWorkers
  <2> QED BY <1>1, <2>1, Reports, RequestIsAnswered
<1> QED BY <1>2, <1>3, <1>4, <1>5 DEF Agent!Simple

LEMMA AgentHandsOver ==
    ASSUME AgentConstants, AgentInv, Agent!RequestLoginHandoff \/ Agent!ResumeAfterLogin
    PROVE  AgentInv'
<1>1. /\ op.stage = "request" /\ worker \in AgentWorkers /\ host \in AgentHosts /\ UNCHANGED stored
      /\ private' \in Browsers \cup {None}
  BY DEF Agent!RequestLoginHandoff, Agent!ResumeAfterLogin, Agent!At, AgentInv, AgentTyped, AgentWorkers
<1>2. PICK w \in AgentWorkers : Agent!Answered(w, Agent!AuthReport(w))
  BY <1>1 DEF Agent!RequestLoginHandoff, Agent!ResumeAfterLogin, AgentWorkers
<1> QED BY <1>1, <1>2, Reports, RequestIsAnswered

LEMMA AgentIsRefused ==
    ASSUME AgentConstants, AgentInv, Agent!Refused \/ Agent!Retune
    PROVE  AgentInv'
<1>1. /\ op.stage \in {"request", "retune"} /\ worker \in AgentWorkers /\ (worker.connected => host.connected)
      /\ UNCHANGED <<stored, host, private>> /\ host \in AgentHosts /\ op \in AgentOps
  BY DEF Agent!Refused, Agent!Retune, Agent!At, Agent!RequestFails, AgentInv, AgentTyped
<1>2. CASE worker' = worker /\ op' = Agent!Idle
  BY <1>1, <1>2, RequestEnds
<1>3. CASE Agent!Retune /\ worker' = [worker EXCEPT !.policy = host.policy] /\ Agent!Go("persist")
  <2>1. op' \in AgentOps /\ op'.stage = "persist"
    BY <1>1, <1>3, StageMoves DEF AgentStages
  <2>2. worker' \in AgentWorkers /\ worker'.connected = worker.connected
    BY <1>1, <1>3 DEF AgentWorkers, AgentHosts
  <2> QED BY <1>1, <2>1, <2>2 DEF AgentInv, AgentTyped
<1> QED BY <1>2, <1>3 DEF Agent!Refused, Agent!Retune, Agent!RequestFails

LEMMA AgentDies ==
    ASSUME AgentConstants, AgentInv, Agent!WorkerDies \/ Agent!HostRestarts
    PROVE  AgentInv'
<1>1. CASE Agent!HostRestarts
  <2>1. /\ host' = Agent!FreshHost /\ worker' = None /\ op' = Agent!Idle /\ UNCHANGED <<stored, private>>
    BY <1>1 DEF Agent!HostRestarts
  <2>2. host' \in AgentHosts /\ ~host'.bound /\ ~host'.knownBrowser /\ host'.pendingBrowser = None
    BY <2>1 DEF Agent!FreshHost, AgentHosts, AgentConstants, Agent!Policies
  <2>3. op' \in AgentOps
    BY <2>1 DEF Agent!Idle, AgentOps, AgentStages, Agent!Commands, Agent!Policies, AgentConstants
  <2> QED BY <2>1, <2>2, <2>3 DEF AgentInv, AgentTyped, StoredIsNear
<1>2. CASE Agent!WorkerDies
  <2>1. UNCHANGED <<stored, host, private>> /\ host \in AgentHosts
    BY <1>2 DEF Agent!WorkerDies, AgentInv, AgentTyped
  <2>2. CASE op.stage \in {"request", "retune"} /\ worker' = Agent!NewWorker /\ op' = Agent!Idle
    <3>1. Agent!NewWorker \in AgentWorkers /\ Agent!NewWorker.connected = FALSE
      BY <2>1 DEF Agent!NewWorker, AgentWorkers, AgentHosts
    <3> QED BY <2>1, <2>2, <3>1, RequestEnds
  <2>3. CASE worker' = None /\ op' = op
    BY <2>1, <2>3 DEF AgentInv, AgentTyped, StoredIsNear, Agent!Live
  <2> QED BY <1>2, <2>2, <2>3 DEF Agent!WorkerDies, Agent!At
<1> QED BY <1>1, <1>2

LEMMA AgentBegins ==
    ASSUME AgentConstants, AgentInv,
           \/ Agent!EnsureWorker
           \/ \E c \in Agent!Commands, b \in Browsers, p \in Agent!Policies : Agent!Begin(c, b, p)
    PROVE  AgentInv'
<1>1. CASE Agent!EnsureWorker
  <2>1. /\ UNCHANGED <<stored, host, private>> /\ op.stage = "ensure" /\ host \in AgentHosts
        /\ worker' = (IF worker = None THEN Agent!NewWorker ELSE worker)
    BY <1>1 DEF Agent!EnsureWorker, AgentInv, AgentTyped, Agent!At
  <2>2. op' \in AgentOps /\ op'.stage = "request"
    BY <1>1, StageMoves DEF Agent!EnsureWorker, AgentInv, AgentTyped, AgentStages
  <2>3. Agent!NewWorker \in AgentWorkers /\ Agent!NewWorker.connected = FALSE
    BY <2>1 DEF Agent!NewWorker, AgentWorkers, AgentHosts
  <2> QED BY <2>1, <2>2, <2>3 DEF AgentInv, AgentTyped, StoredIsNear, Agent!Live
<1>2. ASSUME NEW c \in Agent!Commands, NEW b \in Browsers, NEW p \in Agent!Policies, Agent!Begin(c, b, p) PROVE AgentInv'
  <2>1. /\ UNCHANGED <<stored, host, private, worker>> /\ op.stage = "idle"
        /\ op' \in AgentOps /\ op'.stage = "take"
    BY <1>2 DEF Agent!Begin, Agent!At, AgentOps, AgentStages
  <2> QED BY <2>1 DEF AgentInv, AgentTyped, StoredIsNear, Agent!Live
<1> QED BY <1>1, <1>2

LEMMA AgentNext == ASSUME AgentConstants, AgentInv, [Agent!Next]_(Agent!vars) PROVE AgentInv'
<1>1. CASE UNCHANGED Agent!vars
  BY <1>1 DEF Agent!vars, AgentInv, AgentTyped, StoredIsNear, Agent!Live
<1>2. CASE Agent!Next
  BY <1>2, AgentBinds, AgentTakes, AgentPersists, AgentNotes, AgentStarts, AgentAnswers, AgentHandsOver,
     AgentIsRefused, AgentDies, AgentBegins DEF Agent!Next
<1> QED BY <1>1, <1>2

LEMMA AgentSafe == ASSUME AgentConstants, AgentInv PROVE Agent!TypeOK /\ Agent!StoredFollows
<1>1. Agent!TypeOK
  BY DEF AgentInv, AgentTyped, Agent!TypeOK, Contexts, AgentHosts, AgentWorkers, AgentOps, AgentStages
<1>2. Agent!StoredFollows
  BY DEF AgentInv, Agent!StoredFollows, StoredIsNear, Agent!At
<1> QED BY <1>1, <1>2

LEMMA AgentKeepsWorker ==
    ASSUME AgentConstants, AgentInv, [Agent!Next]_(Agent!vars)
    PROVE  Agent!LiveBrowserStays
<1> SUFFICES ASSUME Agent!Take, worker # None, worker.connected, worker' = None PROVE FALSE
  BY DEF Agent!LiveBrowserStays
<1>1. host.connected
  BY DEF AgentInv
<1>2. worker' = worker
  BY <1>1 DEF Agent!Take, Agent!Switches, Agent!Live
<1> QED BY <1>2

\* The file follows the browser, for any browsers and number of operations.
THEOREM ContextsFollow ==
    ASSUME AgentConstants
    PROVE  Agent!Spec => ContextFollows
<1>1. AgentInv => Agent!TypeOK /\ Agent!StoredFollows
  BY AgentSafe
<1>2. AgentInv /\ [Agent!Next]_(Agent!vars) => [Agent!LiveBrowserStays]_(Agent!vars)
  BY AgentKeepsWorker
<1> QED
  BY <1>1, <1>2, AgentInit, AgentNext, PTL DEF Agent!Spec, ContextFollows

-----------------------------------------------------------------------------
(* Risk: selections of files that nobody saved, and the gate before them.   *)

Risk == INSTANCE PageRisk

\* No command leaves files behind that were selected since the last
\* acknowledgement this worker knows of, and a worker that attaches has told
\* of the documents replaced meanwhile (page-state-risk-manager.ts,
\* native-attach.ts).
UnsavedFilesAreTold ==
    /\ [](Risk!TypeOK /\ Risk!GateHolds)
    /\ [][Risk!ReplacementTold]_(Risk!vars)

Owings == {"no", "yes", "within", "replaced", "lost"}
RiskTabs == [doc : Nat, owed : Owings, told : BOOLEAN]
Selections == [rev : Nat, acked : Nat]
PageRisks == [target : Pages, document : Nat, ack : BOOLEAN]
RiskRecords == [target : Pages, document : Nat, risk : PageRisks \cup {None}]
RiskJobSteps == {"ids", "compute", "write"}
RiskJobs == [kind : {"risk", "selected"}, page : Pages, mine : BOOLEAN, pc : RiskJobSteps, rec : RiskRecords, doc : Nat]
RiskKinds == {"open", "click", "history", "files", "close", "select", "attach"}
RiskSteps == {"files", "note", "preflight", "navigate", "select", "reconcile", "end",
              "attach", "continuity", "selected", "ids", "restore", "stopped"}
RiskOps == [kind : RiskKinds, page : Pages \cup {None}, ack : BOOLEAN, pc : RiskSteps, doc : Nat,
            found : Pages \cup {None}, known : BOOLEAN]

\* None is no page, no selection, no risk, no command and no tab's pages are more than there are.
RiskConstants ==
    First \in Pages /\ None \notin Pages \cup Selections \cup PageRisks \cup RiskOps

RiskTyped ==
    /\ tab \in [Pages -> RiskTabs] /\ next \in Nat /\ active \in Pages \cup {None}
    /\ retained \in [Pages -> Selections \cup {None}]
    /\ record \in RiskRecords /\ disk \in RiskRecords /\ jobs \subseteq RiskJobs /\ op \in RiskOps \cup {None}
    /\ up \in BOOLEAN

\* What the agent owes a page that this worker knows of is not acknowledged.
OwedIsKnown == \A p \in Pages : tab[p].owed = "yes" => ~Risk!Permitted(retained[p])
GateIsShut == op # None /\ op.pc = "navigate" => op.page \in Pages /\ tab[op.page].owed # "yes"


CommandSteps == {"files", "note", "preflight", "navigate", "select", "reconcile", "end"}
AttachSteps == {"attach", "continuity", "selected", "ids", "restore", "end", "stopped"}
Attaching == op # None /\ op.kind = "attach"
OpIsPlaced == op # None =>
    IF op.kind = "attach" THEN op.pc \in AttachSteps ELSE op.pc \in CommandSteps /\ op.page \in Pages
WorkerIsGone == ~up => Attaching /\ jobs = {} /\ \A p \in Pages : retained[p] = None
NothingIsRestored == Attaching /\ op.pc # "end" => \A p \in Pages : retained[p] = None

\* A document nobody was told of is newer than what the record says, until
\* the worker that attaches has compared the two,
Behind(r) == \A p \in Pages : ~tab[p].told => r.document # tab[p].doc
NewerThanRecorded ==
    /\ ~up => Behind(disk)
    /\ Attaching => /\ op.pc = "attach" => ~up
                    /\ op.pc \notin {"attach", "stopped"} => up
                    /\ op.pc = "continuity" => Behind(record) /\ jobs = {}
\* and then it has told of it, if that is the page it found.
FoundIsTold ==
    Attaching /\ op.pc \notin {"attach", "stopped"} =>
        /\ op.found \in Risk!Open => active = op.found
        /\ op.pc # "continuity" /\ op.known /\ op.found \in Risk!Open => tab[op.found].told
DocumentsAreKnown ==
    /\ record.document < next /\ disk.document < next
    /\ \A p \in Pages : tab[p].doc < next
    /\ \A j \in jobs : j.rec.document < next /\ j.doc < next
SelectedIsOpen == active # None => active \in Pages /\ tab[active].doc # 0
AcknowledgedWas == \A p \in Pages : retained[p] # None => retained[p].acked <= retained[p].rev

RiskInv ==
    /\ RiskTyped /\ SelectedIsOpen /\ AcknowledgedWas /\ OwedIsKnown /\ GateIsShut
    /\ OpIsPlaced /\ WorkerIsGone /\ NothingIsRestored
    /\ NewerThanRecorded /\ FoundIsTold /\ DocumentsAreKnown

LEMMA RiskInit == ASSUME RiskConstants, Risk!Init PROVE RiskInv
<1>1. RiskTyped
  BY DEF RiskConstants, Risk!Init, RiskTyped, Risk!Clean, RiskTabs, Owings, RiskRecords
<1> QED BY <1>1 DEF RiskConstants, Risk!Init, Risk!Clean, RiskInv, SelectedIsOpen, AcknowledgedWas, OwedIsKnown, GateIsShut,
      OpIsPlaced, WorkerIsGone, NothingIsRestored, NewerThanRecorded, FoundIsTold, DocumentsAreKnown, Attaching

-----------------------------------------------------------------------------
\* The writes: each is of documents that are known, and there is none while a
\* worker attaches and compares, or is gone.
LEMMA WritesGoOn ==
    ASSUME RiskConstants, RiskInv, jobs # {}, UNCHANGED <<tab, next, active, retained, op, up>>,
           jobs' \subseteq RiskJobs, \A j \in jobs' : j.rec.document < next /\ j.doc < next,
           record' \in RiskRecords, disk' \in RiskRecords, record'.document < next, disk'.document < next
    PROVE  RiskInv'
<1>1. RiskTyped' /\ DocumentsAreKnown'
  BY DEF RiskInv, RiskTyped, DocumentsAreKnown
<1>2. up /\ (Attaching => op.pc # "continuity")
  BY DEF RiskInv, WorkerIsGone, NewerThanRecorded
<1> QED BY <1>1, <1>2 DEF RiskInv, SelectedIsOpen, AcknowledgedWas, OwedIsKnown, GateIsShut, OpIsPlaced,
      WorkerIsGone, NothingIsRestored, NewerThanRecorded, FoundIsTold, Attaching, Risk!Open

LEMMA RisksAreTyped ==
    ASSUME RiskConstants, RiskInv, NEW j \in jobs
    PROVE  /\ Risk!RiskRecord(j) \in RiskRecords /\ Risk!SelectedRecord(j) \in RiskRecords
           /\ Risk!RiskRecord(j).document < next /\ Risk!SelectedRecord(j).document < next
<1>1. j \in RiskJobs /\ j.page \in Pages /\ j.doc \in Nat /\ j.rec \in RiskRecords /\ j.rec.document \in Nat
      /\ j.doc < next /\ j.rec.document < next
  BY DEF RiskInv, RiskTyped, RiskJobs, RiskRecords, DocumentsAreKnown
<1>2. Risk!Risk(j.page) # None => Risk!Risk(j.page).ack \in BOOLEAN
  BY DEF Risk!Risk
<1>3. [target |-> j.page, document |-> j.doc, ack |-> Risk!Risk(j.page).ack] \in PageRisks \/ Risk!Risk(j.page) = None
  BY <1>1, <1>2 DEF PageRisks
<1>4. Risk!RiskRecord(j) \in RiskRecords /\ Risk!RiskRecord(j).document = j.doc
  BY <1>1, <1>3 DEF Risk!RiskRecord, RiskRecords
<1>5. Risk!SelectedRecord(j) \in RiskRecords /\ Risk!SelectedRecord(j).document \in {j.doc, j.rec.document}
  BY <1>1 DEF Risk!SelectedRecord, RiskRecords
<1> QED BY <1>1, <1>4, <1>5

LEMMA RiskWrites ==
    ASSUME RiskConstants, RiskInv, Risk!JobIds \/ Risk!JobCompute \/ Risk!JobWrite
    PROVE  RiskInv'
<1>1. /\ record \in RiskRecords /\ disk \in RiskRecords /\ record.document < next /\ disk.document < next
      /\ jobs \subseteq RiskJobs /\ \A j \in jobs : j.rec.document < next /\ j.doc < next
  BY DEF RiskInv, RiskTyped, DocumentsAreKnown
<1>2. CASE Risk!JobIds
  <2>1. /\ UNCHANGED <<tab, next, active, retained, op, up, record, disk>>
    BY <1>2 DEF Risk!JobIds
  <2>2. PICK j \in jobs : \/ jobs' = jobs \ {j}
                          \/ \E shown \in {tab[j.page].doc, 0} :
                                jobs' = (jobs \ {j}) \cup {[j EXCEPT !.pc = "compute", !.doc = shown]}
    BY <1>2 DEF Risk!JobIds, Risk!Become
  <2>3. j \in RiskJobs /\ tab[j.page].doc \in Nat /\ tab[j.page].doc < next /\ next \in Nat
    BY <1>1 DEF RiskJobs, RiskInv, RiskTyped, RiskTabs, DocumentsAreKnown
  <2>4. \A shown \in {tab[j.page].doc, 0} : LET i == [j EXCEPT !.pc = "compute", !.doc = shown] IN
          i \in RiskJobs /\ i.rec.document < next /\ i.doc < next
    <3> TAKE shown \in {tab[j.page].doc, 0}
    <3> DEFINE i == [j EXCEPT !.pc = "compute", !.doc = shown]
    <3>1. shown \in Nat /\ shown < next
      BY <2>3
    <3>2. i \in RiskJobs /\ i.rec = j.rec /\ i.doc = shown
      BY <2>3, <3>1 DEF RiskJobs, RiskJobSteps
    <3> QED BY <1>1, <3>1, <3>2
  <2> QED BY <1>1, <2>1, <2>2, <2>4, WritesGoOn
<1>3. CASE Risk!JobCompute
  <2>1. /\ UNCHANGED <<tab, next, active, retained, op, up, record, disk>>
    BY <1>3 DEF Risk!JobCompute
  <2>2. PICK j \in jobs : \E rec \in {Risk!RiskRecord(j), Risk!SelectedRecord(j)} :
            jobs' = (jobs \ {j}) \cup {[j EXCEPT !.pc = "write", !.rec = rec]}
    BY <1>3 DEF Risk!JobCompute, Risk!Become
  <2>6. PICK rec \in {Risk!RiskRecord(j), Risk!SelectedRecord(j)} :
            jobs' = (jobs \ {j}) \cup {[j EXCEPT !.pc = "write", !.rec = rec]}
    BY <2>2
  <2>3. rec \in RiskRecords /\ rec.document < next
    BY RisksAreTyped
  <2>4. [j EXCEPT !.pc = "write", !.rec = rec] \in RiskJobs
    BY <1>1, <2>3 DEF RiskJobs, RiskJobSteps
  <2>5. [j EXCEPT !.pc = "write", !.rec = rec].rec = rec /\ [j EXCEPT !.pc = "write", !.rec = rec].doc = j.doc
    BY <1>1 DEF RiskJobs
  <2> QED BY <1>1, <2>1, <2>6, <2>3, <2>4, <2>5, WritesGoOn
<1>4. CASE Risk!JobWrite
  <2>1. /\ UNCHANGED <<tab, next, active, retained, op, up>>
    BY <1>4 DEF Risk!JobWrite
  <2>2. PICK j \in jobs : /\ jobs' = jobs \ {j}
                          /\ record' \in {record, j.rec} /\ disk' \in {disk, j.rec}
    BY <1>4 DEF Risk!JobWrite, Risk!Become
  <2>3. j.rec \in RiskRecords /\ j.rec.document < next
    BY <1>1 DEF RiskJobs
  <2> QED BY <1>1, <2>1, <2>2, <2>3, WritesGoOn
<1> QED BY <1>2, <1>3, <1>4

\* A new write is of what the record says now.
LEMMA NewWrites ==
    ASSUME RiskConstants, RiskInv, NEW p \in Pages, NEW mine \in BOOLEAN, NEW kind \in {"risk", "selected"}
    PROVE  /\ Risk!Job(kind, p, mine) \subseteq RiskJobs
           /\ \A j \in Risk!Job(kind, p, mine) : j.rec.document < next /\ j.doc < next
<1>1. record \in RiskRecords /\ record.document < next /\ next \in Nat /\ record.document \in Nat
  BY DEF RiskInv, RiskTyped, DocumentsAreKnown, RiskRecords
<1> QED BY <1>1 DEF Risk!Job, RiskJobs, RiskJobSteps

-----------------------------------------------------------------------------
\* What the page does, beside a command or in one that goes on.
OpGoesOn ==
    \/ op' = op
    \/ op # None /\ op' # None /\ op' \in RiskOps /\ op'.kind # "attach" /\ op'.page \in Pages
         /\ op.kind # "attach" /\ op'.pc \in CommandSteps \ {"navigate"}

\* Another document in a tab: a new one, known or not; the worker keeps up while it is there.
LEMMA TabsAreRenewed ==
    ASSUME RiskConstants, RiskInv, NEW p \in Pages, UNCHANGED <<record, disk, up, active>>, OpGoesOn,
           tab[p].doc # 0, tab' = Risk!Renewed(p), next' = next + 1,
           \/ UNCHANGED <<retained, jobs>> /\ ~up
           \/ /\ up /\ retained' = [retained EXCEPT ![p] = None]
              /\ jobs' = jobs \cup (IF retained[p] = None THEN {} ELSE Risk!Job("risk", p, FALSE))
    PROVE  RiskInv'
<1>1. /\ tab \in [Pages -> RiskTabs] /\ next \in Nat /\ up \in BOOLEAN /\ jobs \subseteq RiskJobs
      /\ retained \in [Pages -> Selections \cup {None}] /\ op' \in RiskOps \cup {None}
      /\ \A q \in Pages : tab[q].doc < next /\ tab[q].doc \in Nat
      /\ record \in RiskRecords /\ disk \in RiskRecords /\ record.document \in Nat /\ disk.document \in Nat
      /\ record.document < next /\ disk.document < next
  BY DEF RiskInv, RiskTyped, DocumentsAreKnown, RiskTabs, OpGoesOn, RiskRecords
<1>2. /\ tab' \in [Pages -> RiskTabs] /\ tab'[p].doc = next /\ tab'[p].owed = "no" /\ tab'[p].told = up
      /\ \A q \in Pages \ {p} : tab'[q] = tab[q]
  BY <1>1 DEF Risk!Renewed, RiskTabs, Owings
<1>3. /\ retained' \in [Pages -> Selections \cup {None}] /\ (retained'[p] = None)
      /\ \A q \in Pages \ {p} : retained'[q] = retained[q]
  BY <1>1 DEF RiskInv, WorkerIsGone
<1>4. jobs' \subseteq RiskJobs /\ \A j \in jobs' : j.rec.document < next' /\ j.doc < next'
  <2>1. \A j \in jobs : j.rec.document < next /\ j.doc < next /\ j.rec.document \in Nat /\ j.doc \in Nat
    BY <1>1 DEF RiskInv, DocumentsAreKnown, RiskJobs, RiskRecords
  <2>2. /\ Risk!Job("risk", p, FALSE) \subseteq RiskJobs
        /\ \A j \in Risk!Job("risk", p, FALSE) : j.rec.document < next /\ j.doc < next /\ j.rec.document \in Nat /\ j.doc \in Nat
    BY NewWrites DEF RiskJobs, RiskRecords
  <2> DEFINE new == Risk!Job("risk", p, FALSE)
  <2> HIDE DEF new
  <2>3. /\ \A n \in Nat : n < next => n < next'
        /\ jobs' \subseteq jobs \cup new
    <3>1. next' = next + 1 /\ next \in Nat
      BY <1>1
    <3>2. jobs' = jobs \/ jobs' = jobs \cup new
      BY DEF new
    <3> QED BY <3>1, <3>2
  <2>4. \A j \in new : j.rec.document < next' /\ j.doc < next'
    BY <2>2, <2>3 DEF new
  <2>5. \A j \in jobs : j.rec.document < next' /\ j.doc < next'
    BY <2>1, <2>3
  <2>6. new \subseteq RiskJobs
    BY <2>2 DEF new
  <2> QED BY <1>1, <2>3, <2>4, <2>5, <2>6
<1>5. /\ ~up => jobs' = jobs
      /\ Attaching /\ op.pc = "continuity" => jobs' = jobs
  BY <1>1 DEF RiskInv, NothingIsRestored
<1>6. RiskTyped' /\ DocumentsAreKnown'
  BY <1>1, <1>2, <1>3, <1>4 DEF RiskTyped, DocumentsAreKnown, RiskInv
<1>7. SelectedIsOpen' /\ AcknowledgedWas' /\ OwedIsKnown'
  BY <1>1, <1>2, <1>3 DEF RiskInv, SelectedIsOpen, AcknowledgedWas, OwedIsKnown, Risk!Permitted
<1>8. GateIsShut' /\ OpIsPlaced'
  BY <1>2 DEF RiskInv, GateIsShut, OpIsPlaced, OpGoesOn
<1>9. Attaching' => op' = op /\ Attaching
  BY DEF OpGoesOn, Attaching
<1>10. Attaching => op' = op
  BY DEF OpGoesOn, Attaching
<1>11. WorkerIsGone' /\ NothingIsRestored'
  BY <1>3, <1>5, <1>9, <1>10 DEF RiskInv, WorkerIsGone, NothingIsRestored, Attaching
<1>12. NewerThanRecorded'
  <2>1. ~up' => Behind(disk)'
    BY <1>1, <1>2 DEF RiskInv, NewerThanRecorded, Behind
  <2>2. Attaching' /\ op'.pc = "continuity" => Behind(record)'
    BY <1>1, <1>2, <1>9 DEF RiskInv, NewerThanRecorded, Behind
  <2> QED BY <1>5, <1>9, <2>1, <2>2 DEF RiskInv, NewerThanRecorded
<1>13. Risk!Open' = Risk!Open
  BY <1>1, <1>2 DEF Risk!Open
<1>14. FoundIsTold'
  BY <1>1, <1>2, <1>9, <1>13 DEF RiskInv, FoundIsTold, NewerThanRecorded, Risk!Open
<1> QED BY <1>6, <1>7, <1>8, <1>11, <1>12, <1>14 DEF RiskInv

\* A page that moves within its document.
LEMMA TabsMoveWithin ==
    ASSUME RiskConstants, RiskInv, NEW p \in Pages, UNCHANGED <<record, disk, up, active, next>>, OpGoesOn, up,
           tab' = [tab EXCEPT ![p].owed = IF @ = "yes" THEN "within" ELSE @],
           retained' = [retained EXCEPT ![p] = None],
           jobs' = jobs \cup (IF retained[p] = None THEN {} ELSE Risk!Job("risk", p, FALSE))
    PROVE  RiskInv'
<1>1. /\ tab \in [Pages -> RiskTabs] /\ jobs \subseteq RiskJobs /\ op' \in RiskOps \cup {None}
      /\ retained \in [Pages -> Selections \cup {None}]
  BY DEF RiskInv, RiskTyped, OpGoesOn
<1>2. /\ tab' \in [Pages -> RiskTabs] /\ tab'[p].owed # "yes"
      /\ \A q \in Pages : tab'[q].doc = tab[q].doc /\ tab'[q].told = tab[q].told
      /\ \A q \in Pages \ {p} : tab'[q] = tab[q]
  BY <1>1 DEF RiskTabs, Owings
<1>3. /\ retained' \in [Pages -> Selections \cup {None}] /\ (retained'[p] = None)
      /\ \A q \in Pages \ {p} : retained'[q] = retained[q]
  BY <1>1
<1>4. jobs' \subseteq RiskJobs /\ \A j \in jobs' : j.rec.document < next' /\ j.doc < next'
  BY <1>1, NewWrites DEF RiskInv, DocumentsAreKnown
<1>5. Attaching /\ op.pc = "continuity" => jobs' = jobs
  BY <1>1 DEF RiskInv, NothingIsRestored
<1>6. RiskTyped' /\ DocumentsAreKnown'
  BY <1>1, <1>2, <1>3, <1>4 DEF RiskTyped, DocumentsAreKnown, RiskInv
<1>7. SelectedIsOpen' /\ AcknowledgedWas' /\ OwedIsKnown'
  BY <1>1, <1>2, <1>3 DEF RiskInv, SelectedIsOpen, AcknowledgedWas, OwedIsKnown, Risk!Permitted
<1>8. GateIsShut' /\ OpIsPlaced'
  BY <1>2 DEF RiskInv, GateIsShut, OpIsPlaced, OpGoesOn
<1>9. Attaching' => op' = op /\ Attaching
  BY DEF OpGoesOn, Attaching
<1>11. WorkerIsGone' /\ NothingIsRestored'
  BY <1>3, <1>5, <1>9 DEF RiskInv, WorkerIsGone, NothingIsRestored, Attaching
<1>12. NewerThanRecorded'
  BY <1>2, <1>5, <1>9 DEF RiskInv, NewerThanRecorded, Behind
<1>13. Risk!Open' = Risk!Open
  BY <1>1, <1>2 DEF Risk!Open
<1>14. FoundIsTold'
  BY <1>1, <1>2, <1>9, <1>13 DEF RiskInv, FoundIsTold, Risk!Open
<1> QED BY <1>6, <1>7, <1>8, <1>11, <1>12, <1>14 DEF RiskInv

LEMMA SameRiskCardinality == \A S : Risk!Cardinality(S) = Cardinality(S)
BY Zenon DEF Risk!Cardinality, Cardinality

\* A page that is closed: the only one left is selected, or none.
LEMMA LostPages ==
    ASSUME RiskConstants, RiskInv, NEW p \in Pages
    PROVE  /\ Risk!Lost(p) # None => Risk!Lost(p) \in Risk!Open \ {p}
           /\ active # p => Risk!Lost(p) = active
<1>1. CASE active # p
  BY <1>1 DEF Risk!Lost, RiskInv, SelectedIsOpen, Risk!Open
<1>2. CASE active = p
  <2>1. Risk!Cardinality(Risk!Open \ {p}) = 1 => Risk!Open \ {p} # {}
    BY FS_EmptySet, SameRiskCardinality
  <2> QED BY <1>2, <2>1 DEF Risk!Lost
<1> QED BY <1>1, <1>2
LEMMA TabsAreClosed ==
    ASSUME RiskConstants, RiskInv, NEW p \in Pages, UNCHANGED <<record, disk, up>>, OpGoesOn, Risk!Closed(p)
    PROVE  RiskInv'
<1>1. /\ tab \in [Pages -> RiskTabs] /\ op' \in RiskOps \cup {None} /\ UNCHANGED <<next, jobs>>
      /\ retained \in [Pages -> Selections \cup {None}] /\ active' = Risk!Lost(p)
      /\ retained' = [retained EXCEPT ![p] = None]
      /\ tab' = [tab EXCEPT ![p] = [doc |-> 0, owed |-> "no", told |-> TRUE]]
      /\ \A q \in Pages : tab[q].doc < next /\ tab[q].doc \in Nat
  BY DEF RiskInv, RiskTyped, OpGoesOn, Risk!Closed, DocumentsAreKnown, RiskTabs
<1>2. /\ tab' \in [Pages -> RiskTabs] /\ tab'[p] = [doc |-> 0, owed |-> "no", told |-> TRUE]
      /\ \A q \in Pages \ {p} : tab'[q] = tab[q]
  BY <1>1 DEF RiskTabs, Owings
<1>3. /\ retained' \in [Pages -> Selections \cup {None}] /\ (retained'[p] = None)
      /\ \A q \in Pages \ {p} : retained'[q] = retained[q]
  BY <1>1
<1>4. active' # None => active' \in Risk!Open \ {p}
  BY <1>1, LostPages
<1>5. Risk!Open' = Risk!Open \ {p}
  BY <1>1, <1>2 DEF Risk!Open
<1>6. RiskTyped' /\ DocumentsAreKnown'
  <2>1. next > 0
    BY <1>1 DEF RiskInv, RiskTyped
  <2> QED BY <1>1, <1>2, <1>3, <1>4, <2>1 DEF RiskTyped, DocumentsAreKnown, RiskInv, Risk!Open
<1>7. SelectedIsOpen' /\ AcknowledgedWas' /\ OwedIsKnown'
  BY <1>1, <1>2, <1>3, <1>4 DEF RiskInv, SelectedIsOpen, AcknowledgedWas, OwedIsKnown, Risk!Permitted, Risk!Open
<1>8. GateIsShut' /\ OpIsPlaced'
  BY <1>2 DEF RiskInv, GateIsShut, OpIsPlaced, OpGoesOn
<1>9. Attaching' => op' = op /\ Attaching
  BY DEF OpGoesOn, Attaching
<1>10. Attaching => op' = op
  BY DEF OpGoesOn, Attaching
<1>11. WorkerIsGone' /\ NothingIsRestored'
  BY <1>1, <1>3, <1>9, <1>10 DEF RiskInv, WorkerIsGone, NothingIsRestored, Attaching
<1>12. NewerThanRecorded'
  BY <1>1, <1>2, <1>9 DEF RiskInv, NewerThanRecorded, Behind
<1>14. FoundIsTold'
  <2> SUFFICES ASSUME Attaching', op'.pc \notin {"attach", "stopped"}, op'.found \in Risk!Open'
      PROVE active' = op'.found /\ (op'.pc # "continuity" /\ op'.known => tab'[op'.found].told)
    BY DEF FoundIsTold
  <2>1. op' = op /\ Attaching /\ op.found \in Risk!Open /\ op.found # p
    BY <1>5, <1>9
  <2>2. active = op.found /\ (op.pc # "continuity" /\ op.known => tab[op.found].told)
    BY <2>1 DEF RiskInv, FoundIsTold
  <2>3. active' = active
    BY <1>1, <2>1, <2>2, LostPages
  <2> QED BY <1>2, <2>1, <2>2, <2>3 DEF Risk!Open
<1> QED BY <1>6, <1>7, <1>8, <1>11, <1>12, <1>14 DEF RiskInv

LEMMA RiskMoves ==
    ASSUME RiskConstants, RiskInv, Risk!PageNavigates \/ Risk!PageCloses
    PROVE  RiskInv'
<1>1. OpGoesOn /\ UNCHANGED <<record, disk, up>>
  BY DEF Risk!PageNavigates, Risk!PageCloses, OpGoesOn
<1>2. CASE Risk!PageCloses
  BY <1>1, <1>2, TabsAreClosed DEF Risk!PageCloses, Risk!Open
<1>3. CASE Risk!PageNavigates
  <2>1. PICK p \in Risk!Open :
          IF up THEN \E within \in BOOLEAN : Risk!Navigated(p, within)
          ELSE tab' = Risk!Renewed(p) /\ next' = next + 1 /\ UNCHANGED <<retained, jobs, active>>
    BY <1>3 DEF Risk!PageNavigates
  <2>2. p \in Pages /\ tab[p].doc # 0
    BY DEF Risk!Open
  <2>3. CASE ~up
    BY <1>1, <2>1, <2>2, <2>3, TabsAreRenewed
  <2>4. CASE up /\ Risk!Navigated(p, TRUE)
    BY <1>1, <2>2, <2>4, TabsMoveWithin DEF Risk!Navigated
  <2>5. CASE up /\ Risk!Navigated(p, FALSE)
    BY <1>1, <2>2, <2>5, TabsAreRenewed DEF Risk!Navigated
  <2>6. up \in BOOLEAN
    BY DEF RiskInv, RiskTyped
  <2> QED BY <2>1, <2>3, <2>4, <2>5
<1> QED BY <1>2, <1>3

-----------------------------------------------------------------------------
\* The commands. An invariant of the pages stays as it is when a command goes on
\* that changes none of them.
LEMMA CommandGoesOn ==
    ASSUME RiskConstants, RiskInv, up, ~Attaching, UNCHANGED <<next, retained, record, disk, up>>,
           tab' = tab, active' \in Risk!Open \cup {None},
           jobs' \subseteq RiskJobs, \A j \in jobs' : j.rec.document < next /\ j.doc < next,
           op' # None => op' \in RiskOps /\ op'.kind # "attach" /\ op'.page \in Pages /\ op'.pc \in CommandSteps,
           op' # None /\ op'.pc = "navigate" => tab[op'.page].owed # "yes"
    PROVE  RiskInv'
<1>1. RiskTyped' /\ DocumentsAreKnown'
  BY DEF RiskInv, RiskTyped, DocumentsAreKnown, Risk!Open
<1>2. ~Attaching'
  BY DEF Attaching
<1> QED BY <1>1, <1>2 DEF RiskInv, SelectedIsOpen, AcknowledgedWas, OwedIsKnown, GateIsShut, OpIsPlaced,
      WorkerIsGone, NothingIsRestored, NewerThanRecorded, FoundIsTold, Attaching, Risk!Open

LEMMA CommandsBegin ==
    ASSUME RiskConstants, RiskInv, NEW kind \in RiskKinds \ {"attach"}, NEW p \in Pages, NEW ack \in BOOLEAN,
           NEW step \in CommandSteps, Risk!Begin(kind, p, ack, step)
    PROVE  /\ up /\ ~Attaching /\ op' # None /\ op' \in RiskOps
           /\ op'.kind = kind /\ op'.page = p /\ op'.pc = step
<1>1. up /\ ~Attaching
        /\ op' = [kind |-> kind, page |-> p, ack |-> ack, pc |-> step, doc |-> 0, found |-> None, known |-> TRUE]
  BY DEF Risk!Begin, Attaching
<1>2. step \in RiskSteps
  BY DEF RiskSteps, CommandSteps
<1>3. op' \in RiskOps
  BY <1>1, <1>2 DEF RiskOps
<1> QED BY <1>1, <1>3 DEF RiskConstants

LEMMA RiskBegins ==
    ASSUME RiskConstants, RiskInv, Risk!BeginOnSelected \/ Risk!BeginClose \/ Risk!SelectTab
    PROVE  RiskInv'
<1>1. jobs \subseteq RiskJobs /\ \A j \in jobs : j.rec.document < next /\ j.doc < next
  BY DEF RiskInv, RiskTyped, DocumentsAreKnown
<1>2. active \in Risk!Open \cup {None} /\ Risk!Open \subseteq Pages
  BY DEF RiskInv, SelectedIsOpen, Risk!Open
<1>3. CASE Risk!BeginOnSelected
  <2>1. UNCHANGED <<tab, next, retained, record, disk, up>>
    BY <1>3 DEF Risk!BeginOnSelected
  <2>2. PICK p \in Risk!Open, kind \in {"open", "click", "history", "files"}, ack \in BOOLEAN :
          /\ active' = p /\ Risk!Begin(kind, p, ack, IF kind = "files" THEN "files" ELSE "preflight")
          /\ jobs' = jobs \/ jobs' = jobs \cup Risk!Job("selected", p, TRUE)
    BY <1>3 DEF Risk!BeginOnSelected
  <2>3. PICK step \in {"files", "preflight"} : Risk!Begin(kind, p, ack, step)
    BY <2>2
  <2>4. /\ up /\ ~Attaching /\ op' # None /\ op' \in RiskOps /\ op'.kind = kind /\ op'.page = p /\ op'.pc = step
    BY <1>2, <2>3, CommandsBegin DEF RiskKinds, CommandSteps
  <2>5. jobs' \subseteq RiskJobs /\ \A j \in jobs' : j.rec.document < next /\ j.doc < next
    BY <1>1, <1>2, <2>2, NewWrites
  <2> QED BY <1>2, <2>1, <2>2, <2>4, <2>5, CommandGoesOn DEF CommandSteps
<1>4. CASE Risk!BeginClose
  <2>1. UNCHANGED <<tab, next, active, retained, record, disk, jobs, up>>
    BY <1>4 DEF Risk!BeginClose
  <2>2. PICK p \in Risk!Open, ack \in BOOLEAN : Risk!Begin("close", p, ack, "preflight")
    BY <1>4 DEF Risk!BeginClose
  <2>3. up /\ ~Attaching /\ op' # None /\ op' \in RiskOps /\ op'.kind = "close" /\ op'.page = p /\ op'.pc = "preflight"
    BY <1>2, <2>2, CommandsBegin DEF RiskKinds, CommandSteps
  <2> QED BY <1>1, <1>2, <2>1, <2>3, CommandGoesOn DEF CommandSteps
<1>5. CASE Risk!SelectTab
  <2>1. UNCHANGED <<tab, next, retained, record, disk, up>>
    BY <1>5 DEF Risk!SelectTab
  <2>2. PICK p \in Risk!Open : Risk!Begin("select", p, FALSE, "end") /\ active' = p /\ jobs' = jobs \cup Risk!Job("selected", p, TRUE)
    BY <1>5 DEF Risk!SelectTab
  <2>3. up /\ ~Attaching /\ op' # None /\ op' \in RiskOps /\ op'.kind = "select" /\ op'.page = p /\ op'.pc = "end"
    BY <1>2, <2>2, CommandsBegin DEF RiskKinds, CommandSteps
  <2>4. jobs' \subseteq RiskJobs /\ \A j \in jobs' : j.rec.document < next /\ j.doc < next
    BY <1>1, <1>2, <2>2, NewWrites
  <2> QED BY <1>2, <2>1, <2>2, <2>3, <2>4, CommandGoesOn DEF CommandSteps
<1> QED BY <1>3, <1>4, <1>5

\* A command's step: it keeps what it is for.
LEMMA CommandSteps1 ==
    ASSUME RiskConstants, RiskInv, op # None,
           op.pc \in {"files", "note", "preflight", "navigate", "select", "reconcile"}
    PROVE  /\ up /\ ~Attaching /\ op \in RiskOps /\ op.page \in Pages /\ op.kind # "attach"
           /\ \A step \in RiskSteps, shown \in Nat :
                /\ [op EXCEPT !.pc = step] \in RiskOps /\ [op EXCEPT !.pc = step].pc = step
                /\ [op EXCEPT !.pc = step].kind = op.kind /\ [op EXCEPT !.pc = step].page = op.page
                /\ [op EXCEPT !.pc = step, !.doc = shown] \in RiskOps /\ [op EXCEPT !.pc = step, !.doc = shown].pc = step
                /\ [op EXCEPT !.pc = step, !.doc = shown].kind = op.kind
                /\ [op EXCEPT !.pc = step, !.doc = shown].page = op.page
<1>1. op \in RiskOps /\ op.kind # "attach" /\ op.page \in Pages
  BY DEF RiskInv, RiskTyped, OpIsPlaced, AttachSteps
<1>2. up /\ ~Attaching
  BY <1>1 DEF RiskInv, RiskTyped, WorkerIsGone, Attaching
<1> QED BY <1>1, <1>2 DEF RiskOps

LEMMA CommandsGoOn ==
    ASSUME RiskConstants, RiskInv, Risk!SetInputFiles \/ Risk!Reconcile \/ Risk!Select \/ Risk!End
    PROVE  RiskInv'
<1>1. jobs \subseteq RiskJobs /\ \A j \in jobs : j.rec.document < next /\ j.doc < next
  BY DEF RiskInv, RiskTyped, DocumentsAreKnown
<1>2. active \in Risk!Open \cup {None} /\ Risk!Open \subseteq Pages
  BY DEF RiskInv, SelectedIsOpen, Risk!Open
<1>3. CASE Risk!SetInputFiles
  <2>1. /\ UNCHANGED <<tab, next, active, retained, record, disk, jobs, up>> /\ op # None /\ op.pc = "files"
        /\ op' = [op EXCEPT !.pc = "note", !.doc = tab[op.page].doc]
    BY <1>3 DEF Risk!SetInputFiles, Risk!At
  <2> DEFINE d == tab[op.page].doc
  <2>2. d \in Nat
    BY <2>1, CommandSteps1 DEF RiskInv, RiskTyped, RiskTabs
  <2>4. op' = [op EXCEPT !.pc = "note", !.doc = d]
    BY <2>1
  <2> HIDE DEF d
  <2>3. up /\ ~Attaching /\ op' \in RiskOps /\ op'.kind # "attach" /\ op'.page \in Pages /\ op'.pc = "note"
    <3>1. "note" \in RiskSteps
      BY DEF RiskSteps
    <3>2. op \in RiskOps /\ op.kind # "attach" /\ op.page \in Pages /\ up /\ ~Attaching
      BY <2>1, CommandSteps1
    <3>3. op' \in RiskOps /\ op'.kind = op.kind /\ op'.page = op.page /\ op'.pc = "note"
      BY <2>2, <2>4, <3>1, <3>2 DEF RiskOps
    <3> QED BY <3>2, <3>3
  <2> QED BY <1>1, <1>2, <2>1, <2>3, CommandGoesOn DEF CommandSteps
<1>4. CASE Risk!Reconcile \/ Risk!Select
  <2>1. /\ UNCHANGED <<tab, next, retained, record, disk, up>> /\ op # None /\ op.pc \in {"reconcile", "select"}
        /\ op' = [op EXCEPT !.pc = "end"]
    BY <1>4 DEF Risk!Reconcile, Risk!Select, Risk!At
  <2>2. up /\ ~Attaching /\ op.page \in Pages /\ op' \in RiskOps /\ op'.kind # "attach" /\ op'.page \in Pages /\ op'.pc = "end"
    BY <2>1, CommandSteps1 DEF RiskSteps
  <2>3. active' \in Risk!Open \cup {None} /\ \E p \in Pages : jobs' = jobs \/ jobs' = jobs \cup Risk!Job("selected", p, TRUE)
    BY <1>2, <1>4, <2>2 DEF Risk!Reconcile, Risk!Select
  <2>4. jobs' \subseteq RiskJobs /\ \A j \in jobs' : j.rec.document < next /\ j.doc < next
    BY <1>1, <2>3, NewWrites
  <2> QED BY <2>1, <2>2, <2>3, <2>4, CommandGoesOn DEF CommandSteps
<1>5. CASE Risk!End
  <2>1. UNCHANGED <<tab, next, active, retained, record, disk, jobs, up>> /\ op # None /\ op.pc = "end" /\ op' = None
    BY <1>5 DEF Risk!End, Risk!At
  <2>2. up
    BY <2>1 DEF RiskInv, WorkerIsGone, NewerThanRecorded
  <2>3. RiskTyped' /\ DocumentsAreKnown'
    BY <2>1 DEF RiskInv, RiskTyped, DocumentsAreKnown
  <2> QED BY <2>1, <2>2, <2>3 DEF RiskInv, SelectedIsOpen, AcknowledgedWas, OwedIsKnown, GateIsShut, OpIsPlaced,
        WorkerIsGone, NothingIsRestored, NewerThanRecorded, FoundIsTold, Attaching, Risk!Open
<1> QED BY <1>3, <1>4, <1>5

\* Files selected are owed from the moment they are noted, when their document is still there.
LEMMA RiskIsNoted == ASSUME RiskConstants, RiskInv, Risk!Note PROVE RiskInv'
<1>1. /\ op # None /\ op.pc = "note" /\ UNCHANGED <<next, active, record, disk, up>>
      /\ op' = [op EXCEPT !.pc = "end"]
  BY DEF Risk!Note, Risk!At
<1>2. "end" \in RiskSteps
  BY DEF RiskSteps
<1>3. /\ up /\ ~Attaching /\ op.page \in Pages /\ op' \in RiskOps /\ op'.kind # "attach" /\ op'.page \in Pages /\ op'.pc = "end"
  BY <1>1, <1>2, CommandSteps1
<1> DEFINE p == op.page
           owing == IF op.doc # 0 /\ op.doc = tab[p].doc THEN "yes" ELSE tab[p].owed
           noted == Risk!NoteFileSelection(p)
<1>4. /\ tab \in [Pages -> RiskTabs] /\ retained \in [Pages -> Selections \cup {None}]
      /\ jobs \subseteq RiskJobs /\ \A j \in jobs : j.rec.document < next /\ j.doc < next
  BY DEF RiskInv, RiskTyped, DocumentsAreKnown
<1>5. tab' = [tab EXCEPT ![p].owed = owing] /\ retained' = [retained EXCEPT ![p] = noted]
      /\ jobs' = jobs \cup Risk!Job("risk", p, TRUE)
  BY DEF Risk!Note
<1>6. noted \in Selections /\ noted.acked <= noted.rev /\ noted.acked # noted.rev
  BY <1>3, <1>4 DEF Risk!NoteFileSelection, Risk!Noted, Selections
<1>7. owing \in Owings
  BY <1>3, <1>4 DEF Owings, RiskTabs
<1>8. jobs' \subseteq RiskJobs /\ \A j \in jobs' : j.rec.document < next /\ j.doc < next
  BY <1>3, <1>4, <1>5, NewWrites
<1> HIDE DEF owing, noted
<1>9. /\ tab' \in [Pages -> RiskTabs] /\ tab'[p].owed = owing
      /\ \A q \in Pages : tab'[q].doc = tab[q].doc /\ tab'[q].told = tab[q].told
      /\ \A q \in Pages \ {p} : tab'[q] = tab[q]
  BY <1>3, <1>4, <1>5, <1>7 DEF RiskTabs
<1>10. /\ retained' \in [Pages -> Selections \cup {None}] /\ retained'[p] = noted
       /\ \A q \in Pages \ {p} : retained'[q] = retained[q]
  BY <1>3, <1>4, <1>5, <1>6
<1>11. RiskTyped' /\ DocumentsAreKnown'
  BY <1>1, <1>3, <1>8, <1>9, <1>10 DEF RiskInv, RiskTyped, DocumentsAreKnown
<1>12. SelectedIsOpen' /\ AcknowledgedWas'
  BY <1>1, <1>6, <1>9, <1>10 DEF RiskInv, SelectedIsOpen, AcknowledgedWas
<1>13. OwedIsKnown'
  <2>1. ~Risk!Permitted(noted)
    BY <1>6 DEF Risk!Permitted, RiskConstants
  <2> QED BY <1>9, <1>10, <2>1 DEF RiskInv, OwedIsKnown, Risk!Permitted
<1> QED BY <1>1, <1>3, <1>11, <1>12, <1>13 DEF RiskInv, GateIsShut, OpIsPlaced, CommandSteps, WorkerIsGone,
      NothingIsRestored, NewerThanRecorded, FoundIsTold, Attaching

\* The gate: it opens for a page that owes nothing, or for an acknowledgement.
LEMMA RiskIsGated == ASSUME RiskConstants, RiskInv, Risk!Preflight PROVE RiskInv'
<1>1. /\ op # None /\ op.pc = "preflight" /\ UNCHANGED <<next, active, record, disk, up>>
  BY DEF Risk!Preflight, Risk!At
<1>2. "navigate" \in RiskSteps
  BY DEF RiskSteps
<1>3. /\ up /\ ~Attaching /\ op.page \in Pages /\ op.kind # "attach"
      /\ LET o == [op EXCEPT !.pc = "navigate"] IN
           o \in RiskOps /\ o.kind # "attach" /\ o.page = op.page /\ o.pc = "navigate"
  BY <1>1, <1>2, CommandSteps1
<1> DEFINE p == op.page
           r == retained[p]
<1>4. /\ tab \in [Pages -> RiskTabs] /\ retained \in [Pages -> Selections \cup {None}]
      /\ jobs \subseteq RiskJobs /\ \A j \in jobs : j.rec.document < next /\ j.doc < next
      /\ active \in Risk!Open \cup {None}
  BY DEF RiskInv, RiskTyped, DocumentsAreKnown, SelectedIsOpen, Risk!Open
<1>5. CASE op' = None /\ UNCHANGED <<tab, retained, jobs>>
  BY <1>1, <1>3, <1>4, <1>5, CommandGoesOn
<1>6. CASE Risk!Permitted(r) /\ op' # None
  <2>1. /\ op' = [op EXCEPT !.pc = "navigate"] /\ retained' = retained /\ jobs' = jobs \cup Risk!Job("risk", p, TRUE)
        /\ tab' = [tab EXCEPT ![p].owed = @]
    BY <1>6 DEF Risk!Preflight
  <2>2. tab' = tab
    BY <1>4, <2>1 DEF RiskTabs
  <2>3. jobs' \subseteq RiskJobs /\ \A j \in jobs' : j.rec.document < next /\ j.doc < next
    BY <1>3, <1>4, <2>1, NewWrites
  <2>4. tab[p].owed # "yes"
    BY <1>3, <1>6 DEF RiskInv, OwedIsKnown
  <2> QED BY <1>1, <1>3, <1>4, <2>1, <2>2, <2>3, <2>4, CommandGoesOn DEF CommandSteps
<1>7. CASE ~Risk!Permitted(r) /\ op' # None
  <2>1. /\ op' = [op EXCEPT !.pc = "navigate"] /\ jobs' = jobs \cup Risk!Job("risk", p, TRUE)
        /\ retained' = [retained EXCEPT ![p].acked = r.rev]
        /\ tab' = [tab EXCEPT ![p].owed = "no"]
    BY <1>7 DEF Risk!Preflight
  <2>2. r \in Selections
    BY <1>3, <1>4, <1>7 DEF Risk!Permitted
  <2>3. jobs' \subseteq RiskJobs /\ \A j \in jobs' : j.rec.document < next /\ j.doc < next
    BY <1>3, <1>4, <2>1, NewWrites
  <2>4. /\ tab' \in [Pages -> RiskTabs] /\ tab'[p].owed = "no"
        /\ \A q \in Pages : tab'[q].doc = tab[q].doc /\ tab'[q].told = tab[q].told
        /\ \A q \in Pages \ {p} : tab'[q] = tab[q]
    BY <1>3, <1>4, <2>1 DEF RiskTabs, Owings
  <2>5. /\ retained' \in [Pages -> Selections \cup {None}] /\ retained'[p].acked = retained'[p].rev
        /\ retained'[p].rev \in Nat
        /\ \A q \in Pages \ {p} : retained'[q] = retained[q]
    BY <1>3, <1>4, <2>1, <2>2 DEF Selections
  <2>6. RiskTyped' /\ DocumentsAreKnown'
    BY <1>1, <1>3, <2>1, <2>3, <2>4, <2>5 DEF RiskInv, RiskTyped, DocumentsAreKnown
  <2>7. SelectedIsOpen' /\ AcknowledgedWas' /\ OwedIsKnown'
    BY <1>1, <2>4, <2>5 DEF RiskInv, SelectedIsOpen, AcknowledgedWas, OwedIsKnown, Risk!Permitted
  <2>8. op'.kind # "attach" /\ op'.page = p /\ op'.pc = "navigate"
    BY <1>3, <2>1
  <2> QED BY <1>1, <1>3, <2>4, <2>6, <2>7, <2>8 DEF RiskInv, GateIsShut, OpIsPlaced, CommandSteps, WorkerIsGone,
        NothingIsRestored, NewerThanRecorded, FoundIsTold, Attaching
<1> QED BY <1>3, <1>5, <1>6, <1>7, CommandSteps1 DEF Risk!Preflight, RiskConstants

LEMMA RiskIsDispatched == ASSUME RiskConstants, RiskInv, Risk!Dispatch PROVE RiskInv'
<1>1. /\ op # None /\ op.pc = "navigate" /\ UNCHANGED <<record, disk, up>>
  BY DEF Risk!Dispatch, Risk!At
<1>2. PICK step \in {"select", "reconcile", "end"} : op' = [op EXCEPT !.pc = step]
  BY DEF Risk!Dispatch
<1>3. step \in RiskSteps /\ step \in CommandSteps \ {"navigate"}
  BY DEF RiskSteps, CommandSteps
<1>4. /\ up /\ ~Attaching /\ op.page \in Pages /\ op.kind # "attach"
      /\ op' \in RiskOps /\ op'.kind # "attach" /\ op'.page \in Pages /\ op'.pc = step
  BY <1>1, <1>2, <1>3, CommandSteps1
<1>5. OpGoesOn /\ op' # None
  BY <1>1, <1>3, <1>4 DEF OpGoesOn, RiskConstants
<1>6. CASE UNCHANGED <<tab, next, active, retained, jobs>>
  <2>1. /\ jobs \subseteq RiskJobs /\ \A j \in jobs : j.rec.document < next /\ j.doc < next
        /\ active \in Risk!Open \cup {None}
    BY DEF RiskInv, RiskTyped, DocumentsAreKnown, SelectedIsOpen, Risk!Open
  <2> QED BY <1>1, <1>3, <1>4, <1>6, <2>1, CommandGoesOn
<1>7. CASE Risk!Closed(op.page)
  BY <1>1, <1>4, <1>5, <1>7, TabsAreClosed
<1>8. CASE op.page \in Risk!Open /\ Risk!Navigated(op.page, TRUE)
  BY <1>1, <1>4, <1>5, <1>8, TabsMoveWithin DEF Risk!Navigated
<1>9. CASE op.page \in Risk!Open /\ Risk!Navigated(op.page, FALSE)
  BY <1>1, <1>4, <1>5, <1>9, TabsAreRenewed DEF Risk!Navigated, Risk!Open
<1> QED BY <1>6, <1>7, <1>8, <1>9 DEF Risk!Dispatch

LEMMA RiskOpensTab == ASSUME RiskConstants, RiskInv, Risk!OpenNewTab PROVE RiskInv'
<1>1. PICK p \in Pages \ Risk!Open :
        /\ Risk!Begin("open", p, FALSE, "navigate") /\ tab' = Risk!Renewed(p) /\ active' = p
        /\ retained' = [retained EXCEPT ![p] = None]
        /\ jobs' = jobs \cup {[kind |-> "risk", page |-> p, mine |-> TRUE, pc |-> "ids", rec |-> record, doc |-> 0]}
  BY DEF Risk!OpenNewTab
<1>2. UNCHANGED <<record, disk, up>> /\ next' = next + 1
  BY DEF Risk!OpenNewTab
<1>3. up /\ ~Attaching /\ op' # None /\ op' \in RiskOps /\ op'.kind = "open" /\ op'.page = p /\ op'.pc = "navigate"
  <2>1. "open" \in RiskKinds \ {"attach"} /\ "navigate" \in CommandSteps /\ FALSE \in BOOLEAN
    BY DEF RiskKinds, CommandSteps
  <2> QED BY <1>1, <2>1, CommandsBegin
<1>4. /\ tab \in [Pages -> RiskTabs] /\ next \in Nat /\ jobs \subseteq RiskJobs
      /\ retained \in [Pages -> Selections \cup {None}]
      /\ \A q \in Pages : tab[q].doc < next /\ tab[q].doc \in Nat
      /\ record \in RiskRecords /\ disk \in RiskRecords /\ record.document \in Nat /\ disk.document \in Nat
      /\ record.document < next /\ disk.document < next
  BY DEF RiskInv, RiskTyped, DocumentsAreKnown, RiskTabs, RiskRecords
<1>5. /\ tab' \in [Pages -> RiskTabs] /\ tab'[p].doc = next /\ tab'[p].owed = "no"
      /\ \A q \in Pages \ {p} : tab'[q] = tab[q]
  <2>1. up \in BOOLEAN
    BY DEF RiskInv, RiskTyped
  <2> QED BY <1>1, <1>4, <2>1 DEF Risk!Renewed, RiskTabs, Owings
<1>6. /\ retained' \in [Pages -> Selections \cup {None}] /\ (retained'[p] = None)
      /\ \A q \in Pages \ {p} : retained'[q] = retained[q]
  BY <1>1, <1>4
<1>7. jobs' \subseteq RiskJobs /\ \A j \in jobs' : j.rec.document < next' /\ j.doc < next'
  <2> DEFINE n == [kind |-> "risk", page |-> p, mine |-> TRUE, pc |-> "ids", rec |-> record, doc |-> 0]
  <2>1. n \in RiskJobs /\ n.rec = record /\ n.doc = 0
    BY <1>4 DEF RiskJobs, RiskJobSteps
  <2>2. \A j \in jobs : j.rec.document < next /\ j.doc < next /\ j.rec.document \in Nat /\ j.doc \in Nat
    BY <1>4 DEF RiskInv, DocumentsAreKnown, RiskJobs, RiskRecords
  <2>3. jobs' = jobs \cup {n}
    BY <1>1
  <2> HIDE DEF n
  <2>4. \A i \in Nat : i < next => i < next'
    BY <1>2, <1>4
  <2> QED BY <1>4, <2>1, <2>2, <2>3, <2>4
<1>8. RiskTyped' /\ DocumentsAreKnown'
  BY <1>1, <1>2, <1>3, <1>4, <1>5, <1>6, <1>7 DEF RiskTyped, DocumentsAreKnown, RiskInv
<1>9. SelectedIsOpen' /\ AcknowledgedWas' /\ OwedIsKnown'
  <2>1. next > 0
    BY <1>4
  <2> QED BY <1>1, <1>5, <1>6, <2>1 DEF RiskInv, SelectedIsOpen, AcknowledgedWas, OwedIsKnown, Risk!Permitted
<1> QED BY <1>2, <1>3, <1>5, <1>8, <1>9 DEF RiskInv, GateIsShut, OpIsPlaced, CommandSteps, WorkerIsGone,
      NothingIsRestored, NewerThanRecorded, FoundIsTold, Attaching

-----------------------------------------------------------------------------
\* A worker that is gone knows nothing; what replaces the documents now is newer
\* than anything that was recorded.
LEMMA RiskIsLost == ASSUME RiskConstants, RiskInv, Risk!WorkerLost PROVE RiskInv'
<1>1. /\ up /\ up' = FALSE /\ active' = None /\ jobs' = {} /\ UNCHANGED <<next, record, disk>>
      /\ retained' = [p \in Pages |-> None]
  BY DEF Risk!WorkerLost
<1>2. tab \in [Pages -> RiskTabs]
  BY DEF RiskInv, RiskTyped
<1>3. /\ tab' \in [Pages -> RiskTabs]
      /\ \A p \in Pages : /\ tab'[p].doc = tab[p].doc /\ tab'[p].owed # "yes"
                          /\ tab'[p].told \/ disk.document # tab[p].doc
  <2>1. PICK gone \in {"replaced", "lost"} :
          tab' = [p \in Pages |-> [tab[p] EXCEPT !.told = @ \/ disk.document = tab[p].doc,
                                                 !.owed = IF @ # "yes" THEN @ ELSE gone]]
    BY DEF Risk!WorkerLost
  <2> SUFFICES ASSUME NEW p \in Pages
               PROVE  /\ tab'[p] \in RiskTabs
                      /\ tab'[p].doc = tab[p].doc /\ tab'[p].owed # "yes"
                      /\ tab'[p].told \/ disk.document # tab[p].doc
    BY <2>1
  <2> DEFINE known == tab[p].told \/ disk.document = tab[p].doc
             left == IF tab[p].owed # "yes" THEN tab[p].owed ELSE gone
  <2>2. tab'[p] = [tab[p] EXCEPT !.told = known, !.owed = left]
    BY <2>1
  <2>3. tab[p] \in RiskTabs /\ known \in BOOLEAN /\ left \in Owings /\ left # "yes"
    BY <1>2 DEF RiskTabs, Owings
  <2>4. known \/ disk.document # tab[p].doc
    OBVIOUS
  <2> HIDE DEF known, left
  <2> QED BY <2>2, <2>3, <2>4 DEF RiskTabs
<1>4. PICK page \in Pages \cup {None} :
        op' = [kind |-> "attach", page |-> page, ack |-> FALSE, pc |-> "attach", doc |-> 0, found |-> None, known |-> TRUE]
  BY DEF Risk!WorkerLost, RiskInv, RiskTyped
<1>5. op' \in RiskOps /\ op'.kind = "attach" /\ op'.pc = "attach"
  BY <1>4 DEF RiskOps, RiskKinds, RiskSteps
<1>6. RiskTyped' /\ DocumentsAreKnown'
  BY <1>1, <1>3, <1>5 DEF RiskInv, RiskTyped, DocumentsAreKnown
<1>7. Behind(disk)'
  BY <1>1, <1>3 DEF Behind
<1>8. NewerThanRecorded' /\ FoundIsTold'
  BY <1>1, <1>5, <1>7 DEF NewerThanRecorded, FoundIsTold, Attaching
<1>9. OwedIsKnown' /\ SelectedIsOpen' /\ AcknowledgedWas'
  BY <1>1, <1>3 DEF OwedIsKnown, SelectedIsOpen, AcknowledgedWas
<1>10. GateIsShut' /\ OpIsPlaced' /\ WorkerIsGone' /\ NothingIsRestored'
  BY <1>1, <1>5 DEF GateIsShut, OpIsPlaced, AttachSteps, WorkerIsGone, NothingIsRestored, Attaching, RiskConstants
<1> QED BY <1>6, <1>8, <1>9, <1>10 DEF RiskInv

\* An attaching worker that goes on.
LEMMA AttachGoesOn ==
    ASSUME RiskConstants, RiskInv, Attaching, op.pc \in {"continuity", "selected", "ids"},
           UNCHANGED <<next, active, retained, record, disk, up>>,
           tab' \in [Pages -> RiskTabs],
           \A q \in Pages : tab'[q].doc = tab[q].doc /\ tab'[q].owed = tab[q].owed,
           op' \in RiskOps, op'.kind = "attach", op'.found = op.found,
           op'.pc \in {"selected", "ids", "restore", "end", "stopped"}, op'.pc \in {"end", "stopped"} => active = None,
           op'.known /\ op.found \in Risk!Open => op.known /\ tab'[op.found].told,
           jobs' \subseteq RiskJobs, \A j \in jobs' : j.rec.document < next /\ j.doc < next
    PROVE  RiskInv'
<1>1. RiskTyped' /\ DocumentsAreKnown'
  BY DEF RiskInv, RiskTyped, DocumentsAreKnown
<1>2. up /\ Attaching' /\ Risk!Open' = Risk!Open
  BY DEF RiskInv, RiskConstants, NewerThanRecorded, Attaching, Risk!Open
<1>3. FoundIsTold'
  BY <1>2 DEF RiskInv, FoundIsTold
<1>4. SelectedIsOpen' /\ AcknowledgedWas' /\ OwedIsKnown' /\ GateIsShut' /\ OpIsPlaced'
  BY <1>2 DEF RiskInv, SelectedIsOpen, AcknowledgedWas, OwedIsKnown, GateIsShut, OpIsPlaced, AttachSteps
<1>5. \A p \in Pages : retained[p] = None
  BY DEF RiskInv, NothingIsRestored
<1>6. WorkerIsGone' /\ NothingIsRestored' /\ NewerThanRecorded'
  BY <1>2, <1>5 DEF RiskInv, WorkerIsGone, NothingIsRestored, NewerThanRecorded
<1> QED BY <1>1, <1>3, <1>4, <1>6 DEF RiskInv

LEMMA AttachKeeps ==
    ASSUME RiskConstants, RiskInv, op # None, op.pc \in {"attach", "continuity", "selected", "ids", "restore"}
    PROVE  /\ Attaching /\ op \in RiskOps
           /\ \A step \in RiskSteps, shown \in Nat, seenPage \in Pages, known \in BOOLEAN :
                /\ [op EXCEPT !.pc = step] \in RiskOps
                /\ [op EXCEPT !.pc = step, !.doc = shown] \in RiskOps
                /\ [op EXCEPT !.pc = step, !.known = FALSE] \in RiskOps
                /\ [op EXCEPT !.pc = step, !.found = seenPage, !.known = known] \in RiskOps
<1>1. op \in RiskOps /\ op.kind = "attach"
  BY DEF RiskInv, RiskTyped, OpIsPlaced, CommandSteps
<1> QED BY <1>1 DEF RiskOps, Attaching

LEMMA RiskAttaches == ASSUME RiskConstants, RiskInv, Risk!Attach PROVE RiskInv'
<1>1. /\ op # None /\ op.pc = "attach" /\ UNCHANGED <<tab, next, retained, disk, jobs>> /\ record' = disk
  BY DEF Risk!Attach, Risk!At
<1>2. /\ Attaching /\ op \in RiskOps /\ op.kind = "attach" /\ ~up /\ jobs = {} /\ Behind(disk)
      /\ \A p \in Pages : retained[p] = None
  BY <1>1, AttachKeeps DEF RiskInv, NewerThanRecorded, WorkerIsGone, Attaching
<1>3. disk \in RiskRecords /\ disk.document < next /\ disk.document \in Nat /\ disk.target \in Pages
  BY DEF RiskInv, RiskTyped, DocumentsAreKnown, RiskRecords
<1>4. CASE disk.target \in Risk!Open
  <2> DEFINE known == disk.document # 0
             seenPage == disk.target
  <2>1. up' = TRUE /\ active' = seenPage /\ op' = [op EXCEPT !.pc = "continuity", !.found = seenPage, !.known = known]
    BY <1>4 DEF Risk!Attach
  <2>2. known \in BOOLEAN /\ seenPage \in Pages /\ "continuity" \in RiskSteps /\ seenPage \in Risk!Open
    BY <1>3, <1>4 DEF RiskSteps
  <2> HIDE DEF known, seenPage
  <2>3. op' \in RiskOps /\ op'.kind = "attach" /\ op'.pc = "continuity" /\ op'.found = seenPage /\ op'.known = known
    BY <1>2, <2>1, <2>2 DEF RiskOps
  <2>4. RiskTyped' /\ DocumentsAreKnown'
    BY <1>1, <1>3, <2>1, <2>2, <2>3 DEF RiskInv, RiskTyped, DocumentsAreKnown
  <2>5. SelectedIsOpen' /\ AcknowledgedWas' /\ OwedIsKnown' /\ GateIsShut' /\ OpIsPlaced'
    BY <1>1, <2>1, <2>2, <2>3 DEF RiskInv, SelectedIsOpen, AcknowledgedWas, OwedIsKnown, GateIsShut, OpIsPlaced,
       AttachSteps, Risk!Open
  <2>6. WorkerIsGone' /\ NothingIsRestored' /\ NewerThanRecorded'
    BY <1>1, <1>2, <2>1, <2>3 DEF WorkerIsGone, NothingIsRestored, NewerThanRecorded, Behind, Attaching
  <2>7. FoundIsTold'
    BY <2>1, <2>3 DEF FoundIsTold
  <2> QED BY <2>4, <2>5, <2>6, <2>7 DEF RiskInv
<1>5. CASE disk.target \notin Risk!Open
  <2>1. UNCHANGED <<up, active>> /\ op' = [op EXCEPT !.pc = "stopped"]
    BY <1>5 DEF Risk!Attach
  <2>2. op' \in RiskOps /\ op'.kind = "attach" /\ op'.pc = "stopped"
    BY <1>2, <2>1 DEF RiskOps, RiskSteps
  <2>3. RiskTyped' /\ DocumentsAreKnown'
    BY <1>1, <1>3, <2>1, <2>2 DEF RiskInv, RiskTyped, DocumentsAreKnown
  <2> QED BY <1>1, <1>2, <2>1, <2>2, <2>3 DEF RiskInv, RiskConstants, SelectedIsOpen, AcknowledgedWas, OwedIsKnown,
        GateIsShut, OpIsPlaced, AttachSteps, WorkerIsGone, NothingIsRestored, NewerThanRecorded, Behind, FoundIsTold,
        Attaching
<1> QED BY <1>4, <1>5

LEMMA RiskCompares == ASSUME RiskConstants, RiskInv, Risk!Continuity PROVE RiskInv'
<1>1. /\ op # None /\ op.pc = "continuity" /\ UNCHANGED <<next, active, retained, record, disk, jobs, up>>
  BY DEF Risk!Continuity, Risk!At
<1>2. /\ Attaching /\ op \in RiskOps /\ op.kind = "attach" /\ Behind(record) /\ jobs = {}
      /\ (op.found \in Risk!Open => active = op.found)
  BY <1>1, AttachKeeps DEF RiskInv, NewerThanRecorded, FoundIsTold, Attaching
<1>3. tab \in [Pages -> RiskTabs] /\ record.document \in Nat /\ \A q \in Pages : tab[q].doc \in Nat
  BY DEF RiskInv, RiskTyped, RiskRecords, RiskTabs
<1>4. CASE active # None /\ tab' = [tab EXCEPT ![active].told = @ \/ tab[active].doc # record.document]
             /\ op' = [op EXCEPT !.pc = "selected"]
  <2>1. op' \in RiskOps /\ op'.kind = "attach" /\ op'.pc = "selected" /\ op'.found = op.found /\ op'.known = op.known
    BY <1>2, <1>4 DEF RiskOps, RiskSteps
  <2>2. active \in Pages
    BY <1>4 DEF RiskInv, SelectedIsOpen
  <2>3. tab[active].told \/ tab[active].doc # record.document
    BY <1>2, <1>3, <2>2 DEF Behind
  <2>4. tab[active] \in RiskTabs
    BY <1>3, <2>2
  <2>5. /\ tab' \in [Pages -> RiskTabs]
        /\ \A q \in Pages : tab'[q].doc = tab[q].doc /\ tab'[q].owed = tab[q].owed
        /\ tab'[active].told
    <3> DEFINE tells == tab[active].told \/ tab[active].doc # record.document
    <3>1. tab' = [tab EXCEPT ![active].told = tells]
      BY <1>4
    <3>2. tells = TRUE
      BY <2>3, <2>4 DEF RiskTabs
    <3> HIDE DEF tells
    <3> QED BY <1>3, <2>2, <3>1, <3>2 DEF RiskTabs
  <2> QED BY <1>1, <1>2, <2>1, <2>5, AttachGoesOn
<1>5. CASE op' = [op EXCEPT !.pc = "selected", !.known = FALSE] /\ UNCHANGED tab
  <2>1. op' \in RiskOps /\ op'.kind = "attach" /\ op'.pc = "selected" /\ op'.found = op.found /\ op'.known = FALSE
    BY <1>2, <1>5 DEF RiskOps, RiskSteps
  <2> QED BY <1>1, <1>2, <1>3, <1>5, <2>1, AttachGoesOn
<1> QED BY <1>4, <1>5 DEF Risk!Continuity

LEMMA RiskSelects ==
    ASSUME RiskConstants, RiskInv, Risk!AttachSelected \/ Risk!AttachIds
    PROVE  RiskInv'
<1>1. /\ op # None /\ op.pc \in {"selected", "ids"} /\ UNCHANGED <<tab, next, active, retained, record, disk, up>>
  BY DEF Risk!AttachSelected, Risk!AttachIds, Risk!At
<1>2. /\ Attaching /\ op \in RiskOps /\ op.kind = "attach"
      /\ (op.known /\ op.found \in Risk!Open => tab[op.found].told)
  BY <1>1, AttachKeeps DEF RiskInv, FoundIsTold, Attaching
<1>3. /\ tab \in [Pages -> RiskTabs] /\ jobs \subseteq RiskJobs /\ \A j \in jobs : j.rec.document < next /\ j.doc < next
  BY DEF RiskInv, RiskTyped, DocumentsAreKnown
<1>4. active # None => active \in Pages /\ tab[active].doc \in Nat
  BY <1>3 DEF RiskInv, SelectedIsOpen, RiskTabs
<1>5. CASE Risk!AttachSelected
  <2>1. PICK step \in {"stopped", "ids"} : op' = [op EXCEPT !.pc = step] /\ (step = "stopped" => active = None)
    BY <1>5 DEF Risk!AttachSelected
  <2>2. op' \in RiskOps /\ op'.kind = "attach" /\ op'.pc = step /\ op'.found = op.found /\ op'.known = op.known
    BY <1>2, <2>1 DEF RiskOps, RiskSteps
  <2>3. jobs' = jobs \/ (active # None /\ jobs' = jobs \cup Risk!Job("selected", active, TRUE))
    BY <1>5 DEF Risk!AttachSelected
  <2>4. jobs' \subseteq RiskJobs /\ \A j \in jobs' : j.rec.document < next /\ j.doc < next
    BY <1>3, <1>4, <2>3, NewWrites
  <2> QED BY <1>1, <1>2, <1>3, <2>1, <2>2, <2>4, AttachGoesOn
<1>6. CASE Risk!AttachIds
  <2>1. UNCHANGED jobs /\ \/ op' = [op EXCEPT !.pc = "end"] /\ active = None
                          \/ op' = [op EXCEPT !.pc = "restore", !.doc = tab[active].doc] /\ active # None
    BY <1>6 DEF Risk!AttachIds
  <2>2. CASE op' = [op EXCEPT !.pc = "end"] /\ active = None
    <3>1. op' \in RiskOps /\ op'.kind = "attach" /\ op'.pc = "end" /\ op'.found = op.found /\ op'.known = op.known
      BY <1>2, <2>2 DEF RiskOps, RiskSteps
    <3> QED BY <1>1, <1>2, <1>3, <2>1, <2>2, <3>1, AttachGoesOn
  <2>3. CASE op' = [op EXCEPT !.pc = "restore", !.doc = tab[active].doc] /\ active # None
    <3> DEFINE shown == tab[active].doc
    <3>1. shown \in Nat /\ op' = [op EXCEPT !.pc = "restore", !.doc = shown] /\ "restore" \in RiskSteps
      BY <1>4, <2>3 DEF RiskSteps
    <3> HIDE DEF shown
    <3>2. op' \in RiskOps /\ op'.kind = "attach" /\ op'.pc = "restore" /\ op'.found = op.found /\ op'.known = op.known
      BY <1>2, <3>1 DEF RiskOps
    <3> QED BY <1>1, <1>2, <1>3, <2>1, <3>2, AttachGoesOn
  <2> QED BY <2>1, <2>2, <2>3
<1> QED BY <1>5, <1>6

\* What is restored is owed as the record has it.
LEMMA RiskIsRestored == ASSUME RiskConstants, RiskInv, Risk!Restore PROVE RiskInv'
<1>1. /\ op # None /\ op.pc = "restore" /\ UNCHANGED <<next, active, record, disk, jobs, up>>
      /\ op' = [op EXCEPT !.pc = "end"]
  BY DEF Risk!Restore, Risk!At
<1>2. /\ Attaching /\ op \in RiskOps /\ op.kind = "attach" /\ up
      /\ \A p \in Pages : retained[p] = None
  BY <1>1, AttachKeeps DEF RiskInv, NothingIsRestored, NewerThanRecorded, Attaching
<1>3. op' \in RiskOps /\ op'.kind = "attach" /\ op'.pc = "end" /\ op'.found = op.found /\ op'.known = op.known
  BY <1>1, <1>2 DEF RiskOps, RiskSteps
<1>4. /\ tab \in [Pages -> RiskTabs] /\ retained \in [Pages -> Selections \cup {None}]
      /\ active # None => active \in Pages
      /\ \A p \in Pages : tab[p].owed # "yes"
  BY <1>2 DEF RiskInv, RiskTyped, SelectedIsOpen, OwedIsKnown, Risk!Permitted
<1>5. PICK acked \in {0, 1} :
        retained' = retained \/ (active # None /\ retained' = [retained EXCEPT ![active] = [rev |-> 1, acked |-> acked]])
  <2> DEFINE acked == IF record.risk.ack THEN 1 ELSE 0
  <2>1. acked \in {0, 1}
    OBVIOUS
  <2>2. retained' = retained \/ (active # None /\ retained' = [retained EXCEPT ![active] = [rev |-> 1, acked |-> acked]])
    BY DEF Risk!Restore
  <2> HIDE DEF acked
  <2> QED BY <2>1, <2>2
<1>6. /\ retained' \in [Pages -> Selections \cup {None}]
      /\ \A p \in Pages : retained'[p] # None => retained'[p].acked <= retained'[p].rev
  BY <1>2, <1>4, <1>5 DEF Selections
<1>7. /\ tab' \in [Pages -> RiskTabs]
      /\ \A p \in Pages : /\ tab'[p].doc = tab[p].doc /\ tab'[p].told = tab[p].told
                          /\ tab'[p].owed = "yes" => ~Risk!Permitted(retained'[p])
  <2>1. tab' = [p \in Pages |-> [tab[p] EXCEPT !.owed = IF @ = "replaced" /\ ~Risk!Permitted(retained'[p]) THEN "yes" ELSE @]]
    BY DEF Risk!Restore
  <2> SUFFICES ASSUME NEW p \in Pages
      PROVE  /\ tab'[p] \in RiskTabs /\ tab'[p].doc = tab[p].doc /\ tab'[p].told = tab[p].told
             /\ tab'[p].owed = "yes" => ~Risk!Permitted(retained'[p])
    BY <2>1
  <2>2. tab[p] \in RiskTabs /\ tab[p].owed # "yes"
    BY <1>4
  <2>3. CASE tab[p].owed = "replaced" /\ ~Risk!Permitted(retained'[p])
    <3>1. tab'[p] = [tab[p] EXCEPT !.owed = "yes"]
      BY <2>1, <2>3
    <3> QED BY <2>2, <2>3, <3>1 DEF RiskTabs, Owings
  <2>4. CASE ~(tab[p].owed = "replaced" /\ ~Risk!Permitted(retained'[p]))
    <3>1. tab'[p] = [tab[p] EXCEPT !.owed = tab[p].owed]
      BY <2>1, <2>4
    <3> QED BY <2>2, <3>1 DEF RiskTabs
  <2> QED BY <2>3, <2>4
<1>8. RiskTyped' /\ DocumentsAreKnown'
  BY <1>1, <1>3, <1>6, <1>7 DEF RiskInv, RiskTyped, DocumentsAreKnown
<1>9. SelectedIsOpen' /\ AcknowledgedWas' /\ OwedIsKnown' /\ GateIsShut' /\ OpIsPlaced'
  BY <1>1, <1>3, <1>6, <1>7 DEF RiskInv, SelectedIsOpen, AcknowledgedWas, OwedIsKnown, GateIsShut, OpIsPlaced, AttachSteps
<1>10. Risk!Open' = Risk!Open
  BY <1>7 DEF Risk!Open
<1>11. WorkerIsGone' /\ NothingIsRestored' /\ NewerThanRecorded'
  BY <1>1, <1>2, <1>3 DEF RiskInv, WorkerIsGone, NothingIsRestored, NewerThanRecorded, Attaching
<1>12. FoundIsTold'
  BY <1>1, <1>2, <1>3, <1>7, <1>10 DEF RiskInv, FoundIsTold, Attaching, Risk!Open
<1> QED BY <1>8, <1>9, <1>11, <1>12 DEF RiskInv

LEMMA RiskNext == ASSUME RiskConstants, RiskInv, [Risk!Next]_(Risk!vars) PROVE RiskInv'
<1>1. CASE UNCHANGED Risk!vars
  BY <1>1 DEF Risk!vars, RiskInv, RiskTyped, SelectedIsOpen, AcknowledgedWas, OwedIsKnown, GateIsShut, OpIsPlaced,
     WorkerIsGone, NothingIsRestored, NewerThanRecorded, Behind, FoundIsTold, DocumentsAreKnown, Attaching, Risk!Open
<1>2. CASE Risk!Next
  BY <1>2, RiskWrites, RiskMoves, RiskBegins, RiskOpensTab, CommandsGoOn, RiskIsNoted, RiskIsGated, RiskIsDispatched,
     RiskIsLost, RiskAttaches, RiskCompares, RiskSelects, RiskIsRestored DEF Risk!Next
<1> QED BY <1>1, <1>2

LEMMA RiskSafe == ASSUME RiskConstants, RiskInv PROVE Risk!TypeOK /\ Risk!GateHolds
<1>1. retained \in [Pages -> Selections \cup {None}]
  BY DEF RiskInv, RiskTyped
<1>2. ~up => retained = [p \in Pages |-> None] /\ jobs = {}
  BY <1>1 DEF RiskInv, WorkerIsGone
<1>3. Risk!TypeOK
  BY <1>2 DEF RiskInv, SelectedIsOpen, AcknowledgedWas, Risk!TypeOK, Risk!Open
<1>4. Risk!GateHolds
  BY DEF RiskInv, GateIsShut, Risk!GateHolds, Risk!At
<1> QED BY <1>3, <1>4

LEMMA RiskTold == ASSUME RiskConstants, RiskInv, [Risk!Next]_(Risk!vars) PROVE Risk!ReplacementTold
<1> SUFFICES ASSUME op # None, op.kind = "attach", op.pc = "end", op.known, active = op.found, active # None
    PROVE  tab[active].told
  BY DEF Risk!ReplacementTold, Risk!At
<1>1. op.found \in Risk!Open
  BY DEF RiskInv, SelectedIsOpen, Risk!Open
<1> QED BY <1>1 DEF RiskInv, FoundIsTold, Attaching

\* The gate holds and replacements are told, for any pages and bounds, and
\* whether or not the browser answers and the writes succeed.
THEOREM UnsavedFilesAreKnown ==
    ASSUME RiskConstants
    PROVE  Risk!Spec => UnsavedFilesAreTold
<1>1. RiskInv => Risk!TypeOK /\ Risk!GateHolds
  BY RiskSafe
<1>2. RiskInv /\ [Risk!Next]_(Risk!vars) => [Risk!ReplacementTold]_(Risk!vars)
  BY RiskTold
<1> QED
  BY <1>1, <1>2, RiskInit, RiskNext, PTL DEF Risk!Spec, UnsavedFilesAreTold

-----------------------------------------------------------------------------
(* Events: the journal of the documents that replaced one another.         *)

Events == INSTANCE PageEvents WITH Pages <- EventPages, MaxDocuments <- EventDocuments,
    MaxWorkers <- EventWorkers, MayFail <- MayNotAnswer

\* Every replaced document gets into the journal, which is on disk whenever no
\* write waits (page-events.ts).
EventsAreKept == [](Events!TypeOK /\ Events!ReplacementRecorded /\ Events!SettledIsWritten)

EventSteps == {"observe", "navigated", "closed", "wait"}
EventFiles == [sequence : Nat, events : Seq(Nat)]
WaitsToWrite(p) == tails[p] # <<>> /\ Head(tails[p]) = "wait"
ReadsOrigin(p) == tails[p] # <<>> /\ Head(tails[p]) \in {"observe", "navigated"}

\* None is no document and no number.
EventConstants == None \notin Nat

EventsTyped ==
    /\ doc \in [EventPages -> Nat] /\ next \in Nat
    /\ tails \in [EventPages -> Seq(EventSteps)]
    /\ origin \in [EventPages -> Nat \cup {None}] /\ found \in [EventPages -> Nat \cup {None}]
    /\ sequence \in Nat /\ events \in Seq(Nat) /\ writes \in Seq(EventPages) /\ writing \in Nat \cup {None}
    /\ file \in EventFiles /\ up \in BOOLEAN /\ owed \subseteq EventPages

\* A page waits for a write with its first step only, and is observed first; what
\* a step has read belongs to it, and is not newer than what there is.
StepsFollow(p) ==
    /\ \A i \in 2 .. Len(tails[p]) : tails[p][i] \in {"navigated", "closed"}
    /\ found[p] # None => ReadsOrigin(p)
    /\ ReadsOrigin(p) /\ Head(tails[p]) = "observe" => origin[p] = None
    /\ (origin[p] # None => origin[p] < next) /\ (found[p] # None => found[p] < next) /\ doc[p] < next

\* A replaced document that is not told of yet will be: a navigation waits to be
\* looked into, and the document it finds is not the one it is compared with.
NavigationFrom(p, first) == \E i \in first .. Len(tails[p]) : tails[p][i] = "navigated"
Differs(read, now) == read # None /\ (read = 0 \/ read # now)
WillTell(p) ==
    \/ found[p] = None /\ Differs(origin[p], doc[p]) /\ NavigationFrom(p, 1)
    \/ found[p] # None /\ Head(tails[p]) = "navigated" /\ ~Events!Same(origin[p], found[p])
    \/ found[p] # None /\ Differs(found[p], doc[p]) /\ NavigationFrom(p, 2)
PageFollows(p) == StepsFollow(p) /\ (p \in owed => WillTell(p))

\* A step that waits has its write, and the last of them takes down the last number.
WritesFollow ==
    /\ \A p \in EventPages : WaitsToWrite(p) <=> \E i \in 1 .. Len(writes) : writes[i] = p
    /\ \A i, j \in 1 .. Len(writes) : writes[i] = writes[j] => i = j
    /\ writing # None => writes # <<>>
    /\ up /\ writes = <<>> => file = [sequence |-> sequence, events |-> events]
    /\ writing # None /\ Len(writes) = 1 => writing = sequence
NobodyWorks == ~up =>
    writes = <<>> /\ writing = None /\ owed = {} /\ \A p \in EventPages : tails[p] = <<>> /\ found[p] = None /\ origin[p] = None

EventsInv == EventsTyped /\ (\A p \in EventPages : PageFollows(p)) /\ WritesFollow /\ NobodyWorks

LEMMA EventsInit == ASSUME EventConstants, Events!Init PROVE EventsInv
<1>1. <<"observe">> \in Seq(EventSteps) /\ Len(<<"observe">>) = 1 /\ <<"observe">>[1] = "observe" /\ Head(<<"observe">>) = "observe"
      /\ <<"observe">> # <<>>
  BY DEF EventSteps
<1>2. EventsTyped
  BY <1>1 DEF Events!Init, EventsTyped, EventFiles
<1>3. \A p \in EventPages : PageFollows(p)
  BY <1>1 DEF Events!Init, PageFollows, StepsFollow, ReadsOrigin
<1>4. WritesFollow
  BY <1>1 DEF Events!Init, WritesFollow, WaitsToWrite
<1> QED BY <1>2, <1>3, <1>4 DEF EventsInv, NobodyWorks, Events!Init

-----------------------------------------------------------------------------
\* A step of one page leaves the others as they are.
LEMMA OthersFollow ==
    ASSUME EventConstants, EventsInv, EventsTyped', NEW p \in EventPages, next' >= next,
           \A q \in EventPages \ {p} : tails'[q] = tails[q] /\ found'[q] = found[q] /\ origin'[q] = origin[q] /\ doc'[q] = doc[q],
           \A q \in EventPages \ {p} : q \in owed' => q \in owed
    PROVE  \A q \in EventPages \ {p} : PageFollows(q)'
<1> TAKE q \in EventPages \ {p}
<1>1. PageFollows(q) /\ next \in Nat /\ next' \in Nat /\ origin[q] \in Nat \cup {None} /\ found[q] \in Nat \cup {None} /\ doc[q] \in Nat
  BY DEF EventsInv, EventsTyped
<1>2. StepsFollow(q)'
  BY <1>1 DEF PageFollows, StepsFollow, ReadsOrigin, EventConstants
<1>3. q \in owed' => WillTell(q)'
  BY <1>1 DEF PageFollows, WillTell, NavigationFrom
<1> QED BY <1>2, <1>3 DEF PageFollows

LEMMA MoreSteps ==
    ASSUME NEW s \in Seq(EventSteps), NEW e \in EventSteps
    PROVE  /\ Append(s, e) \in Seq(EventSteps) /\ Append(s, e) # <<>>
           /\ Len(s) \in Nat /\ Len(Append(s, e)) = Len(s) + 1 /\ Append(s, e)[Len(s) + 1] = e
           /\ \A i \in 1 .. Len(s) : Append(s, e)[i] = s[i]
           /\ Head(Append(s, e)) = IF s = <<>> THEN e ELSE Head(s)
           /\ s = <<>> <=> Len(s) = 0
BY AppendProperties, HeadTailAppend, EmptySeq, LenProperties

LEMMA FewerSteps ==
    ASSUME NEW s \in Seq(EventSteps), s # <<>>
    PROVE  /\ Tail(s) \in Seq(EventSteps) /\ Len(s) \in Nat \ {0} /\ Len(Tail(s)) = Len(s) - 1
           /\ \A i \in 1 .. Len(s) - 1 : Tail(s)[i] = s[i + 1]
           /\ Tail(s) # <<>> => Len(s) > 1 /\ Head(Tail(s)) = s[2]
           /\ Head(s) = s[1] /\ Head(s) \in EventSteps
<1>1. /\ Head(s) \in EventSteps /\ Tail(s) \in Seq(EventSteps) /\ Len(Tail(s)) = Len(s) - 1
      /\ \A i \in 1 .. Len(Tail(s)) : Tail(s)[i] = s[i + 1]
      /\ Len(s) \in Nat \ {0}
  BY HeadTailProperties, EmptySeq
<1>2. Head(s) = s[1]
  OBVIOUS
<1>3. Tail(s) # <<>> => Len(Tail(s)) \in Nat \ {0} /\ Head(Tail(s)) = Tail(s)[1]
  BY <1>1, EmptySeq
<1> QED BY <1>1, <1>2, <1>3

LEMMA WaitingStep ==
    ASSUME NEW s \in Seq(EventSteps), s # <<>>
    PROVE  LET t == <<"wait">> \o Tail(s) IN
           /\ t \in Seq(EventSteps) /\ t # <<>> /\ Len(t) = Len(s) /\ Head(t) = "wait" /\ Len(s) \in Nat
           /\ \A i \in 2 .. Len(s) : t[i] = s[i]
<1> DEFINE t == <<"wait">> \o Tail(s)
<1>1. /\ Tail(s) \in Seq(EventSteps) /\ Len(s) \in Nat \ {0} /\ Len(Tail(s)) = Len(s) - 1
      /\ \A i \in 1 .. Len(s) - 1 : Tail(s)[i] = s[i + 1]
  BY FewerSteps
<1>2. <<"wait">> \in Seq(EventSteps) /\ Len(<<"wait">>) = 1 /\ <<"wait">>[1] = "wait"
  BY DEF EventSteps
<1>3. /\ t \in Seq(EventSteps) /\ Len(t) = 1 + Len(Tail(s))
      /\ \A i \in 1 .. 1 + Len(Tail(s)) : t[i] = IF i <= 1 THEN <<"wait">>[i] ELSE Tail(s)[i - 1]
  BY <1>1, <1>2, ConcatProperties
<1> HIDE DEF t
<1>4. Len(t) = Len(s) /\ t[1] = "wait"
  BY <1>1, <1>2, <1>3
<1>5. t # <<>>
  BY <1>1, <1>4, EmptySeq
<1>6. Head(t) = t[1]
  BY <1>3, <1>5
<1>7. \A i \in 2 .. Len(s) : t[i] = s[i]
  BY <1>1, <1>3
<1> QED BY <1>1, <1>3, <1>4, <1>5, <1>6, <1>7 DEF t

\* The page navigates or goes: what waits to be looked into gets longer.
LEMMA PagesMove ==
    ASSUME EventConstants, EventsInv, Events!Navigates \/ Events!Closes
    PROVE  EventsInv'
<1>1. PICK p \in EventPages, e \in {"navigated", "closed"} :
        /\ up /\ tails' = [tails EXCEPT ![p] = Append(@, e)]
        /\ \/ UNCHANGED <<doc, next, owed>>
           \/ UNCHANGED <<doc, owed>> /\ next' = next + 1
           \/ doc' = [doc EXCEPT ![p] = 0] /\ UNCHANGED <<next, owed>>
           \/ /\ doc' = [doc EXCEPT ![p] = next] /\ next' = next + 1 /\ e = "navigated"
              /\ owed' = IF origin[p] = None /\ found[p] = None THEN owed ELSE owed \cup {p}
  BY DEF Events!Navigates, Events!Closes
<1>2. UNCHANGED <<origin, found, sequence, events, writes, writing, file, up>>
  BY DEF Events!Navigates, Events!Closes, Events!journal
<1>3. /\ EventsTyped /\ PageFollows(p) /\ tails[p] \in Seq(EventSteps) /\ e \in EventSteps /\ Len(tails[p]) \in Nat
      /\ next \in Nat /\ doc \in [EventPages -> Nat] /\ tails \in [EventPages -> Seq(EventSteps)]
      /\ origin[p] \in Nat \cup {None} /\ found[p] \in Nat \cup {None} /\ doc[p] \in Nat
  BY DEF EventsInv, EventsTyped, EventSteps
<1> DEFINE t == Append(tails[p], e)
<1>4. /\ t \in Seq(EventSteps) /\ t # <<>> /\ Len(t) = Len(tails[p]) + 1 /\ t[Len(tails[p]) + 1] = e
      /\ \A i \in 1 .. Len(tails[p]) : t[i] = tails[p][i]
      /\ Head(t) = IF tails[p] = <<>> THEN e ELSE Head(tails[p])
      /\ (tails[p] = <<>> <=> Len(tails[p]) = 0)
  BY <1>3, MoreSteps
<1> HIDE DEF t
<1>5. tails' = [tails EXCEPT ![p] = t]
  BY <1>1 DEF t
<1>6. EventsTyped'
  <2>1. doc' \in [EventPages -> Nat] /\ next' \in Nat /\ tails' \in [EventPages -> Seq(EventSteps)] /\ owed' \subseteq EventPages
    <3>1. owed \subseteq EventPages
      BY <1>3 DEF EventsTyped
    <3>2. tails' \in [EventPages -> Seq(EventSteps)]
      BY <1>3, <1>4, <1>5
    <3>3. CASE UNCHANGED <<doc, owed>> /\ (next' = next \/ next' = next + 1)
      BY <1>3, <3>1, <3>2, <3>3
    <3>4. CASE doc' = [doc EXCEPT ![p] = 0] /\ UNCHANGED <<next, owed>>
      BY <1>3, <3>1, <3>2, <3>4
    <3>5. CASE /\ doc' = [doc EXCEPT ![p] = next] /\ next' = next + 1
               /\ owed' = IF origin[p] = None /\ found[p] = None THEN owed ELSE owed \cup {p}
      BY <1>3, <3>1, <3>2, <3>5
    <3> QED BY <1>1, <3>3, <3>4, <3>5
  <2> QED BY <1>2, <1>3, <2>1, Zenon DEF EventsTyped
<1>7. tails'[p] = t /\ next' \in Nat /\ next' >= next
  BY <1>1, <1>3, <1>5
<1>8. StepsFollow(p)'
  <2>1. \A i \in 2 .. Len(t) : t[i] \in {"navigated", "closed"}
    <3> TAKE i \in 2 .. Len(t)
    <3>1. i = Len(tails[p]) + 1 \/ (i \in 2 .. Len(tails[p]) /\ i \in 1 .. Len(tails[p]))
      BY <1>3, <1>4
    <3> QED BY <1>3, <1>4, <3>1 DEF PageFollows, StepsFollow
  <2>2. (found[p] # None => found[p] < next') /\ (origin[p] # None => origin[p] < next')
    BY <1>3, <1>7 DEF PageFollows, StepsFollow
  <2>3. doc'[p] < next'
    <3>1. doc[p] < next
      BY <1>3 DEF PageFollows, StepsFollow
    <3> QED BY <1>1, <1>3, <3>1
  <2> QED BY <1>2, <1>3, <1>4, <1>7, <2>1, <2>2, <2>3 DEF PageFollows, StepsFollow, ReadsOrigin
<1>9. p \in owed' => WillTell(p)'
  <2>1. \A n \in {1, 2} : NavigationFrom(p, n) => NavigationFrom(p, n)'
    BY <1>3, <1>4, <1>7 DEF NavigationFrom
  <2>2. CASE UNCHANGED <<doc, owed>>
    <3>1. found[p] # None => Head(tails'[p]) = Head(tails[p])
      BY <1>3, <1>4, <1>7 DEF PageFollows, StepsFollow, ReadsOrigin
    <3> QED BY <1>2, <1>3, <2>1, <2>2, <3>1 DEF PageFollows, WillTell, Events!Same
  <2>3. CASE doc' = [doc EXCEPT ![p] = 0] /\ UNCHANGED <<next, owed>>
    <3>1. found[p] # None => Head(tails'[p]) = Head(tails[p])
      BY <1>3, <1>4, <1>7 DEF PageFollows, StepsFollow, ReadsOrigin
    <3>2. \A r \in Nat \cup {None} : Differs(r, doc[p]) => Differs(r, doc'[p])
      BY <1>3, <2>3 DEF Differs
    <3> QED BY <1>2, <1>3, <2>1, <2>3, <3>1, <3>2 DEF PageFollows, WillTell, Events!Same
  <2>4. CASE /\ doc' = [doc EXCEPT ![p] = next] /\ e = "navigated"
             /\ owed' = IF origin[p] = None /\ found[p] = None THEN owed ELSE owed \cup {p}
    <3>1. doc'[p] = next
      BY <1>3, <2>4
    <3>2. NavigationFrom(p, 1)' /\ (tails[p] # <<>> => NavigationFrom(p, 2)')
      BY <1>3, <1>4, <1>7, <2>4 DEF NavigationFrom
    <3>3. CASE found[p] # None
      <4>1. Differs(found[p], next) /\ tails[p] # <<>>
        BY <1>3, <3>3 DEF PageFollows, StepsFollow, ReadsOrigin, Differs
      <4> QED BY <1>2, <3>1, <3>2, <3>3, <4>1 DEF WillTell
    <3>4. CASE found[p] = None /\ origin[p] # None
      <4>1. Differs(origin[p], next)
        BY <1>3, <3>4 DEF PageFollows, StepsFollow, Differs
      <4> QED BY <1>2, <3>1, <3>2, <3>4, <4>1 DEF WillTell
    <3>5. CASE found[p] = None /\ origin[p] = None
      BY <1>3, <2>4, <3>5 DEF PageFollows, WillTell, Differs
    <3> QED BY <3>3, <3>4, <3>5
  <2> QED BY <1>1, <2>2, <2>3, <2>4
<1>10. \A q \in EventPages \ {p} : PageFollows(q)'
  BY <1>1, <1>2, <1>3, <1>5, <1>6, <1>7, OthersFollow DEF EventsTyped
<1>11. WritesFollow'
  <2>1. \A q \in EventPages : WaitsToWrite(q)' <=> WaitsToWrite(q)
    BY <1>1, <1>3, <1>4, <1>5, <1>7 DEF WaitsToWrite
  <2> QED BY <1>2, <2>1 DEF EventsInv, WritesFollow
<1>12. NobodyWorks'
  BY <1>1, <1>2 DEF NobodyWorks
<1> QED BY <1>6, <1>8, <1>9, <1>10, <1>11, <1>12 DEF EventsInv, PageFollows

-----------------------------------------------------------------------------
LEMMA OriginReadKeeps == ASSUME EventConstants, EventsInv, Events!ReadOrigin PROVE EventsInv'
<1>1. PICK p \in EventPages :
        /\ Events!Doing(p, "observe") \/ Events!Doing(p, "navigated")
        /\ found[p] = None
        /\ \E o \in {doc[p]} \cup (IF MayNotAnswer THEN {0} ELSE {}) : found' = [found EXCEPT ![p] = o]
  BY DEF Events!ReadOrigin
<1>2. PICK o \in {doc[p], 0} : found' = [found EXCEPT ![p] = o]
  BY <1>1
<1>3. UNCHANGED <<doc, next, tails, origin, sequence, events, writes, writing, file, up, owed>>
  BY DEF Events!ReadOrigin, Events!world, Events!journal
<1>4. EventsTyped /\ PageFollows(p) /\ ReadsOrigin(p) /\ up /\ found \in [EventPages -> Nat \cup {None}] /\ doc[p] \in Nat /\ next \in Nat
  BY <1>1 DEF EventsInv, EventsTyped, Events!Doing, ReadsOrigin
<1>5. found' \in [EventPages -> Nat \cup {None}] /\ found'[p] = o /\ o \in Nat /\ o # None /\ \A q \in EventPages \ {p} : found'[q] = found[q]
  BY <1>2, <1>4 DEF EventConstants
<1>6. EventsTyped'
  BY <1>3, <1>4, <1>5, Zenon DEF EventsTyped
<1>7. StepsFollow(p)'
  <2>1. o < next
    BY <1>2, <1>4 DEF PageFollows, StepsFollow
  <2> QED BY <1>3, <1>4, <1>5, <2>1 DEF PageFollows, StepsFollow, ReadsOrigin
<1>8. ASSUME p \in owed' PROVE WillTell(p)'
  <2>1. Differs(origin[p], doc[p])
    BY <1>1, <1>3, <1>4, <1>8 DEF PageFollows, WillTell
  <2>2. Head(tails[p]) = "navigated" /\ ~Events!Same(origin[p], o)
    BY <1>2, <1>4, <2>1 DEF PageFollows, StepsFollow, ReadsOrigin, Differs, Events!Same
  <2> QED BY <1>3, <1>5, <2>2 DEF WillTell, Events!Same
<1>9. \A q \in EventPages \ {p} : PageFollows(q)'
  BY <1>3, <1>4, <1>5, <1>6, OthersFollow
<1>10. WritesFollow' /\ NobodyWorks'
  BY <1>3, <1>4 DEF EventsInv, WritesFollow, NobodyWorks, WaitsToWrite
<1> QED BY <1>6, <1>7, <1>8, <1>9, <1>10 DEF EventsInv, PageFollows

\* A step that is through leaves the page's other steps.
LEMMA StepsLeft ==
    ASSUME EventConstants, EventsInv, NEW p \in EventPages, tails[p] # <<>>
    PROVE  /\ Tail(tails[p]) \in Seq(EventSteps) /\ Len(tails[p]) \in Nat \ {0} /\ Len(Tail(tails[p])) = Len(tails[p]) - 1
           /\ \A i \in 1 .. Len(tails[p]) - 1 : Tail(tails[p])[i] = tails[p][i + 1] /\ tails[p][i + 1] \in {"navigated", "closed"}
           /\ Tail(tails[p]) # <<>> => Head(Tail(tails[p])) \in {"navigated", "closed"}
           /\ Head(tails[p]) = tails[p][1]
<1>1. tails[p] \in Seq(EventSteps) /\ \A i \in 2 .. Len(tails[p]) : tails[p][i] \in {"navigated", "closed"}
  BY DEF EventsInv, EventsTyped, PageFollows, StepsFollow
<1>2. /\ Tail(tails[p]) \in Seq(EventSteps) /\ Len(tails[p]) \in Nat \ {0} /\ Len(Tail(tails[p])) = Len(tails[p]) - 1
      /\ \A i \in 1 .. Len(tails[p]) - 1 : Tail(tails[p])[i] = tails[p][i + 1]
      /\ Tail(tails[p]) # <<>> => Len(tails[p]) > 1 /\ Head(Tail(tails[p])) = tails[p][2]
      /\ Head(tails[p]) = tails[p][1]
  BY <1>1, FewerSteps
<1> QED BY <1>1, <1>2

\* record: the page's step waits, and its write is the last.
LEMMA RecordWrites ==
    ASSUME EventConstants, EventsInv, NEW p \in EventPages, NEW kind, up, tails[p] # <<>>, ~WaitsToWrite(p), Events!Record(p, kind),
           UNCHANGED <<doc, next, writing, file, up>>
    PROVE  /\ WritesFollow' /\ NobodyWorks'
           /\ tails' \in [EventPages -> Seq(EventSteps)] /\ owed' \subseteq owed /\ owed' \subseteq EventPages
           /\ sequence' \in Nat /\ events' \in Seq(Nat) /\ writes' \in Seq(EventPages)
           /\ tails'[p] # <<>> /\ Len(tails'[p]) = Len(tails[p]) /\ WaitsToWrite(p)'
           /\ \A i \in 2 .. Len(tails[p]) : tails'[p][i] = tails[p][i]
           /\ \A q \in EventPages \ {p} : tails'[q] = tails[q]
<1>1. /\ EventsTyped /\ WritesFollow /\ tails[p] \in Seq(EventSteps) /\ tails \in [EventPages -> Seq(EventSteps)] /\ owed \subseteq EventPages
      /\ sequence \in Nat /\ events \in Seq(Nat) /\ writes \in Seq(EventPages)
  BY DEF EventsInv, EventsTyped
<1> DEFINE t == <<"wait">> \o Tail(tails[p])
<1>2. /\ t \in Seq(EventSteps) /\ t # <<>> /\ Len(t) = Len(tails[p]) /\ Head(t) = "wait" /\ Len(tails[p]) \in Nat
      /\ \A i \in 2 .. Len(tails[p]) : t[i] = tails[p][i]
  BY <1>1, WaitingStep
<1>3. tails' = [tails EXCEPT ![p] = t] /\ sequence' = sequence + 1 /\ events' = Append(events, sequence + 1) /\ writes' = Append(writes, p)
  BY DEF Events!Record
<1>4. owed' \subseteq owed
  BY DEF Events!Record
<1> HIDE DEF t
<1>5. tails' \in [EventPages -> Seq(EventSteps)] /\ tails'[p] = t /\ \A q \in EventPages \ {p} : tails'[q] = tails[q]
  BY <1>1, <1>2, <1>3
<1>6. sequence' \in Nat /\ events' \in Seq(Nat) /\ writes' \in Seq(EventPages)
  BY <1>1, <1>3, AppendProperties
<1>7. /\ Len(writes) \in Nat /\ Len(writes') = Len(writes) + 1 /\ writes'[Len(writes) + 1] = p
      /\ \A i \in 1 .. Len(writes) : writes'[i] = writes[i]
      /\ (writes = <<>> <=> Len(writes) = 0)
  BY <1>1, <1>3, AppendProperties, LenProperties, EmptySeq
<1>8. WaitsToWrite(p)' /\ \A q \in EventPages \ {p} : WaitsToWrite(q)' <=> WaitsToWrite(q)
  BY <1>2, <1>5 DEF WaitsToWrite
<1>9. writes' # <<>>
  BY <1>6, <1>7, EmptySeq
<1>10. ~\E i \in 1 .. Len(writes) : writes[i] = p
  BY <1>1 DEF WritesFollow
<1>11. WritesFollow'
  <2>1. \A q \in EventPages : WaitsToWrite(q)' <=> \E i \in 1 .. Len(writes') : writes'[i] = q
    <3> TAKE q \in EventPages
    <3>1. CASE q = p
      BY <1>7, <1>8, <3>1
    <3>2. CASE q # p
      <4>1. WaitsToWrite(q)' <=> \E i \in 1 .. Len(writes) : writes[i] = q
        BY <1>1, <1>8, <3>2 DEF WritesFollow
      <4>2. (\E i \in 1 .. Len(writes) : writes[i] = q) <=> \E i \in 1 .. Len(writes') : writes'[i] = q
        BY <1>7, <3>2
      <4> QED BY <4>1, <4>2
    <3> QED BY <3>1, <3>2
  <2>2. \A i, j \in 1 .. Len(writes') : writes'[i] = writes'[j] => i = j
    <3> TAKE i, j \in 1 .. Len(writes')
    <3> HAVE writes'[i] = writes'[j]
    <3>1. \A k \in 1 .. Len(writes') : k = Len(writes) + 1 \/ k \in 1 .. Len(writes)
      BY <1>7
    <3>2. \A k \in 1 .. Len(writes) : writes'[k] # p
      BY <1>7, <1>10
    <3>3. CASE i \in 1 .. Len(writes) /\ j \in 1 .. Len(writes)
      BY <1>1, <1>7, <3>3 DEF WritesFollow
    <3> QED BY <1>7, <3>1, <3>2, <3>3
  <2>3. writing' # None => Len(writes') > 1
    BY <1>1, <1>7 DEF WritesFollow
  <2> QED BY <1>7, <1>9, <2>1, <2>2, <2>3 DEF WritesFollow
<1>12. NobodyWorks'
  BY DEF NobodyWorks
<1> QED BY <1>1, <1>2, <1>4, <1>5, <1>6, <1>8, <1>11, <1>12

\* The steps that record: what a page was observed with, and its replacement and end.
LEMMA StepsRecord ==
    ASSUME EventConstants, EventsInv, NEW p \in EventPages, NEW kind, NEW step \in {"observe", "navigated", "closed"}, Events!Doing(p, step), Events!Record(p, kind),
           UNCHANGED <<doc, next, writing, file, up>>,
           step = "closed" => UNCHANGED <<origin, found>>,
           step # "closed" => found[p] # None /\ origin' = [origin EXCEPT ![p] = found[p]] /\ found' = [found EXCEPT ![p] = None],
           step = "navigated" => kind = "document_replaced"
    PROVE  EventsInv'
<1>1. tails[p] # <<>> /\ Head(tails[p]) = step /\ up /\ ~WaitsToWrite(p)
  BY DEF Events!Doing, WaitsToWrite
<1>2. /\ WritesFollow' /\ NobodyWorks'
      /\ tails' \in [EventPages -> Seq(EventSteps)] /\ owed' \subseteq owed /\ owed' \subseteq EventPages
      /\ sequence' \in Nat /\ events' \in Seq(Nat) /\ writes' \in Seq(EventPages)
      /\ tails'[p] # <<>> /\ Len(tails'[p]) = Len(tails[p]) /\ WaitsToWrite(p)'
      /\ \A i \in 2 .. Len(tails[p]) : tails'[p][i] = tails[p][i]
      /\ \A q \in EventPages \ {p} : tails'[q] = tails[q]
  BY <1>1, RecordWrites
<1>3. /\ EventsTyped /\ PageFollows(p) /\ next \in Nat /\ doc[p] \in Nat
      /\ origin \in [EventPages -> Nat \cup {None}] /\ found \in [EventPages -> Nat \cup {None}]
  BY DEF EventsInv, EventsTyped
<1>4. /\ Len(tails[p]) \in Nat \ {0} /\ Head(tails[p]) = tails[p][1]
      /\ \A i \in 2 .. Len(tails[p]) : tails[p][i] \in {"navigated", "closed"}
  <2>1. /\ Len(tails[p]) \in Nat \ {0} /\ Head(tails[p]) = tails[p][1]
        /\ \A i \in 1 .. Len(tails[p]) - 1 : tails[p][i + 1] \in {"navigated", "closed"}
    BY <1>1, StepsLeft
  <2> QED BY <1>3 , <2>1 DEF PageFollows, StepsFollow
<1>5. /\ origin' \in [EventPages -> Nat \cup {None}] /\ found' \in [EventPages -> Nat \cup {None}] /\ found'[p] = None
      /\ origin'[p] = IF step = "closed" THEN origin[p] ELSE found[p]
      /\ \A q \in EventPages \ {p} : origin'[q] = origin[q] /\ found'[q] = found[q]
  <2>1. CASE step = "closed"
    BY <1>1, <1>3, <2>1 DEF PageFollows, StepsFollow, ReadsOrigin
  <2>2. CASE step # "closed"
    BY <1>3, <2>2
  <2> QED BY <2>1, <2>2
<1>6. EventsTyped'
  BY <1>2, <1>3, <1>5, Zenon DEF EventsTyped
<1>7. StepsFollow(p)'
  BY <1>1, <1>2, <1>3, <1>4, <1>5 DEF PageFollows, StepsFollow, WaitsToWrite, ReadsOrigin
<1>8. ASSUME p \in owed' PROVE WillTell(p)'
  <2>1. WillTell(p)
    BY <1>2, <1>3, <1>8 DEF PageFollows
  <2>2. NavigationFrom(p, 2) => NavigationFrom(p, 1)'
    <3> SUFFICES ASSUME NEW i \in 2 .. Len(tails[p]), tails[p][i] = "navigated" PROVE \E j \in 1 .. Len(tails'[p]) : tails'[p][j] = "navigated"
      BY DEF NavigationFrom
    <3>1. i \in 1 .. Len(tails'[p]) /\ tails'[p][i] = tails[p][i]
      BY <1>2, <1>4
    <3> QED BY <3>1
  <2>3. Head(tails[p]) # "navigated" /\ NavigationFrom(p, 1) => NavigationFrom(p, 2)
    BY <1>4 DEF NavigationFrom
  <2>4. CASE step = "observe"
    <3>1. Differs(found[p], doc[p]) /\ NavigationFrom(p, 2)
      BY <1>1, <2>1, <2>4 DEF WillTell
    <3> QED BY <1>5, <2>2, <2>4, <3>1 DEF WillTell, Differs
  <2>5. CASE step = "navigated"
    BY <1>8, <2>5 DEF Events!Record
  <2>6. CASE step = "closed"
    <3>1. found[p] = None /\ Differs(origin[p], doc[p]) /\ NavigationFrom(p, 1)
      BY <1>1, <1>3, <2>1, <2>6 DEF WillTell, PageFollows, StepsFollow, ReadsOrigin
    <3> QED BY <1>1, <1>5, <2>2, <2>3, <2>6, <3>1 DEF WillTell, Differs
  <2> QED BY <2>4, <2>5, <2>6
<1>9. \A q \in EventPages \ {p} : PageFollows(q)'
  <2>1. next' >= next /\ \A q \in EventPages \ {p} : doc'[q] = doc[q]
    BY <1>3
  <2> QED BY <1>2, <1>5, <1>6, <2>1, OthersFollow
<1> QED BY <1>2, <1>6, <1>7, <1>8, <1>9 DEF EventsInv, PageFollows

LEMMA ObservedKeeps == ASSUME EventConstants, EventsInv, Events!Observed PROVE EventsInv'
<1>1. PICK p \in EventPages : /\ Events!Doing(p, "observe") /\ found[p] # None
                              /\ origin' = [origin EXCEPT ![p] = found[p]] /\ found' = [found EXCEPT ![p] = None] /\ Events!Record(p, "page_observed")
  BY DEF Events!Observed
<1> QED BY <1>1, StepsRecord DEF Events!Observed, Events!world

LEMMA ClosedKeeps == ASSUME EventConstants, EventsInv, Events!Closed PROVE EventsInv'
<1>1. PICK p \in EventPages : Events!Doing(p, "closed") /\ Events!Record(p, "page_closed")
  BY DEF Events!Closed
<1> QED BY <1>1, StepsRecord DEF Events!Closed, Events!world

\* A navigation that finds the document it was compared with tells nothing.
LEMMA SameDocument ==
    ASSUME EventConstants, EventsInv, NEW p \in EventPages, Events!Doing(p, "navigated"), found[p] # None, Events!Same(origin[p], found[p]),
           origin' = [origin EXCEPT ![p] = found[p]], found' = [found EXCEPT ![p] = None],
           tails' = [tails EXCEPT ![p] = Tail(@)],
           UNCHANGED <<doc, next, sequence, events, writes, writing, file, up, owed>>
    PROVE  EventsInv'
<1>1. tails[p] # <<>> /\ Head(tails[p]) = "navigated" /\ up /\ ~WaitsToWrite(p)
  BY DEF Events!Doing, WaitsToWrite
<1>2. /\ EventsTyped /\ PageFollows(p) /\ next \in Nat /\ tails \in [EventPages -> Seq(EventSteps)]
      /\ origin \in [EventPages -> Nat \cup {None}] /\ found \in [EventPages -> Nat \cup {None}]
  BY DEF EventsInv, EventsTyped
<1> DEFINE t == Tail(tails[p])
<1>3. /\ t \in Seq(EventSteps) /\ Len(tails[p]) \in Nat \ {0} /\ Len(t) = Len(tails[p]) - 1
      /\ \A i \in 1 .. Len(tails[p]) - 1 : t[i] = tails[p][i + 1] /\ tails[p][i + 1] \in {"navigated", "closed"}
      /\ t # <<>> => Head(t) \in {"navigated", "closed"}
  BY <1>1, StepsLeft
<1>4. tails' = [tails EXCEPT ![p] = t]
  OBVIOUS
<1> HIDE DEF t
<1>5. /\ tails' \in [EventPages -> Seq(EventSteps)] /\ tails'[p] = t
      /\ origin' \in [EventPages -> Nat \cup {None}] /\ found' \in [EventPages -> Nat \cup {None}] /\ found'[p] = None /\ origin'[p] = found[p]
      /\ \A q \in EventPages \ {p} : tails'[q] = tails[q] /\ origin'[q] = origin[q] /\ found'[q] = found[q]
  BY <1>2, <1>3, <1>4
<1>6. EventsTyped'
  BY <1>2, <1>5, Zenon DEF EventsTyped
<1>7. StepsFollow(p)'
  BY <1>2, <1>3, <1>5 DEF PageFollows, StepsFollow, ReadsOrigin
<1>8. ASSUME p \in owed' PROVE WillTell(p)'
  <2>1. Differs(found[p], doc[p]) /\ NavigationFrom(p, 2)
    BY <1>2, <1>8 DEF PageFollows, WillTell
  <2>2. NavigationFrom(p, 1)'
    <3>1. PICK i \in 2 .. Len(tails[p]) : tails[p][i] = "navigated"
      BY <2>1 DEF NavigationFrom
    <3>2. i - 1 \in 1 .. Len(t) /\ t[i - 1] = tails[p][i]
      <4>1. i - 1 \in 1 .. Len(tails[p]) - 1 /\ (i - 1) + 1 = i
        BY <1>3
      <4> QED BY <1>3, <4>1
    <3> QED BY <1>5, <3>1, <3>2 DEF NavigationFrom
  <2> QED BY <1>5, <2>1, <2>2 DEF WillTell, Differs
<1>9. \A q \in EventPages \ {p} : PageFollows(q)'
  BY <1>2, <1>5, <1>6, OthersFollow
<1>10. WritesFollow'
  <2>1. \A q \in EventPages : WaitsToWrite(q)' <=> WaitsToWrite(q)
    BY <1>1, <1>3, <1>5 DEF WaitsToWrite
  <2> QED BY <2>1 DEF EventsInv, WritesFollow
<1>11. NobodyWorks'
  BY <1>1 DEF NobodyWorks
<1> QED BY <1>6, <1>7, <1>8, <1>9, <1>10, <1>11 DEF EventsInv, PageFollows

LEMMA NavigatedKeeps == ASSUME EventConstants, EventsInv, Events!Navigated PROVE EventsInv'
<1>1. PICK p \in EventPages : /\ Events!Doing(p, "navigated") /\ found[p] # None
        /\ origin' = [origin EXCEPT ![p] = found[p]] /\ found' = [found EXCEPT ![p] = None]
        /\ IF Events!Unchanged(origin[p], found[p]) THEN tails' = [tails EXCEPT ![p] = Tail(@)] /\ UNCHANGED <<Events!journal, owed>>
           ELSE Events!Record(p, "document_replaced")
  BY DEF Events!Navigated
<1>2. CASE Events!Unchanged(origin[p], found[p])
  BY <1>1, <1>2, SameDocument DEF Events!Navigated, Events!Unchanged, Events!world, Events!journal
<1>3. CASE ~Events!Unchanged(origin[p], found[p])
  BY <1>1, <1>3, StepsRecord DEF Events!Navigated, Events!world
<1> QED BY <1>2, <1>3

-----------------------------------------------------------------------------
\* The step whose write has ended is through.
LEMMA WriteEndsKeeps == ASSUME EventConstants, EventsInv, Events!WriteEnds PROVE EventsInv'
<1>1. /\ up /\ writing # None /\ writing' = None /\ file' = Events!Landed /\ writes' = Tail(writes)
      /\ tails' = [tails EXCEPT ![Head(writes)] = Tail(@)]
      /\ UNCHANGED <<doc, next, origin, found, sequence, events, up, owed>>
  BY DEF Events!WriteEnds, Events!Remaining, Events!world
<1>2. /\ EventsTyped /\ WritesFollow /\ writes \in Seq(EventPages) /\ writes # <<>> /\ tails \in [EventPages -> Seq(EventSteps)]
      /\ writing \in Nat /\ events \in Seq(Nat)
  BY <1>1 DEF EventsInv, EventsTyped, WritesFollow
<1>0. PICK p \in EventPages : p = Head(writes)
  BY <1>2, HeadTailProperties
<1>3. /\ writes' \in Seq(EventPages) /\ Len(writes) \in Nat \ {0} /\ Len(writes') = Len(writes) - 1 /\ p = writes[1]
      /\ \A i \in 1 .. Len(writes) - 1 : writes'[i] = writes[i + 1]
  <2>1. /\ Tail(writes) \in Seq(EventPages) /\ Len(Tail(writes)) = Len(writes) - 1
        /\ \A i \in 1 .. Len(Tail(writes)) : Tail(writes)[i] = writes[i + 1]
    BY <1>2, HeadTailProperties
  <2>2. Len(writes) \in Nat \ {0} /\ Head(writes) = writes[1]
    BY <1>2, LenProperties, EmptySeq
  <2> QED BY <1>0, <1>1, <2>1, <2>2
<1>4. PageFollows(p) /\ WaitsToWrite(p)
  BY <1>2, <1>3 DEF EventsInv, WritesFollow
<1> DEFINE t == Tail(tails[p])
<1>5. /\ t \in Seq(EventSteps) /\ Len(tails[p]) \in Nat \ {0} /\ Len(t) = Len(tails[p]) - 1
      /\ \A i \in 1 .. Len(tails[p]) - 1 : t[i] = tails[p][i + 1] /\ tails[p][i + 1] \in {"navigated", "closed"}
      /\ t # <<>> => Head(t) \in {"navigated", "closed"}
      /\ Head(tails[p]) = tails[p][1]
  BY <1>3, <1>4, StepsLeft DEF WaitsToWrite
<1>6. tails' = [tails EXCEPT ![p] = t]
  BY <1>0, <1>1
<1> HIDE DEF t
<1>7. /\ tails' \in [EventPages -> Seq(EventSteps)] /\ tails'[p] = t /\ \A q \in EventPages \ {p} : tails'[q] = tails[q]
  BY <1>2, <1>3, <1>5, <1>6
<1>8. EventsTyped'
  <2>1. file' \in EventFiles
    BY <1>1, <1>2 DEF Events!Landed, EventFiles
  <2> QED BY <1>1, <1>2, <1>3, <1>7, <2>1, Zenon DEF EventsTyped
<1>9. StepsFollow(p)' /\ found[p] = None
  BY <1>1, <1>4, <1>5, <1>7 DEF PageFollows, StepsFollow, ReadsOrigin, WaitsToWrite
<1>10. ASSUME p \in owed' PROVE WillTell(p)'
  <2>1. Differs(origin[p], doc[p]) /\ NavigationFrom(p, 1)
    BY <1>1, <1>4, <1>9, <1>10 DEF PageFollows, WillTell
  <2>2. NavigationFrom(p, 2)
    BY <1>4, <1>5, <2>1 DEF NavigationFrom, WaitsToWrite
  <2>3. NavigationFrom(p, 1)'
    <3>1. PICK i \in 2 .. Len(tails[p]) : tails[p][i] = "navigated"
      BY <2>2 DEF NavigationFrom
    <3>2. i - 1 \in 1 .. Len(t) /\ t[i - 1] = tails[p][i]
      <4>1. i - 1 \in 1 .. Len(tails[p]) - 1 /\ (i - 1) + 1 = i
        BY <1>5
      <4> QED BY <1>5, <4>1
    <3> QED BY <1>7, <3>1, <3>2 DEF NavigationFrom
  <2> QED BY <1>1, <1>9, <2>1, <2>3 DEF WillTell
<1>11. \A q \in EventPages \ {p} : PageFollows(q)'
  <2>1. next' >= next
    BY <1>1, <1>2 DEF EventsTyped
  <2> QED BY <1>1, <1>3, <1>7, <1>8, <2>1, OthersFollow
<1>12. WritesFollow'
  <2>1. ~WaitsToWrite(p)' /\ \A q \in EventPages \ {p} : WaitsToWrite(q)' <=> WaitsToWrite(q)
    BY <1>5, <1>7 DEF WaitsToWrite
  <2>2. \A i, j \in 1 .. Len(writes) : writes[i] = writes[j] => i = j
    BY <1>2 DEF WritesFollow
  <2>3. \A i, j \in 1 .. Len(writes') : writes'[i] = writes'[j] => i = j
    <3> TAKE i, j \in 1 .. Len(writes')
    <3>1. i + 1 \in 1 .. Len(writes) /\ j + 1 \in 1 .. Len(writes) /\ writes'[i] = writes[i + 1] /\ writes'[j] = writes[j + 1]
      BY <1>3
    <3> QED BY <1>3, <2>2, <3>1
  <2>4. \A q \in EventPages : WaitsToWrite(q)' <=> \E i \in 1 .. Len(writes') : writes'[i] = q
    <3> TAKE q \in EventPages
    <3>1. WaitsToWrite(q) <=> \E i \in 1 .. Len(writes) : writes[i] = q
      BY <1>2 DEF WritesFollow
    <3>2. CASE q = p
      <4>1. ~\E i \in 1 .. Len(writes') : writes'[i] = p
        BY <1>3, <2>2
      <4> QED BY <2>1, <3>2, <4>1
    <3>3. CASE q # p
      <4>1. (\E i \in 1 .. Len(writes) : writes[i] = q) => \E i \in 1 .. Len(writes') : writes'[i] = q
        <5> SUFFICES ASSUME NEW i \in 1 .. Len(writes), writes[i] = q PROVE \E j \in 1 .. Len(writes') : writes'[j] = q
          OBVIOUS
        <5>1. i # 1 /\ i - 1 \in 1 .. Len(writes) - 1 /\ (i - 1) + 1 = i
          BY <1>3, <3>3
        <5>2. i - 1 \in 1 .. Len(writes') /\ writes'[i - 1] = writes[i]
          BY <1>3, <5>1
        <5> QED BY <5>2
      <4>2. (\E i \in 1 .. Len(writes') : writes'[i] = q) => \E i \in 1 .. Len(writes) : writes[i] = q
        <5> SUFFICES ASSUME NEW i \in 1 .. Len(writes'), writes'[i] = q PROVE \E j \in 1 .. Len(writes) : writes[j] = q
          OBVIOUS
        <5>1. i + 1 \in 1 .. Len(writes) /\ writes[i + 1] = writes'[i]
          BY <1>3
        <5> QED BY <5>1
      <4> QED BY <2>1, <3>1, <3>3, <4>1, <4>2
    <3> QED BY <3>2, <3>3
  <2>5. ASSUME writes' = <<>> PROVE file' = [sequence |-> sequence', events |-> events']
    <3>1. Len(writes) = 1
      BY <1>3, <2>5, EmptySeq
    <3> QED BY <1>1, <1>2, <3>1 DEF WritesFollow, Events!Landed
  <2> QED BY <1>1, <2>3, <2>4, <2>5 DEF WritesFollow
<1>13. NobodyWorks'
  BY <1>1 DEF NobodyWorks
<1> QED BY <1>8, <1>9, <1>10, <1>11, <1>12, <1>13 DEF EventsInv, PageFollows

\* A worker that goes leaves nothing in memory.
LEMMA EventsLostKeeps == ASSUME EventConstants, EventsInv, Events!WorkerLost PROVE EventsInv'
<1>1. /\ up' = FALSE
      /\ tails' = [p \in EventPages |-> <<>>] /\ origin' = [p \in EventPages |-> None] /\ found' = [p \in EventPages |-> None]
      /\ sequence' = 0 /\ events' = <<>> /\ writes' = <<>> /\ writing' = None /\ owed' = {}
      /\ UNCHANGED <<doc, next, file>>
  BY DEF Events!WorkerLost, Events!world
<1>2. EventsTyped /\ \A p \in EventPages : doc[p] < next
  BY DEF EventsInv, PageFollows, StepsFollow
<1>3. <<>> \in Seq(EventSteps) /\ <<>> \in Seq(Nat) /\ <<>> \in Seq(EventPages) /\ Len(<<>>) = 0
  BY EmptySeq
<1>4. EventsTyped'
  <2>1. tails' \in [EventPages -> Seq(EventSteps)] /\ sequence' \in Nat /\ events' \in Seq(Nat) /\ writes' \in Seq(EventPages)
    BY <1>1, <1>3
  <2>2. origin' \in [EventPages -> Nat \cup {None}] /\ found' \in [EventPages -> Nat \cup {None}] /\ writing' \in Nat \cup {None} /\ owed' \subseteq EventPages
    BY <1>1
  <2> QED BY <1>1, <1>2, <2>1, <2>2, Zenon DEF EventsTyped
<1>5. \A p \in EventPages : PageFollows(p)'
  BY <1>1, <1>2, <1>3 DEF PageFollows, StepsFollow, ReadsOrigin
<1>6. WritesFollow'
  BY <1>1, <1>3 DEF WritesFollow, WaitsToWrite
<1>7. NobodyWorks'
  BY <1>1 DEF NobodyWorks
<1> QED BY <1>4, <1>5, <1>6, <1>7 DEF EventsInv

LEMMA EventsRestoreKeeps == ASSUME EventConstants, EventsInv, Events!Restore PROVE EventsInv'
<1>1. /\ ~up /\ up' = TRUE /\ sequence' = file.sequence /\ events' = file.events
      /\ tails' = [p \in EventPages |-> IF doc[p] = 0 THEN <<>> ELSE <<"observe">>]
      /\ UNCHANGED <<doc, next, origin, found, writes, writing, file, owed>>
  BY DEF Events!Restore, Events!Restored, Events!world
<1>2. EventsTyped /\ \A p \in EventPages : doc[p] < next
  BY DEF EventsInv, PageFollows, StepsFollow
<1>3. writes = <<>> /\ writing = None /\ owed = {} /\ \A p \in EventPages : found[p] = None /\ origin[p] = None
  BY <1>1 DEF EventsInv, NobodyWorks
<1>4. /\ <<>> \in Seq(EventSteps) /\ Len(<<>>) = 0
      /\ <<"observe">> \in Seq(EventSteps) /\ Len(<<"observe">>) = 1 /\ Head(<<"observe">>) = "observe"
  BY EmptySeq DEF EventSteps
<1>5. EventsTyped'
  <2>1. tails' \in [EventPages -> Seq(EventSteps)]
    BY <1>1, <1>4
  <2>2. sequence' \in Nat /\ events' \in Seq(Nat)
    BY <1>1, <1>2 DEF EventsTyped, EventFiles
  <2> QED BY <1>1, <1>2, <2>1, <2>2, Zenon DEF EventsTyped
<1>6. \A p \in EventPages : PageFollows(p)'
  BY <1>1, <1>2, <1>3, <1>4 DEF PageFollows, StepsFollow, ReadsOrigin
<1>7. WritesFollow'
  <2>1. \A p \in EventPages : ~WaitsToWrite(p)'
    BY <1>1, <1>4 DEF WaitsToWrite
  <2>2. file' = [sequence |-> sequence', events |-> events']
    BY <1>1, <1>2 DEF EventsTyped, EventFiles
  <2> QED BY <1>1, <1>3, <1>4, <2>1, <2>2 DEF WritesFollow
<1> QED BY <1>1, <1>5, <1>6, <1>7 DEF EventsInv, NobodyWorks

LEMMA WriteStartsKeeps == ASSUME EventConstants, EventsInv, Events!WriteStarts PROVE EventsInv'
<1>1. /\ up /\ writing = None /\ writes # <<>> /\ writing' = sequence
      /\ UNCHANGED <<doc, next, tails, origin, found, sequence, events, writes, file, up, owed>>
  BY DEF Events!WriteStarts, Events!world, Events!journal
<1>2. EventsTyped'
  BY <1>1, Zenon DEF EventsInv, EventsTyped
<1>3. \A p \in EventPages : PageFollows(p)'
  BY <1>1 DEF EventsInv, PageFollows, StepsFollow, WillTell, ReadsOrigin, NavigationFrom
<1>4. WritesFollow' /\ NobodyWorks'
  BY <1>1 DEF EventsInv, WritesFollow, NobodyWorks, WaitsToWrite
<1> QED BY <1>2, <1>3, <1>4 DEF EventsInv

\* What the agent asks changes none of it.
LEMMA JournalKept ==
    ASSUME EventsInv, UNCHANGED <<doc, next, tails, origin, found, sequence, events, writes, writing, file, up, owed>>
    PROVE  EventsInv'
BY DEF EventsInv, EventsTyped, PageFollows, StepsFollow, WillTell, ReadsOrigin, NavigationFrom, WritesFollow, NobodyWorks, WaitsToWrite

LEMMA EventsNext == ASSUME EventConstants, EventsInv, [Events!Next]_(Events!vars) PROVE EventsInv'
<1>1. CASE Events!Navigates \/ Events!Closes BY <1>1, PagesMove
<1>2. CASE Events!ReadOrigin BY <1>2, OriginReadKeeps
<1>3. CASE Events!Observed BY <1>3, ObservedKeeps
<1>4. CASE Events!Navigated BY <1>4, NavigatedKeeps
<1>5. CASE Events!Closed BY <1>5, ClosedKeeps
<1>6. CASE Events!WriteStarts BY <1>6, WriteStartsKeeps
<1>7. CASE Events!WriteEnds BY <1>7, WriteEndsKeeps
<1>8. CASE Events!ListAsks
  BY <1>8, JournalKept DEF Events!ListAsks, Events!world, Events!journal
<1>9. CASE Events!ListAnswers
  BY <1>9, JournalKept DEF Events!ListAnswers, Events!world
<1>10. CASE Events!WorkerLost BY <1>10, EventsLostKeeps
<1>11. CASE Events!Restore BY <1>11, EventsRestoreKeeps
<1>12. CASE UNCHANGED Events!vars
  BY <1>12, JournalKept DEF Events!vars
<1> QED BY <1>1, <1>2, <1>3, <1>4, <1>5, <1>6, <1>7, <1>8, <1>9, <1>10, <1>11, <1>12 DEF Events!Next

LEMMA EventsSafe ==
    ASSUME EventConstants, EventsInv
    PROVE  Events!TypeOK /\ Events!ReplacementRecorded /\ Events!SettledIsWritten
<1>1. EventsTyped /\ WritesFollow /\ NobodyWorks /\ writes \in Seq(EventPages) /\ DOMAIN writes = 1 .. Len(writes)
  BY LenProperties DEF EventsInv, EventsTyped
<1>2. Events!TypeOK
  <2>1. \A p \in EventPages : Events!Doing(p, "wait") <=> WaitsToWrite(p)
    BY <1>1 DEF Events!Doing, WaitsToWrite, NobodyWorks
  <2>2. Events!IsInjective(writes)
    BY <1>1 DEF WritesFollow, Events!IsInjective
  <2> QED BY <1>1, <2>1, <2>2 DEF Events!TypeOK, WritesFollow
<1>3. Events!ReplacementRecorded
  <2> SUFFICES ASSUME NEW p \in EventPages, tails[p] = <<>> PROVE p \notin owed
    BY DEF Events!ReplacementRecorded
  <2>1. PageFollows(p) /\ Len(tails[p]) = 0
    BY EmptySeq DEF EventsInv
  <2> QED BY <2>1 DEF PageFollows, StepsFollow, WillTell, ReadsOrigin, NavigationFrom
<1> QED BY <1>1, <1>2, <1>3 DEF Events!SettledIsWritten, WritesFollow

\* The journal has them, for any pages and numbers of documents and workers,
\* and whether or not the pages answer.
THEOREM ReplacementsAreRecorded ==
    ASSUME EventConstants
    PROVE  Events!Spec => EventsAreKept
<1>1. EventsInv => Events!TypeOK /\ Events!ReplacementRecorded /\ Events!SettledIsWritten
  BY EventsSafe
<1> QED
  BY <1>1, EventsInit, EventsNext, PTL DEF Events!Spec, EventsAreKept

-----------------------------------------------------------------------------
(* Download: the records of captured downloads, and their manifest.        *)

Download == INSTANCE DownloadJournal WITH MaxWorkers <- DownloadWorkers, MayFail <- FALSE

\* Downloads keep one number each and never go back, over workers too, and none
\* is in progress that is not being captured (download-manager.ts).
DownloadsAreKept ==
    /\ [](Download!TypeOK /\ Download!NumberedOnce /\ Download!InProgressIsCaptured)
    /\ [][Download!NeverBackwards]_(Download!vars)

\* A set of numbers has a least one, and the greatest if there is a bound.
LEMMA LeastIsThere ==
    ASSUME NEW T, T \subseteq Nat, T # {}
    PROVE  \E x \in T : \A y \in T : x <= y
<1>1. IsWellFoundedOn(OpToRel(<, Nat), Nat)
  BY NatLessThanWellFounded
<1> DEFINE R == OpToRel(<, Nat)
<1>2. \A x, y \in Nat : <<x, y>> \in R <=> x < y
  BY DEF OpToRel
<1> HIDE DEF R
<1>3. \E x \in T : \A y \in T : ~ (<<y, x>> \in R)
  BY <1>1, WFMin DEF R
<1>4. PICK x \in T : \A y \in T : ~ (<<y, x>> \in R)
  BY <1>3
<1>5. \A y \in T : ~ (y < x)
  BY <1>2, <1>4
<1>6. \A y \in T : x \in Nat /\ y \in Nat
  OBVIOUS
<1> QED BY <1>5, <1>6

LEMMA GreatestIsThere ==
    ASSUME NEW T, T \subseteq Nat, T # {}, NEW b \in Nat, \A x \in T : x <= b
    PROVE  \E x \in T : \A y \in T : y <= x
<1> DEFINE U == {b - x : x \in T}
<1>1. U \subseteq Nat /\ U # {}
  <2>1. \A x \in T : b - x \in Nat
    <3> TAKE x \in T
    <3>1. x \in Nat /\ x <= b
      OBVIOUS
    <3> QED BY <3>1
  <2> QED BY <2>1
<1>2. PICK u \in U : \A v \in U : u <= v
  BY <1>1, LeastIsThere
<1>3. PICK x \in T : u = b - x
  OBVIOUS
<1>4. \A y \in T : b - x <= b - y
  <2> TAKE y \in T
  <2>1. b - y \in U
    OBVIOUS
  <2> QED BY <1>2, <1>3, <2>1
<1>5. \A y \in T : y \in Nat /\ x \in Nat
  OBVIOUS
<1> QED BY <1>4, <1>5

DownloadStates == {"in_progress", "completed", "failed", "interrupted"}
CaptureSteps == {"none", "recorded", "save", "finished", "ended"}
DownloadRecords == [seq : Nat, state : DownloadStates]
Takes == [sequence : Nat, ids : SUBSET Downloads]
Filed == DOMAIN file.downloads

\* None is no record, and what a write takes down.
DownloadConstants ==
    /\ IsFiniteSet(Downloads) /\ Retained \in Nat /\ None \notin DownloadRecords /\ None \notin Takes

DownloadsTyped ==
    /\ sequence \in Nat /\ obj \in [Downloads -> DownloadRecords \cup {None}] /\ kept \subseteq Downloads
    /\ capture \in [Downloads -> CaptureSteps] /\ chain \in Seq(Downloads) /\ writing \in Takes \cup {None}
    /\ broken = FALSE /\ up \in BOOLEAN
    /\ file.sequence \in Nat /\ Filed \subseteq Downloads /\ \A d \in Filed : file.downloads[d] \in DownloadRecords

\* What is known in memory has a number of its own, none above the last.
Numbered ==
    /\ \A d \in Downloads : obj[d] # None => obj[d].seq <= sequence
    /\ \A d, e \in Downloads : obj[d] # None /\ obj[e] # None /\ obj[d].seq = obj[e].seq => d = e
    /\ \A d \in Downloads : capture[d] = "none" => obj[d] = None
    /\ (\A d \in kept : obj[d] # None) /\ Cardinality(kept) <= Retained

\* A download is in progress as long as its capture is, and each capture waits once.
CapturesFollow ==
    /\ up => \A d \in Downloads : capture[d] \in {"recorded", "save"} <=> obj[d] # None /\ obj[d].state = "in_progress"
    /\ \A i \in 1 .. Len(chain) : capture[chain[i]] \in {"recorded", "finished"}
    /\ \A i, j \in 1 .. Len(chain) : chain[i] = chain[j] => i = j
    /\ writing # None => chain # <<>>

\* What is not in "after" any more made room for newer downloads.
Replaces(before, after, o) == \A d \in before \ after : Cardinality({e \in after : o[e].seq > o[d].seq}) >= Retained

FileNumbered ==
    /\ \A d \in Filed : file.downloads[d].seq <= file.sequence /\ capture[d] # "none"
    /\ \A d, e \in Filed : file.downloads[d].seq = file.downloads[e].seq => d = e

\* The manifest is behind the records, and the write under way between them.
FileFollows == up =>
    /\ file.sequence <= sequence
    /\ \A d \in Filed : /\ obj[d] # None /\ obj[d].seq = file.downloads[d].seq
                        /\ file.downloads[d].state = "in_progress" \/ obj[d] = file.downloads[d]
    /\ writing = None => Replaces(Filed, kept, obj)
WriteFollows == writing # None =>
    /\ file.sequence <= writing.sequence /\ writing.sequence <= sequence
    /\ \A d \in writing.ids : obj[d] # None /\ obj[d].seq <= writing.sequence
    /\ Replaces(Filed, writing.ids, obj) /\ Replaces(writing.ids, kept, obj)
NobodyCaptures == ~up =>
    /\ chain = <<>> /\ writing = None /\ kept = {}
    /\ \A d \in Downloads : obj[d] = None /\ capture[d] \in {"none", "ended"}

DownloadInv == DownloadsTyped /\ Numbered /\ CapturesFollow /\ FileNumbered /\ FileFollows /\ WriteFollows /\ NobodyCaptures

LEMMA SameDownloadCardinality == \A S : Download!Cardinality(S) = Cardinality(S)
BY Zenon DEF Download!Cardinality, Cardinality

-----------------------------------------------------------------------------
\* trimRecords: what goes makes room for Retained newer downloads, and no more stay.
LEMMA TrimmedLeaves ==
    ASSUME Retained \in Nat, NEW S, IsFiniteSet(S), NEW o, NEW b \in Nat, \A e \in S : o[e].seq \in Nat /\ o[e].seq <= b,
           NEW x \in S, x \notin Download!Trimmed(S, o)
    PROVE  Cardinality({e \in Download!Trimmed(S, o) : o[e].seq > o[x].seq}) >= Retained
<1> DEFINE T == Download!Trimmed(S, o)
           Out == S \ T
           Ns == {o[e].seq : e \in Out}
<1>1. Ns \subseteq Nat /\ Ns # {} /\ \A n \in Ns : n <= b
  OBVIOUS
<1>2. PICK n \in Ns : \A k \in Ns : k <= n
  BY <1>1, GreatestIsThere
<1>3. PICK m \in Out : n = o[m].seq
  OBVIOUS
<1>4. \A e \in Out : o[e].seq <= o[m].seq
  BY <1>2, <1>3
<1> DEFINE H == {e \in S : o[e].seq > o[m].seq}
           X == {e \in T : o[e].seq > o[x].seq}
<1>5. T = {d \in S : Cardinality({e \in S : o[e].seq > o[d].seq}) < Retained}
  BY SameDownloadCardinality DEF Download!Trimmed
<1> HIDE DEF T
<1>6. T \subseteq S /\ ~(Cardinality(H) < Retained)
  BY <1>3, <1>5
<1>7. H \subseteq X
  <2> SUFFICES ASSUME NEW e \in S, o[e].seq > o[m].seq PROVE e \in T /\ o[e].seq > o[x].seq
    OBVIOUS
  <2>1. e \in T
    BY <1>3, <1>4
  <2>2. o[x].seq <= o[m].seq
    BY <1>4 DEF T
  <2> QED BY <1>3, <2>1, <2>2
<1>8. H \subseteq S /\ X \subseteq S
  BY <1>6
<1> HIDE DEF H, X
<1>9. IsFiniteSet(X) /\ IsFiniteSet(H)
  BY <1>8, FS_Subset
<1>10. Cardinality(H) \in Nat /\ Cardinality(X) \in Nat /\ Cardinality(H) <= Cardinality(X)
  BY <1>7, <1>9, FS_Subset, FS_CardinalityType
<1> QED BY <1>6, <1>10 DEF X, T

LEMMA TrimmedBound ==
    ASSUME Retained \in Nat, NEW S, IsFiniteSet(S), NEW o, \A e \in S : o[e].seq \in Nat,
           \A d, e \in S : o[d].seq = o[e].seq => d = e
    PROVE  Download!Trimmed(S, o) \subseteq S /\ Cardinality(Download!Trimmed(S, o)) <= Retained
<1> DEFINE T == Download!Trimmed(S, o)
           Ns == {o[e].seq : e \in T}
<1>1. T = {d \in S : Cardinality({e \in S : o[e].seq > o[d].seq}) < Retained}
  BY SameDownloadCardinality DEF Download!Trimmed
<1>2. T \subseteq S
  BY <1>1
<1> HIDE DEF T
<1>3. CASE T = {}
  BY <1>2, <1>3, FS_EmptySet DEF T
<1>4. CASE T # {}
  <2>1. Ns \subseteq Nat /\ Ns # {}
    BY <1>2, <1>4
  <2>2. PICK n \in Ns : \A k \in Ns : n <= k
    BY <2>1, LeastIsThere
  <2>3. PICK m \in T : n = o[m].seq
    OBVIOUS
  <2>4. \A e \in T : o[m].seq <= o[e].seq
    BY <2>2, <2>3
  <2> DEFINE H == {e \in S : o[e].seq > o[m].seq}
  <2>5. H \subseteq S /\ m \notin H /\ m \in S
    BY <1>2
  <2>6. T \subseteq H \cup {m}
    <3> SUFFICES ASSUME NEW e \in T PROVE e \in H \cup {m}
      OBVIOUS
    <3>1. e \in S /\ m \in S /\ o[m].seq <= o[e].seq /\ o[m].seq \in Nat /\ o[e].seq \in Nat
      BY <1>2, <2>4
    <3>2. o[m].seq = o[e].seq => e = m
      BY <3>1
    <3>3. o[e].seq > o[m].seq \/ o[m].seq = o[e].seq
      BY <3>1
    <3> QED BY <3>1, <3>2, <3>3
  <2>7. Cardinality(H) < Retained
    BY <1>1, <2>3
  <2> HIDE DEF H
  <2>8. IsFiniteSet(H) /\ Cardinality(H) \in Nat
    BY <2>5, FS_Subset, FS_CardinalityType
  <2>9. IsFiniteSet(H \cup {m}) /\ Cardinality(H \cup {m}) = Cardinality(H) + 1
    BY <2>5, <2>8, FS_AddElement
  <2>10. IsFiniteSet(T) /\ Cardinality(T) \in Nat /\ Cardinality(T) <= Cardinality(H \cup {m})
    BY <2>6, <2>9, FS_Subset, FS_CardinalityType
  <2> QED BY <1>2, <2>7, <2>8, <2>9, <2>10 DEF T
<1> QED BY <1>3, <1>4

\* What had made room for the records makes room for those that are left of them.
LEMMA TrimmedReplaces ==
    ASSUME Retained \in Nat, NEW S, IsFiniteSet(S), NEW o, NEW b \in Nat, \A e \in S : o[e].seq \in Nat /\ o[e].seq <= b,
           NEW F, NEW K, K \subseteq S, \A d \in F : o[d].seq \in Nat, Replaces(F, K, o)
    PROVE  Replaces(F, Download!Trimmed(S, o), o)
<1> DEFINE T == Download!Trimmed(S, o)
           Above(A, n) == {e \in A : o[e].seq > n}
<1> SUFFICES ASSUME NEW x \in F \ T PROVE Cardinality(Above(T, o[x].seq)) >= Retained
  BY DEF Replaces
<1>1. T \subseteq S
  BY DEF Download!Trimmed
<1>2. CASE x \in S
  BY <1>2, TrimmedLeaves
<1>3. CASE x \notin S
  <2>1. Cardinality(Above(K, o[x].seq)) >= Retained
    BY <1>3 DEF Replaces
  <2>2. CASE Above(K, o[x].seq) \subseteq T
    <3> DEFINE A == Above(K, o[x].seq)
               B == Above(T, o[x].seq)
    <3>1. A \subseteq B /\ B \subseteq S
      BY <1>1, <2>2
    <3> HIDE DEF A, B
    <3>2. IsFiniteSet(B)
      BY <3>1, FS_Subset
    <3>3. IsFiniteSet(A) /\ Cardinality(A) <= Cardinality(B) /\ Cardinality(A) \in Nat /\ Cardinality(B) \in Nat
      BY <3>1, <3>2, FS_Subset, FS_CardinalityType
    <3>4. Cardinality(A) >= Retained
      BY <2>1 DEF A
    <3>5. Cardinality(B) >= Retained
      BY <3>3, <3>4
    <3> QED BY <3>5 DEF B
  <2>3. ASSUME NEW y \in Above(K, o[x].seq), y \notin T PROVE Cardinality(Above(T, o[x].seq)) >= Retained
    <3> DEFINE A == {e \in T : o[e].seq > o[y].seq}
               B == Above(T, o[x].seq)
    <3>1. y \in S
      BY <2>3
    <3>2. Cardinality(A) >= Retained
      BY <2>3, <3>1, TrimmedLeaves
    <3>3. o[y].seq > o[x].seq /\ o[y].seq \in Nat /\ o[x].seq \in Nat
      BY <3>1
    <3>4. A \subseteq B /\ B \subseteq S
      BY <1>1, <3>3
    <3> HIDE DEF A, B
    <3>5. IsFiniteSet(B)
      BY <3>4, FS_Subset
    <3>6. IsFiniteSet(A) /\ Cardinality(A) <= Cardinality(B) /\ Cardinality(A) \in Nat /\ Cardinality(B) \in Nat
      BY <3>4, <3>5, FS_Subset, FS_CardinalityType
    <3>7. Cardinality(B) >= Retained
      BY <3>2, <3>6
    <3> QED BY <3>7 DEF B
  <2> QED BY <2>2, <2>3
<1> QED BY <1>2, <1>3

\* Only the numbers count.
LEMMA ReplacesAsNumbered ==
    ASSUME NEW F, NEW K, NEW o, NEW p, \A d \in F \cup K : p[d].seq = o[d].seq, Replaces(F, K, o)
    PROVE  Replaces(F, K, p)
<1> SUFFICES ASSUME NEW x \in F \ K PROVE Cardinality({e \in K : p[e].seq > p[x].seq}) >= Retained
  BY DEF Replaces
<1>1. {e \in K : p[e].seq > p[x].seq} = {e \in K : o[e].seq > o[x].seq}
  OBVIOUS
<1>2. Cardinality({e \in K : o[e].seq > o[x].seq}) >= Retained
  BY DEF Replaces
<1> QED BY <1>1, <1>2

LEMMA ReplacesItself == ASSUME NEW F, NEW o PROVE Replaces(F, F, o)
BY DEF Replaces

-----------------------------------------------------------------------------
LEMMA DownloadInit == ASSUME DownloadConstants, Download!Init PROVE DownloadInv
<1>1. Filed = {} /\ file.sequence = 0
  BY DEF Download!Init, Filed
<1>2. <<>> \in Seq(Downloads) /\ Len(<<>>) = 0
  BY EmptySeq
<1>3. DownloadsTyped
  BY <1>1, <1>2 DEF Download!Init, DownloadsTyped, CaptureSteps
<1>4. Cardinality(kept) <= Retained
  BY FS_EmptySet DEF Download!Init, DownloadConstants
<1>5. Numbered /\ CapturesFollow
  BY <1>2, <1>4 DEF Download!Init, Numbered, CapturesFollow
<1>6. FileNumbered /\ FileFollows /\ WriteFollows /\ NobodyCaptures
  BY <1>1 DEF Download!Init, FileNumbered, FileFollows, WriteFollows, NobodyCaptures, Replaces
<1> QED BY <1>3, <1>5, <1>6 DEF DownloadInv

\* A capture whose write is to be waited for comes last.
LEMMA Persisted ==
    ASSUME DownloadConstants, DownloadInv, NEW d \in Downloads, NEW step \in {"recorded", "finished"}, capture[d] \in {"none", "save"},
           Download!Persist(d, step), UNCHANGED writing
    PROVE  /\ capture' = [capture EXCEPT ![d] = step] /\ capture' \in [Downloads -> CaptureSteps] /\ chain' \in Seq(Downloads)
           /\ \A i \in 1 .. Len(chain') : capture'[chain'[i]] \in {"recorded", "finished"}
           /\ \A i, j \in 1 .. Len(chain') : chain'[i] = chain'[j] => i = j
           /\ writing' # None => chain' # <<>>
<1>1. capture' = [capture EXCEPT ![d] = step] /\ chain' = Append(chain, d)
  BY DEF Download!Persist, DownloadInv, DownloadsTyped
<1>2. capture \in [Downloads -> CaptureSteps] /\ chain \in Seq(Downloads) /\ CapturesFollow
  BY DEF DownloadInv, DownloadsTyped
<1>3. /\ chain' \in Seq(Downloads) /\ Len(chain) \in Nat /\ Len(chain') = Len(chain) + 1 /\ chain'[Len(chain) + 1] = d
      /\ \A i \in 1 .. Len(chain) : chain'[i] = chain[i] /\ chain[i] \in Downloads
  BY <1>1, <1>2, AppendProperties, LenProperties, ElementOfSeq
<1>4. \A i \in 1 .. Len(chain) : chain[i] # d
  BY <1>2 DEF CapturesFollow
<1>5. \A i \in 1 .. Len(chain') : i = Len(chain) + 1 \/ i \in 1 .. Len(chain)
  BY <1>3
<1>6. \A i \in 1 .. Len(chain') : capture'[chain'[i]] \in {"recorded", "finished"}
  <2> TAKE i \in 1 .. Len(chain')
  <2>1. CASE i = Len(chain) + 1
    BY <1>1, <1>2, <1>3, <2>1
  <2>2. CASE i \in 1 .. Len(chain)
    BY <1>1, <1>2, <1>3, <1>4, <2>2 DEF CapturesFollow
  <2> QED BY <1>5, <2>1, <2>2
<1>7. \A i, j \in 1 .. Len(chain') : chain'[i] = chain'[j] => i = j
  <2> TAKE i, j \in 1 .. Len(chain')
  <2> HAVE chain'[i] = chain'[j]
  <2>1. CASE i \in 1 .. Len(chain) /\ j \in 1 .. Len(chain)
    BY <1>2, <1>3, <2>1 DEF CapturesFollow
  <2>2. \A k \in 1 .. Len(chain) : chain'[k] # d
    BY <1>3, <1>4
  <2> QED BY <1>3, <1>5, <2>1, <2>2
<1>8. capture' \in [Downloads -> CaptureSteps]
  BY <1>1, <1>2 DEF CaptureSteps
<1>9. chain' # <<>>
  BY <1>3, EmptySeq
<1> QED BY <1>1, <1>3, <1>6, <1>7, <1>8, <1>9

LEMMA CaptureKeeps == ASSUME DownloadConstants, DownloadInv, Download!Capture PROVE DownloadInv'
<1>1. PICK d \in Downloads :
        /\ up /\ capture[d] = "none" /\ sequence' = sequence + 1
        /\ obj' = [obj EXCEPT ![d] = [seq |-> sequence + 1, state |-> "in_progress"]]
        /\ kept' = Download!Trimmed(kept \cup {d}, obj') /\ Download!Persist(d, "recorded")
        /\ UNCHANGED <<writing, broken, file, up>>
  BY DEF Download!Capture, Download!NextNumber
<1>2. DownloadsTyped /\ Numbered /\ CapturesFollow /\ FileNumbered /\ FileFollows /\ WriteFollows /\ NobodyCaptures
  BY DEF DownloadInv
<1>3. /\ sequence \in Nat /\ obj \in [Downloads -> DownloadRecords \cup {None}] /\ kept \subseteq Downloads
      /\ capture \in [Downloads -> CaptureSteps] /\ Filed \subseteq Downloads /\ Filed' = Filed
  BY <1>1, <1>2 DEF DownloadsTyped, Filed
<1>4. /\ capture' = [capture EXCEPT ![d] = "recorded"] /\ capture' \in [Downloads -> CaptureSteps] /\ chain' \in Seq(Downloads)
      /\ \A i \in 1 .. Len(chain') : capture'[chain'[i]] \in {"recorded", "finished"}
      /\ \A i, j \in 1 .. Len(chain') : chain'[i] = chain'[j] => i = j
      /\ writing' # None => chain' # <<>>
  BY <1>1, Persisted
<1> DEFINE r == [seq |-> sequence + 1, state |-> "in_progress"]
<1>5. r \in DownloadRecords /\ r.seq = sequence + 1 /\ r.state = "in_progress" /\ r # None
  BY <1>3 DEF DownloadRecords, DownloadStates, DownloadConstants
<1>6. obj' = [obj EXCEPT ![d] = r]
  BY <1>1
<1> HIDE DEF r
<1>7. /\ obj' \in [Downloads -> DownloadRecords \cup {None}] /\ obj'[d] = r /\ obj[d] = None
      /\ \A e \in Downloads \ {d} : obj'[e] = obj[e]
  BY <1>1, <1>2, <1>3, <1>5, <1>6 DEF Numbered
<1>8. \A e \in Downloads : obj[e] # None => obj[e] \in DownloadRecords /\ obj[e].seq \in Nat /\ obj[e].seq <= sequence /\ obj'[e] = obj[e]
  BY <1>2, <1>3, <1>7 DEF Numbered, DownloadRecords
<1> DEFINE S == kept \cup {d}
<1>9. S \subseteq Downloads /\ IsFiniteSet(S) /\ \A e \in S : obj'[e] # None /\ obj'[e].seq \in Nat /\ obj'[e].seq <= sequence + 1
  <2>1. \A e \in kept : obj[e] # None /\ e \in Downloads
    BY <1>2, <1>3 DEF Numbered
  <2>2. \A e \in kept : obj'[e] # None /\ obj'[e].seq \in Nat /\ obj'[e].seq <= sequence + 1
    BY <1>3, <1>8, <2>1
  <2>3. S \subseteq Downloads
    BY <1>3
  <2>4. IsFiniteSet(S)
    BY <2>3, FS_Subset DEF DownloadConstants
  <2> QED BY <1>3, <1>5, <1>7, <2>2, <2>3, <2>4
<1>10. \A e, f \in Downloads : obj'[e] # None /\ obj'[f] # None /\ obj'[e].seq = obj'[f].seq => e = f
  <2> TAKE e, f \in Downloads
  <2> HAVE obj'[e] # None /\ obj'[f] # None /\ obj'[e].seq = obj'[f].seq
  <2>1. CASE e # d /\ f # d
    BY <1>2, <1>7, <2>1 DEF Numbered
  <2>2. CASE e = d /\ f # d
    BY <1>3, <1>5, <1>7, <1>8, <2>2
  <2>3. CASE e # d /\ f = d
    BY <1>3, <1>5, <1>7, <1>8, <2>3
  <2> QED BY <2>1, <2>2, <2>3
<1>11. kept' = Download!Trimmed(S, obj') /\ Retained \in Nat
  BY <1>1 DEF DownloadConstants
<1>12. kept' \subseteq S /\ Cardinality(kept') <= Retained
  <2>1. Download!Trimmed(S, obj') \subseteq S /\ Cardinality(Download!Trimmed(S, obj')) <= Retained
    BY <1>9, <1>10, <1>11, TrimmedBound
  <2> QED BY <1>11, <2>1
<1>13. DownloadsTyped'
  <2>1. sequence' \in Nat /\ kept' \subseteq Downloads
    BY <1>1, <1>3, <1>9, <1>12
  <2> QED BY <1>1, <1>2, <1>3, <1>4, <1>7, <2>1, Zenon DEF DownloadsTyped
<1>14. Numbered'
  <2>1. \A e \in Downloads : obj'[e] # None => obj'[e].seq <= sequence'
    <3> TAKE e \in Downloads
    <3>1. CASE e = d
      BY <1>1, <1>3, <1>5, <1>7, <3>1
    <3>2. CASE e # d
      BY <1>1, <1>3, <1>7, <1>8, <3>2
    <3> QED BY <3>1, <3>2
  <2>2. \A e \in Downloads : capture'[e] = "none" => obj'[e] = None
    BY <1>2, <1>3, <1>4, <1>7 DEF Numbered
  <2>3. \A e \in kept' : obj'[e] # None
    BY <1>9, <1>12
  <2> QED BY <1>10, <1>12, <2>1, <2>2, <2>3 DEF Numbered
<1>15. CapturesFollow'
  <2>1. \A e \in Downloads : capture'[e] \in {"recorded", "save"} <=> obj'[e] # None /\ obj'[e].state = "in_progress"
    <3> TAKE e \in Downloads
    <3>1. CASE e = d
      BY <1>3, <1>4, <1>5, <1>7, <3>1
    <3>2. CASE e # d
      BY <1>1, <1>2, <1>3, <1>4, <1>7, <3>2 DEF CapturesFollow
    <3> QED BY <3>1, <3>2
  <2> QED BY <1>4, <2>1 DEF CapturesFollow
<1>16. FileNumbered'
  BY <1>1, <1>2, <1>3, <1>4 DEF FileNumbered
<1>17. ASSUME NEW F, \A e \in F : e \in Downloads /\ obj[e] # None, Replaces(F, kept, obj) PROVE Replaces(F, kept', obj')
  <2>1. \A e \in F \cup kept : obj'[e].seq = obj[e].seq
    BY <1>2, <1>3, <1>8, <1>17 DEF Numbered
  <2>2. Replaces(F, kept, obj')
    BY <1>17, <2>1, ReplacesAsNumbered
  <2>3. \A e \in F : obj'[e].seq \in Nat
    BY <1>8, <1>17
  <2>4. sequence + 1 \in Nat /\ kept \subseteq S
    BY <1>3
  <2> HIDE DEF S
  <2>5. Replaces(F, Download!Trimmed(S, obj'), obj')
    BY <1>9, <1>11, <2>2, <2>3, <2>4, TrimmedReplaces
  <2> QED BY <1>11, <2>5
<1>18. FileFollows'
  <2>1. \A e \in Filed : obj[e] # None /\ e \in Downloads /\ obj'[e] = obj[e]
    BY <1>1, <1>2, <1>3, <1>8 DEF FileFollows
  <2>2. writing = None => Replaces(Filed, kept', obj')
    BY <1>1, <1>2, <1>17, <2>1 DEF FileFollows
  <2>3. file.sequence <= sequence'
    BY <1>1, <1>2, <1>3 DEF FileFollows, DownloadsTyped
  <2>4. \A e \in Filed : obj[e].seq = file.downloads[e].seq /\ (file.downloads[e].state = "in_progress" \/ obj[e] = file.downloads[e])
    BY <1>1, <1>2 DEF FileFollows
  <2>5. (writing = None => Replaces(Filed, kept, obj))' <=> (writing = None => Replaces(Filed, kept', obj'))
    BY <1>1, <1>3 DEF Replaces
  <2> QED BY <1>1, <1>3, <2>1, <2>2, <2>3, <2>4, <2>5 DEF FileFollows
<1>19. WriteFollows'
  <2> SUFFICES ASSUME writing # None PROVE WriteFollows'
    BY <1>1 DEF WriteFollows
  <2>1. /\ file.sequence <= writing.sequence /\ writing.sequence <= sequence
        /\ \A e \in writing.ids : obj[e] # None /\ obj[e].seq <= writing.sequence
        /\ Replaces(Filed, writing.ids, obj) /\ Replaces(writing.ids, kept, obj)
    BY <1>2 DEF WriteFollows
  <2>2. writing.ids \subseteq Downloads /\ writing.sequence \in Nat
    BY <1>2 DEF DownloadsTyped, Takes
  <2>3. \A e \in Filed \cup writing.ids : e \in Downloads /\ obj[e] # None /\ obj'[e] = obj[e]
    BY <1>1, <1>2, <1>3, <1>8, <2>1, <2>2 DEF FileFollows
  <2>4. Replaces(Filed, writing.ids, obj') /\ Replaces(writing.ids, kept', obj')
    BY <1>17, <2>1, <2>3, ReplacesAsNumbered
  <2>5. Replaces(Filed, writing.ids, obj)' /\ Replaces(writing.ids, kept, obj)'
    BY <1>1, <1>3, <2>4 DEF Replaces
  <2>6. writing'.sequence <= sequence' /\ file'.sequence <= writing'.sequence
    BY <1>1, <1>3, <2>1, <2>2
  <2> QED BY <1>1, <2>1, <2>3, <2>5, <2>6 DEF WriteFollows
<1>20. NobodyCaptures'
  BY <1>1 DEF NobodyCaptures
<1> QED BY <1>13, <1>14, <1>15, <1>16, <1>18, <1>19, <1>20 DEF DownloadInv

\* saveAs: the numbers stay, and only what was in progress changes.
LEMMA SaveKeeps == ASSUME DownloadConstants, DownloadInv, Download!Save PROVE DownloadInv'
<1>1. PICK d \in Downloads, state \in {"completed", "failed"} :
        capture[d] = "save" /\ obj' = [obj EXCEPT ![d].state = state] /\ Download!Persist(d, "finished")
  BY DEF Download!Save
<1>2. UNCHANGED <<sequence, kept, writing, broken, file, up>>
  BY DEF Download!Save
<1>3. DownloadsTyped /\ Numbered /\ CapturesFollow /\ FileNumbered /\ FileFollows /\ WriteFollows /\ NobodyCaptures
  BY DEF DownloadInv
<1>4. /\ obj \in [Downloads -> DownloadRecords \cup {None}] /\ kept \subseteq Downloads /\ up
      /\ capture \in [Downloads -> CaptureSteps] /\ Filed \subseteq Downloads /\ Filed' = Filed
  BY <1>1, <1>2, <1>3 DEF DownloadsTyped, Filed, NobodyCaptures
<1>5. /\ capture' = [capture EXCEPT ![d] = "finished"] /\ capture' \in [Downloads -> CaptureSteps] /\ chain' \in Seq(Downloads)
      /\ \A i \in 1 .. Len(chain') : capture'[chain'[i]] \in {"recorded", "finished"}
      /\ \A i, j \in 1 .. Len(chain') : chain'[i] = chain'[j] => i = j
      /\ writing' # None => chain' # <<>>
  BY <1>1, <1>2, Persisted
<1>6. obj[d] \in DownloadRecords /\ obj[d] # None /\ obj[d].state = "in_progress"
  BY <1>1, <1>3, <1>4 DEF CapturesFollow
<1> DEFINE r == [obj[d] EXCEPT !.state = state]
<1>7. r \in DownloadRecords /\ r.seq = obj[d].seq /\ r.state = state /\ r # None
  BY <1>6 DEF DownloadRecords, DownloadStates, DownloadConstants
<1>8. obj' = [obj EXCEPT ![d] = r]
  BY <1>1
<1> HIDE DEF r
<1>9. obj' \in [Downloads -> DownloadRecords \cup {None}] /\ obj'[d] = r /\ \A e \in Downloads \ {d} : obj'[e] = obj[e]
  BY <1>4, <1>7, <1>8
<1>10. \A e \in Downloads : (obj'[e] # None <=> obj[e] # None) /\ (obj[e] # None => obj'[e].seq = obj[e].seq)
  BY <1>6, <1>7, <1>9
<1>11. DownloadsTyped'
  BY <1>2, <1>3, <1>4, <1>5, <1>9, Zenon DEF DownloadsTyped
<1>12. Numbered'
  <2>1. \A e \in Downloads : capture'[e] = "none" => obj'[e] = None
    BY <1>3, <1>4, <1>5, <1>9 DEF Numbered
  <2>2. \A e \in kept : e \in Downloads /\ obj[e] # None
    BY <1>3, <1>4 DEF Numbered
  <2> QED BY <1>2, <1>3, <1>10, <2>1, <2>2 DEF Numbered
<1>13. CapturesFollow'
  <2>1. \A e \in Downloads : capture'[e] \in {"recorded", "save"} <=> obj'[e] # None /\ obj'[e].state = "in_progress"
    <3> TAKE e \in Downloads
    <3>1. CASE e = d
      BY <1>1, <1>4, <1>5, <1>7, <1>9, <3>1
    <3>2. CASE e # d
      BY <1>3, <1>4, <1>5, <1>9, <3>2 DEF CapturesFollow
    <3> QED BY <3>1, <3>2
  <2> QED BY <1>5, <2>1 DEF CapturesFollow
<1>14. FileNumbered'
  BY <1>2, <1>3, <1>4, <1>5 DEF FileNumbered
<1>15. ASSUME NEW F, NEW K, \A e \in F \cup K : e \in Downloads /\ obj[e] # None, Replaces(F, K, obj) PROVE Replaces(F, K, obj')
  BY <1>10, <1>15, ReplacesAsNumbered
<1>16. (\A e \in Filed : e \in Downloads /\ obj[e] # None) /\ \A e \in kept : e \in Downloads /\ obj[e] # None
  BY <1>3, <1>4 DEF FileFollows, Numbered
<1>17. FileFollows'
  <2>1. \A e \in Filed : obj'[e] # None /\ obj'[e].seq = file.downloads[e].seq
    BY <1>3, <1>4, <1>10, <1>16 DEF FileFollows
  <2>2. \A e \in Filed : file.downloads[e].state = "in_progress" \/ obj'[e] = file.downloads[e]
    <3> TAKE e \in Filed
    <3>1. file.downloads[e].state = "in_progress" \/ obj[e] = file.downloads[e]
      BY <1>3, <1>4 DEF FileFollows
    <3>2. CASE e = d
      BY <1>6, <3>1, <3>2
    <3>3. CASE e # d
      BY <1>9, <1>16, <3>1, <3>3
    <3> QED BY <3>2, <3>3
  <2>3. writing = None => Replaces(Filed, kept, obj')
    BY <1>3, <1>4, <1>15, <1>16 DEF FileFollows
  <2>4. Replaces(Filed, kept, obj)' <=> Replaces(Filed, kept, obj')
    BY <1>2, <1>4 DEF Replaces
  <2>5. file'.sequence <= sequence'
    BY <1>2, <1>3, <1>4 DEF FileFollows
  <2> QED BY <1>2, <1>4, <2>1, <2>2, <2>3, <2>4, <2>5 DEF FileFollows
<1>18. WriteFollows'
  <2> SUFFICES ASSUME writing # None PROVE WriteFollows'
    BY <1>2 DEF WriteFollows
  <2>1. /\ file.sequence <= writing.sequence /\ writing.sequence <= sequence
        /\ \A e \in writing.ids : obj[e] # None /\ obj[e].seq <= writing.sequence
        /\ Replaces(Filed, writing.ids, obj) /\ Replaces(writing.ids, kept, obj)
    BY <1>3 DEF WriteFollows
  <2>2. writing.ids \subseteq Downloads
    BY <1>3 DEF DownloadsTyped, Takes
  <2>3. \A e \in writing.ids : e \in Downloads /\ obj[e] # None /\ obj'[e] # None /\ obj'[e].seq <= writing.sequence
    BY <1>10, <2>1, <2>2
  <2>4. Replaces(Filed, writing.ids, obj') /\ Replaces(writing.ids, kept, obj')
    BY <1>15, <1>16, <2>1, <2>3
  <2>5. Replaces(Filed, writing.ids, obj)' /\ Replaces(writing.ids, kept, obj)'
    BY <1>2, <1>4, <2>4 DEF Replaces
  <2> QED BY <1>2, <2>1, <2>3, <2>5 DEF WriteFollows
<1>19. NobodyCaptures'
  BY <1>2, <1>4 DEF NobodyCaptures
<1> QED BY <1>11, <1>12, <1>13, <1>14, <1>17, <1>18, <1>19 DEF DownloadInv

LEMMA TakeKeeps == ASSUME DownloadConstants, DownloadInv, Download!WriteStarts PROVE DownloadInv'
<1>1. /\ writing = None /\ chain # <<>> /\ writing' = [sequence |-> sequence, ids |-> kept]
      /\ UNCHANGED <<sequence, obj, kept, capture, chain, broken, file, up>>
  BY DEF Download!WriteStarts, Download!Take
<1>2. DownloadsTyped /\ Numbered /\ CapturesFollow /\ FileNumbered /\ FileFollows /\ WriteFollows /\ NobodyCaptures
  BY DEF DownloadInv
<1>3. sequence \in Nat /\ kept \subseteq Downloads /\ Filed' = Filed /\ up
  BY <1>1, <1>2 DEF DownloadsTyped, Filed, NobodyCaptures
<1>4. writing' \in Takes /\ writing' # None /\ writing'.sequence = sequence /\ writing'.ids = kept
  BY <1>1, <1>3 DEF Takes, DownloadConstants
<1>5. DownloadsTyped'
  <2>1. writing' \in Takes \cup {None}
    BY <1>4
  <2> QED BY <1>1, <1>2, <1>3, <2>1, Zenon DEF DownloadsTyped
<1>6. Numbered' /\ CapturesFollow' /\ FileNumbered' /\ NobodyCaptures'
  BY <1>1, <1>2, <1>3 DEF Numbered, CapturesFollow, FileNumbered, NobodyCaptures
<1>7. FileFollows'
  BY <1>1, <1>2, <1>3, <1>4 DEF FileFollows
<1>8. WriteFollows'
  <2>1. Replaces(Filed, kept, obj) /\ file.sequence <= sequence
    BY <1>1, <1>2, <1>3 DEF FileFollows
  <2>2. \A e \in kept : obj[e] # None /\ obj[e].seq <= sequence
    BY <1>2, <1>3 DEF Numbered
  <2>3. Replaces(kept, kept, obj)
    BY ReplacesItself
  <2>4. Replaces(Filed, writing.ids, obj)' /\ Replaces(writing.ids, kept, obj)'
    BY <1>1, <1>3, <1>4, <2>1, <2>3 DEF Replaces
  <2>5. file'.sequence <= writing'.sequence /\ writing'.sequence <= sequence'
    BY <1>1, <1>3, <1>4, <2>1
  <2>6. \A e \in writing'.ids : obj'[e] # None /\ obj'[e].seq <= writing'.sequence
    BY <1>1, <1>4, <2>2
  <2> QED BY <2>4, <2>5, <2>6 DEF WriteFollows
<1> QED BY <1>5, <1>6, <1>7, <1>8 DEF DownloadInv

\* A write that ends puts what it took down, as it is by then, into the manifest.
LEMMA Written ==
    ASSUME DownloadConstants, DownloadInv, Download!WriteEnds
    PROVE  /\ file'.sequence = writing.sequence /\ Filed' = writing.ids /\ \A d \in writing.ids : file'.downloads[d] = obj[d]
           /\ writing # None /\ writing' = None /\ chain # <<>> /\ chain' = Tail(chain)
           /\ capture' = [capture EXCEPT ![Head(chain)] = IF @ = "recorded" THEN "save" ELSE "ended"]
           /\ UNCHANGED <<sequence, obj, kept, broken, up>>
<1>1. /\ writing # None /\ writing' = None /\ file' = Download!Landed(writing) /\ chain' = Tail(chain)
      /\ capture' = [capture EXCEPT ![Head(chain)] = IF @ = "recorded" THEN "save" ELSE "ended"]
      /\ UNCHANGED <<sequence, obj, kept, broken, up>>
  BY DEF Download!WriteEnds, DownloadConstants
<1>2. chain # <<>>
  BY <1>1 DEF DownloadInv, CapturesFollow
<1>3. file' = [sequence |-> writing.sequence, downloads |-> [d \in writing.ids |-> obj[d]]]
  BY <1>1 DEF Download!Landed
<1>4. file'.sequence = writing.sequence /\ file'.downloads = [d \in writing.ids |-> obj[d]]
  BY <1>3
<1> QED BY <1>1, <1>2, <1>4 DEF Filed

LEMMA WriteKeeps == ASSUME DownloadConstants, DownloadInv, Download!WriteEnds PROVE DownloadInv'
<1>1. /\ file'.sequence = writing.sequence /\ Filed' = writing.ids /\ \A d \in writing.ids : file'.downloads[d] = obj[d]
      /\ writing # None /\ writing' = None /\ chain # <<>> /\ chain' = Tail(chain)
      /\ capture' = [capture EXCEPT ![Head(chain)] = IF @ = "recorded" THEN "save" ELSE "ended"]
      /\ UNCHANGED <<sequence, obj, kept, broken, up>>
  BY Written
<1>2. DownloadsTyped /\ Numbered /\ CapturesFollow /\ FileNumbered /\ FileFollows /\ WriteFollows /\ NobodyCaptures
  BY DEF DownloadInv
<1>3. /\ sequence \in Nat /\ obj \in [Downloads -> DownloadRecords \cup {None}] /\ kept \subseteq Downloads /\ up
      /\ capture \in [Downloads -> CaptureSteps] /\ chain \in Seq(Downloads)
      /\ writing \in Takes /\ writing.sequence \in Nat /\ writing.ids \subseteq Downloads
  BY <1>1, <1>2 DEF DownloadsTyped, NobodyCaptures, Takes
<1>4. /\ writing.sequence <= sequence /\ \A d \in writing.ids : obj[d] # None /\ obj[d].seq <= writing.sequence
      /\ Replaces(writing.ids, kept, obj)
  BY <1>1, <1>2 DEF WriteFollows
<1>5. PICK d \in Downloads : d = Head(chain) /\ d = chain[1]
  BY <1>1, <1>3, HeadTailProperties
<1>6. /\ chain' \in Seq(Downloads) /\ Len(chain) \in Nat \ {0} /\ Len(chain') = Len(chain) - 1
      /\ \A i \in 1 .. Len(chain) - 1 : chain'[i] = chain[i + 1]
  <2>1. /\ Tail(chain) \in Seq(Downloads) /\ Len(Tail(chain)) = Len(chain) - 1
        /\ \A i \in 1 .. Len(Tail(chain)) : Tail(chain)[i] = chain[i + 1]
    BY <1>1, <1>3, HeadTailProperties
  <2>2. Len(chain) \in Nat \ {0}
    BY <1>1, <1>3, LenProperties, EmptySeq
  <2> QED BY <1>1, <2>1, <2>2
<1>7. capture[d] \in {"recorded", "finished"}
  BY <1>2, <1>5, <1>6 DEF CapturesFollow
<1>8. /\ capture' \in [Downloads -> CaptureSteps] /\ capture'[d] = (IF capture[d] = "recorded" THEN "save" ELSE "ended")
      /\ \A e \in Downloads \ {d} : capture'[e] = capture[e]
  BY <1>1, <1>3, <1>5 DEF CaptureSteps
<1>9. \A e \in Filed' : file'.downloads[e] \in DownloadRecords /\ file'.downloads[e] = obj[e]
  BY <1>1, <1>3, <1>4
<1>10. DownloadsTyped'
  <2>1. file'.sequence \in Nat /\ Filed' \subseteq Downloads /\ writing' \in Takes \cup {None}
    BY <1>1, <1>3
  <2> QED BY <1>1, <1>2, <1>3, <1>6, <1>8, <1>9, <2>1, Zenon DEF DownloadsTyped
<1>11. Numbered'
  <2>1. \A e \in Downloads : capture'[e] = "none" => capture[e] = "none"
    BY <1>8
  <2> QED BY <1>1, <1>2, <2>1 DEF Numbered
<1>12. CapturesFollow'
  <2>1. \A e \in Downloads : capture'[e] \in {"recorded", "save"} <=> capture[e] \in {"recorded", "save"}
    BY <1>7, <1>8
  <2>2. \A i \in 1 .. Len(chain') : i + 1 \in 1 .. Len(chain) /\ chain'[i] = chain[i + 1] /\ chain[i + 1] \in Downloads
    <3> TAKE i \in 1 .. Len(chain')
    <3>1. i + 1 \in 1 .. Len(chain) /\ chain'[i] = chain[i + 1]
      BY <1>6
    <3> QED BY <1>3, <3>1, ElementOfSeq
  <2>3. \A i \in 1 .. Len(chain') : capture'[chain'[i]] \in {"recorded", "finished"}
    <3> TAKE i \in 1 .. Len(chain')
    <3>1. i + 1 \in 1 .. Len(chain) /\ 1 \in 1 .. Len(chain) /\ i + 1 # 1
      BY <1>6, <2>2
    <3>2. chain[i + 1] # d
      BY <1>2, <1>5, <3>1 DEF CapturesFollow
    <3> QED BY <1>2, <1>8, <2>2, <3>1, <3>2 DEF CapturesFollow
  <2>4. \A i, j \in 1 .. Len(chain') : chain'[i] = chain'[j] => i = j
    <3> TAKE i, j \in 1 .. Len(chain')
    <3> HAVE chain'[i] = chain'[j]
    <3>1. i + 1 = j + 1
      BY <1>2, <2>2 DEF CapturesFollow
    <3> QED BY <3>1
  <2> QED BY <1>1, <1>2, <2>1, <2>3, <2>4 DEF CapturesFollow
<1>13. FileNumbered'
  <2>1. \A e \in Filed' : capture'[e] # "none"
    BY <1>1, <1>2, <1>3, <1>4, <1>7, <1>8 DEF Numbered
  <2>2. \A e, f \in Filed' : obj[e].seq = obj[f].seq => e = f
    BY <1>1, <1>2, <1>3, <1>4 DEF Numbered
  <2> QED BY <1>1, <1>4, <1>9, <2>1, <2>2 DEF FileNumbered
<1>14. FileFollows'
  <2>1. Replaces(Filed, kept, obj)'
    BY <1>1, <1>4 DEF Replaces
  <2> QED BY <1>1, <1>4, <1>9, <2>1 DEF FileFollows
<1>15. WriteFollows' /\ NobodyCaptures'
  BY <1>1, <1>3 DEF WriteFollows, NobodyCaptures
<1> QED BY <1>10, <1>11, <1>12, <1>13, <1>14, <1>15 DEF DownloadInv

LEMMA DownloadsLostKeeps ==
    ASSUME DownloadConstants, DownloadInv, Download!WorkerLost
    PROVE  DownloadInv'
<1>1. /\ up' = FALSE /\ capture' = [d \in Downloads |-> IF capture[d] = "none" THEN "none" ELSE "ended"]
      /\ chain' = <<>> /\ writing' = None /\ broken' = FALSE /\ kept' = {} /\ obj' = [d \in Downloads |-> None] /\ sequence' = 0
      /\ file' = file
  BY DEF Download!WorkerLost
<1>2. DownloadsTyped /\ FileNumbered /\ Filed' = Filed /\ Filed \subseteq Downloads
  BY <1>1 DEF DownloadInv, DownloadsTyped, Filed
<1>3. <<>> \in Seq(Downloads) /\ Len(<<>>) = 0
  BY EmptySeq
<1>4. DownloadsTyped'
  <2>1. /\ capture' \in [Downloads -> CaptureSteps] /\ sequence' \in Nat /\ obj' \in [Downloads -> DownloadRecords \cup {None}]
        /\ kept' \subseteq Downloads
    BY <1>1 DEF CaptureSteps
  <2>2. chain' \in Seq(Downloads) /\ writing' \in Takes \cup {None}
    BY <1>1, <1>3
  <2> QED BY <1>1, <1>2, <2>1, <2>2, Zenon DEF DownloadsTyped
<1>5. Numbered'
  <2>1. Cardinality(kept') <= Retained
    BY <1>1, FS_EmptySet DEF DownloadConstants
  <2> QED BY <1>1, <2>1 DEF Numbered
<1>6. CapturesFollow' /\ WriteFollows' /\ FileFollows' /\ NobodyCaptures'
  BY <1>1, <1>3 DEF CapturesFollow, WriteFollows, FileFollows, NobodyCaptures
<1>7. FileNumbered'
  BY <1>1, <1>2 DEF FileNumbered
<1> QED BY <1>4, <1>5, <1>6, <1>7 DEF DownloadInv

\* restore: what is taken up has the numbers of the manifest, and is not in progress.
LEMMA TakenUp ==
    ASSUME DownloadConstants, DownloadInv, Download!Restore
    PROVE  /\ ~up /\ up' = TRUE /\ sequence' = file.sequence /\ file'.sequence = file.sequence
           /\ kept' \subseteq Filed /\ Cardinality(kept') <= Retained
           /\ \A d \in Filed : /\ obj'[d] \in DownloadRecords /\ obj'[d].seq = file.downloads[d].seq /\ obj'[d].state # "in_progress"
                               /\ file.downloads[d].state = "in_progress" \/ obj'[d] = file.downloads[d]
           /\ \A d \in Downloads \ Filed : obj'[d] = None
           /\ obj' \in [Downloads -> DownloadRecords \cup {None}]
           /\ Replaces(Filed, kept', obj')
           /\ Filed' = Filed \/ Filed' = kept'
           /\ \A d \in Filed' : file'.downloads[d] = obj'[d]
           /\ UNCHANGED <<capture, chain, writing, broken>>
<1> DEFINE taken == [d \in Filed |-> Download!Interrupted(file.downloads[d])]
<1>1. /\ ~up /\ up' = TRUE
      /\ kept' = Download!Trimmed(Filed, taken) /\ obj' = [d \in Downloads |-> IF d \in Filed THEN taken[d] ELSE None]
      /\ sequence' = Download!Restored
      /\ file' = IF taken = file.downloads THEN file ELSE [sequence |-> sequence', downloads |-> [d \in kept' |-> taken[d]]]
      /\ UNCHANGED <<capture, chain, writing, broken>>
  BY DEF Download!Restore, Filed
<1>2. /\ file.sequence \in Nat /\ Filed \subseteq Downloads /\ \A d \in Filed : file.downloads[d] \in DownloadRecords
      /\ \A d \in Filed : file.downloads[d].seq <= file.sequence
      /\ \A d, e \in Filed : file.downloads[d].seq = file.downloads[e].seq => d = e
  BY DEF DownloadInv, DownloadsTyped, FileNumbered
<1>3. \A d \in Filed : /\ taken[d] \in DownloadRecords /\ taken[d].seq = file.downloads[d].seq /\ taken[d].state # "in_progress"
                       /\ file.downloads[d].state = "in_progress" \/ taken[d] = file.downloads[d]
                       /\ taken[d].seq \in Nat /\ taken[d].seq <= file.sequence
  BY <1>2 DEF Download!Interrupted, DownloadRecords, DownloadStates
<1>4. taken = file.downloads => \A d \in Filed : file.downloads[d] = taken[d]
  OBVIOUS
<1>5. DOMAIN taken = Filed
  OBVIOUS
<1> HIDE DEF taken
<1>6. Download!Restored = file.sequence
  <2> DEFINE Ns == {file.sequence} \cup {file.downloads[d].seq : d \in Filed}
  <2>1. Download!Restored = Download!Max(Ns)
    BY DEF Download!Restored, Filed
  <2>2. file.sequence \in Ns /\ \A n \in Ns : file.sequence >= n
    BY <1>2
  <2>3. Ns \subseteq Nat
    BY <1>2 DEF DownloadRecords
  <2> HIDE DEF Ns
  <2>4. \A n \in Ns : (\A k \in Ns : n >= k) => n = file.sequence
    <3> SUFFICES ASSUME NEW n \in Ns, \A k \in Ns : n >= k PROVE n = file.sequence
      OBVIOUS
    <3>1. n \in Nat /\ n >= file.sequence /\ file.sequence >= n
      BY <2>2, <2>3
    <3> QED BY <1>2, <3>1
  <2>5. Download!Max(Ns) = CHOOSE n \in Ns : \A k \in Ns : n >= k
    BY DEF Download!Max
  <2>6. Download!Max(Ns) = file.sequence
    BY <2>2, <2>4, <2>5
  <2> QED BY <2>1, <2>6
<1>7. IsFiniteSet(Filed) /\ Retained \in Nat
  BY <1>2, FS_Subset DEF DownloadConstants
<1>8. kept' \subseteq Filed /\ Cardinality(kept') <= Retained
  <2>1. \A d, e \in Filed : taken[d].seq = taken[e].seq => d = e
    BY <1>2, <1>3
  <2>2. Download!Trimmed(Filed, taken) \subseteq Filed /\ Cardinality(Download!Trimmed(Filed, taken)) <= Retained
    BY <1>3, <1>7, <2>1, TrimmedBound
  <2> QED BY <1>1, <2>2
<1>9. obj' \in [Downloads -> DownloadRecords \cup {None}] /\ (\A d \in Filed : obj'[d] = taken[d]) /\ \A d \in Downloads \ Filed : obj'[d] = None
  BY <1>1, <1>2, <1>3
<1>10. Replaces(Filed, kept', obj')
  <2>1. Replaces(Filed, Filed, taken)
    BY ReplacesItself
  <2>2. Replaces(Filed, Download!Trimmed(Filed, taken), taken)
    BY <1>2, <1>3, <1>7, <2>1, TrimmedReplaces
  <2>3. \A d \in Filed \cup kept' : obj'[d].seq = taken[d].seq
    BY <1>8, <1>9
  <2> QED BY <1>1, <2>2, <2>3, ReplacesAsNumbered
<1>11. /\ file'.sequence = file.sequence
       /\ Filed' = Filed \/ Filed' = kept'
       /\ \A d \in Filed' : file'.downloads[d] = obj'[d]
  <2>1. CASE taken = file.downloads
    <3>1. file' = file /\ Filed' = Filed
      BY <1>1, <2>1 DEF Filed
    <3> QED BY <1>4, <1>9, <2>1, <3>1
  <2>2. CASE taken # file.downloads
    <3>1. file' = [sequence |-> sequence', downloads |-> [d \in kept' |-> taken[d]]]
      BY <1>1, <2>2
    <3>2. file'.sequence = sequence' /\ file'.downloads = [d \in kept' |-> taken[d]]
      BY <3>1
    <3>3. Filed' = kept' /\ \A d \in kept' : file'.downloads[d] = taken[d]
      BY <3>2 DEF Filed
    <3> QED BY <1>1, <1>6, <1>8, <1>9, <3>2, <3>3
  <2> QED BY <2>1, <2>2
<1>12. sequence' = file.sequence
  BY <1>1, <1>6
<1> QED BY <1>1, <1>3, <1>8, <1>9, <1>10, <1>11, <1>12

LEMMA DownloadsRestoreKeeps ==
    ASSUME DownloadConstants, DownloadInv, Download!Restore
    PROVE  DownloadInv'
<1>1. /\ ~up /\ up' = TRUE /\ sequence' = file.sequence /\ file'.sequence = file.sequence
      /\ kept' \subseteq Filed /\ Cardinality(kept') <= Retained
      /\ \A d \in Filed : /\ obj'[d] \in DownloadRecords /\ obj'[d].seq = file.downloads[d].seq /\ obj'[d].state # "in_progress"
                          /\ file.downloads[d].state = "in_progress" \/ obj'[d] = file.downloads[d]
      /\ \A d \in Downloads \ Filed : obj'[d] = None
      /\ obj' \in [Downloads -> DownloadRecords \cup {None}]
      /\ Replaces(Filed, kept', obj')
      /\ Filed' = Filed \/ Filed' = kept'
      /\ \A d \in Filed' : file'.downloads[d] = obj'[d]
      /\ UNCHANGED <<capture, chain, writing, broken>>
  BY TakenUp
<1>2. DownloadsTyped /\ CapturesFollow /\ FileNumbered /\ NobodyCaptures
  BY DEF DownloadInv
<1>3. /\ file.sequence \in Nat /\ Filed \subseteq Downloads /\ Filed' \subseteq Filed /\ writing = None
      /\ \A d \in Downloads : capture[d] \in {"none", "ended"}
  BY <1>1, <1>2 DEF DownloadsTyped, NobodyCaptures
<1>4. \A d \in Filed : obj'[d] # None
  BY <1>1 DEF DownloadConstants
<1>5. DownloadsTyped'
  <2>1. sequence' \in Nat /\ kept' \subseteq Downloads /\ up' \in BOOLEAN /\ file'.sequence \in Nat /\ Filed' \subseteq Downloads
    BY <1>1, <1>3
  <2>2. \A d \in Filed' : file'.downloads[d] \in DownloadRecords
    BY <1>1, <1>3
  <2> QED BY <1>1, <1>2, <2>1, <2>2, Zenon DEF DownloadsTyped
<1>6. Numbered'
  <2>1. \A d \in Downloads : obj'[d] # None => d \in Filed /\ obj'[d].seq <= sequence'
    BY <1>1, <1>2 DEF FileNumbered
  <2>2. \A d, e \in Downloads : obj'[d] # None /\ obj'[e] # None /\ obj'[d].seq = obj'[e].seq => d = e
    BY <1>1, <1>2, <2>1 DEF FileNumbered
  <2>3. \A d \in Downloads : capture'[d] = "none" => obj'[d] = None
    BY <1>1, <1>2 DEF FileNumbered
  <2> QED BY <1>1, <1>4, <2>1, <2>2, <2>3 DEF Numbered
<1>7. CapturesFollow'
  <2>1. \A d \in Downloads : obj'[d] # None => obj'[d].state # "in_progress"
    BY <1>1
  <2> QED BY <1>1, <1>2, <1>3, <2>1 DEF CapturesFollow
<1>8. FileNumbered'
  BY <1>1, <1>2, <1>3 DEF FileNumbered
<1>9. FileFollows'
  <2>1. Replaces(Filed', kept', obj')
    BY <1>1, ReplacesItself
  <2>2. Replaces(Filed, kept, obj)'
    BY <2>1 DEF Replaces
  <2>3. file'.sequence <= sequence'
    BY <1>1, <1>3
  <2> QED BY <1>1, <1>3, <1>4, <2>2, <2>3 DEF FileFollows
<1>10. WriteFollows' /\ NobodyCaptures'
  BY <1>1, <1>3 DEF WriteFollows, NobodyCaptures
<1> QED BY <1>5, <1>6, <1>7, <1>8, <1>9, <1>10 DEF DownloadInv

LEMMA DownloadsKept ==
    ASSUME DownloadInv, UNCHANGED <<sequence, obj, kept, capture, chain, writing, broken, file, up>> PROVE DownloadInv'
<1>1. Filed' = Filed
  BY DEF Filed
<1>2. DownloadsTyped' /\ Numbered' /\ CapturesFollow'
  BY <1>1 DEF DownloadInv, DownloadsTyped, Numbered, CapturesFollow
<1>3. FileNumbered' /\ NobodyCaptures'
  BY <1>1 DEF DownloadInv, FileNumbered, NobodyCaptures
<1>4. FileFollows'
  BY <1>1 DEF DownloadInv, FileFollows, Replaces
<1>5. WriteFollows'
  BY <1>1 DEF DownloadInv, WriteFollows, Replaces
<1> QED BY <1>2, <1>3, <1>4, <1>5 DEF DownloadInv

LEMMA DownloadNext ==
    ASSUME DownloadConstants, DownloadInv, [Download!Next]_(Download!vars)
    PROVE  DownloadInv'
<1>1. CASE Download!Capture BY <1>1, CaptureKeeps
<1>2. CASE Download!Save BY <1>2, SaveKeeps
<1>3. CASE Download!WriteStarts BY <1>3, TakeKeeps
<1>4. CASE Download!WriteEnds BY <1>4, WriteKeeps
<1>5. CASE Download!WorkerLost BY <1>5, DownloadsLostKeeps
<1>6. CASE Download!Restore BY <1>6, DownloadsRestoreKeeps
<1>7. CASE Download!List
  BY <1>7, DownloadsKept DEF Download!List
<1>8. CASE UNCHANGED Download!vars
  BY <1>8, DownloadsKept DEF Download!vars
<1> QED BY <1>1, <1>2, <1>3, <1>4, <1>5, <1>6, <1>7, <1>8 DEF Download!Next

LEMMA DownloadSafe ==
    ASSUME DownloadConstants, DownloadInv
    PROVE  Download!TypeOK /\ Download!NumberedOnce /\ Download!InProgressIsCaptured
<1>1. DownloadsTyped /\ Numbered /\ CapturesFollow /\ kept \subseteq Downloads /\ DOMAIN chain = 1 .. Len(chain)
  BY LenProperties DEF DownloadInv, DownloadsTyped
<1>2. Download!TypeOK
  BY <1>1, SameDownloadCardinality DEF Download!TypeOK, Numbered, CapturesFollow
<1>3. Download!NumberedOnce
  BY <1>1 DEF Download!NumberedOnce, Numbered
<1>4. Download!InProgressIsCaptured
  BY <1>1 DEF Download!InProgressIsCaptured, Numbered, CapturesFollow
<1> QED BY <1>2, <1>3, <1>4

LEMMA DownloadsNeverBackwards ==
    ASSUME DownloadConstants, DownloadInv, [Download!Next]_(Download!vars)
    PROVE  [Download!NeverBackwards]_(Download!vars)
<1> SUFFICES ASSUME Download!Next PROVE Download!NeverBackwards
  OBVIOUS
<1>1. /\ file.sequence \in Nat /\ Filed \subseteq Downloads
  BY DEF DownloadInv, DownloadsTyped
<1>2. CASE file' = file
  BY <1>1, <1>2 DEF Download!NeverBackwards, Filed
<1>3. ASSUME NEW K, Filed' = K, file'.sequence >= file.sequence, NEW o,
             \A d \in K : file'.downloads[d] = o[d], \A d \in Filed : o[d].seq = file.downloads[d].seq,
             \A d \in Filed : file.downloads[d].state = "in_progress" \/ o[d] = file.downloads[d],
             Replaces(Filed, K, o)
      PROVE  Download!NeverBackwards
  <2> SUFFICES ASSUME NEW d \in Filed
               PROVE  IF d \in K THEN file.downloads[d].state = "in_progress" \/ file'.downloads[d] = file.downloads[d]
                      ELSE Cardinality({e \in K : file'.downloads[e].seq > file.downloads[d].seq}) >= Retained
    <3>1. DOMAIN file.downloads = Filed /\ DOMAIN file'.downloads = K
      BY <1>3 DEF Filed
    <3> QED BY <1>3, <3>1, SameDownloadCardinality DEF Download!NeverBackwards
  <2>1. CASE d \in K
    BY <1>3, <2>1
  <2>2. CASE d \notin K
    <3>1. {e \in K : file'.downloads[e].seq > file.downloads[d].seq} = {e \in K : o[e].seq > o[d].seq}
      BY <1>3
    <3>2. Cardinality({e \in K : o[e].seq > o[d].seq}) >= Retained
      BY <1>3, <2>2 DEF Replaces
    <3> QED BY <2>2, <3>1, <3>2
  <2> QED BY <2>1, <2>2
<1>4. CASE Download!WriteEnds
  <2>1. /\ file'.sequence = writing.sequence /\ Filed' = writing.ids /\ \A d \in writing.ids : file'.downloads[d] = obj[d]
        /\ writing # None /\ up
    <3>1. up
      <4>1. ~up => writing = None
        BY DEF DownloadInv, NobodyCaptures
      <4> QED BY <1>4, <4>1 DEF Download!WriteEnds
    <3> QED BY <1>4, <3>1, Written
  <2>2. file.sequence <= writing.sequence /\ Replaces(Filed, writing.ids, obj)
    BY <2>1 DEF DownloadInv, WriteFollows
  <2>3. \A d \in Filed : obj[d].seq = file.downloads[d].seq /\ (file.downloads[d].state = "in_progress" \/ obj[d] = file.downloads[d])
    BY <2>1 DEF DownloadInv, FileFollows
  <2>4. writing.sequence \in Nat
    BY <2>1 DEF DownloadInv, DownloadsTyped, Takes
  <2>5. file'.sequence >= file.sequence
    BY <1>1, <2>1, <2>2, <2>4
  <2> QED BY <1>3, <2>1, <2>2, <2>3, <2>5
<1>5. CASE Download!Restore
  <2>1. /\ file'.sequence = file.sequence
        /\ \A d \in Filed : obj'[d].seq = file.downloads[d].seq /\ (file.downloads[d].state = "in_progress" \/ obj'[d] = file.downloads[d])
        /\ Replaces(Filed, kept', obj')
        /\ Filed' = Filed \/ Filed' = kept'
        /\ \A d \in Filed' : file'.downloads[d] = obj'[d]
    BY <1>5, TakenUp
  <2>2. Replaces(Filed, Filed', obj')
    <3>1. CASE Filed' = Filed
      BY <3>1, ReplacesItself
    <3>2. CASE Filed' = kept'
      BY <2>1, <3>2
    <3> QED BY <2>1, <3>1, <3>2
  <2>3. file'.sequence >= file.sequence
    BY <1>1, <2>1
  <2> QED BY <1>3, <2>1, <2>2, <2>3
<1>6. CASE Download!Capture \/ Download!Save \/ Download!WriteStarts \/ Download!WorkerLost \/ Download!List
  BY <1>2, <1>6 DEF Download!Capture, Download!Save, Download!WriteStarts, Download!WorkerLost, Download!List
<1> QED BY <1>4, <1>5, <1>6 DEF Download!Next

\* The manifest is true to them, for any downloads, workers and number retained,
\* as long as no write fails.
THEOREM DownloadsNeverGoBack ==
    ASSUME DownloadConstants
    PROVE  Download!Spec => DownloadsAreKept
<1>1. DownloadInv => Download!TypeOK /\ Download!NumberedOnce /\ Download!InProgressIsCaptured
  BY DownloadSafe
<1>2. DownloadInv /\ [Download!Next]_(Download!vars) => [Download!NeverBackwards]_(Download!vars)
  BY DownloadsNeverBackwards
<1> QED
  BY <1>1, <1>2, DownloadInit, DownloadNext, PTL DEF Download!Spec, DownloadsAreKept
=============================================================================
