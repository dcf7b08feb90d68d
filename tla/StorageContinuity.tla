-------------------------- MODULE StorageContinuity --------------------------
(* Whether a login survived the way back from the person's browser           *)
(* (profile-binding/storage.ts, controller/handoff): the cookie keys of the   *)
(* target origin are read before the handoff, after the person's browser,     *)
(* after the controlled start and after the target was loaded, from the       *)
(* databases of the profile or from the running browser, and compared.        *)
EXTENDS Naturals
CONSTANTS None, Keys
VARIABLES flow,
          jar,     \* the keys the browser, or its profile while none runs, holds
          stale,   \* keys in the database of an older layout
          limited, \* keys that are not sent to the root of the origin
          at,      \* the moment the handoff is at
          reading, \* of each moment, None or the keys that were read
          truth,   \* of each moment, the keys there were
          loaded,  \* a page of the origin was there at the controlled start
          report   \* None or what the resumption told
vars == <<flow, jar, stale, limited, at, reading, truth, loaded, report>>

Flows == {"exited",     \* the person's browser is a process of its own, which exits
          "relaunched", \* it is one that was started for the person and goes on running
          "native",     \* it is the controlled one, which goes on running
          "restored"}   \* as relaunched or native, by a worker that knows no target
Moments == {"before", "human", "start", "load"}
After == Moments \ {"before"}
Init ==
    /\ flow \in Flows /\ jar \in SUBSET Keys /\ stale \in SUBSET Keys /\ limited \in SUBSET Keys /\ at = "before"
    /\ reading = [t \in Moments |-> None] /\ truth = [t \in After |-> {}] /\ loaded = FALSE /\ report = None

-----------------------------------------------------------------------------
\* Those of the databases that can be read are taken together; a running
\* browser is asked for the cookies of the origin. If that fails nothing is
\* known, or, when the profile has no database, that there are none.
Offline == {jar, stale, jar \cup stale, None}
Live == {None} \cup (IF flow = "restored" THEN {} ELSE {{}, jar \ limited})
Reads(moment, readings, next) ==
    /\ at = moment /\ at' = next
    /\ \E keys \in readings : reading' = [reading EXCEPT ![moment] = keys]
    /\ truth' = [t \in After |-> IF t = moment THEN jar ELSE truth[t]] /\ UNCHANGED <<flow, jar, stale, limited, loaded, report>>
ReadBefore == Reads("before", IF flow \in {"exited", "relaunched"} THEN Offline ELSE Live, "login")
ReadHuman == Reads("human", IF flow = "exited" THEN Offline ELSE {None}, "launch")
ReadStart == Reads("start", Live, "load")
ReadLoad == Reads("load", Live, "compare")

\* The person signs in, or out, or does nothing.
Login ==
    /\ at = "login" /\ at' = "human" /\ jar' \in SUBSET Keys
    /\ UNCHANGED <<flow, stale, limited, reading, truth, loaded, report>>
\* A browser that starts over may not have every key any more, and may restore its pages.
ControlledStart ==
    /\ at = "launch" /\ at' = "start" /\ loaded' \in BOOLEAN
    /\ jar' \in IF flow = "exited" THEN SUBSET jar ELSE {jar}
    /\ UNCHANGED <<flow, stale, limited, reading, truth, report>>
\* The site sets and removes cookies while a page of it is there: the target is
\* opened once the start was read.
SiteChanges ==
    /\ at = "load" \/ (at = "start" /\ loaded)
    /\ jar' \in (SUBSET Keys) \ {jar} /\ UNCHANGED <<flow, stale, limited, at, reading, truth, loaded, report>>

-----------------------------------------------------------------------------
HumanIfRead == reading["human"]
\* Of a browser that never exited the reading at the start stands for the person's.
Human == IF flow = "exited" THEN reading["human"] ELSE reading["start"]
Before == reading["before"]
Known(keys) == keys # None
HumanAdded == IF Known(Before) /\ Known(Human) THEN Human \ Before ELSE {}
Comparable == Known(Before) /\ Known(Human) /\ Known(reading["start"]) /\ Known(reading["load"])
\* Of what the person added something is missing; or of many keys none is left.
AddedLost(keys) == Known(keys) /\ ~(HumanAdded \subseteq keys)
AllLost(had, keys) == Known(had) /\ had # {} /\ keys = {}
ControlledStartLoss == AddedLost(reading["start"]) \/ AllLost(Human, reading["start"])
TargetLoadLoss == ~ControlledStartLoss /\ (AddedLost(reading["load"]) \/ AllLost(reading["start"], reading["load"]))
Preserved == Comparable /\ Human \subseteq reading["load"]
State == IF ControlledStartLoss \/ TargetLoadLoss THEN "lost" ELSE IF Preserved THEN "preserved" ELSE "unverified"
LossBoundary ==
    CASE ControlledStartLoss -> IF loaded THEN "start_or_restored_load" ELSE "start"
      [] TargetLoadLoss -> "target_load"
      [] OTHER -> IF Preserved THEN "none" ELSE "unverified"
AuthNotPersisted == Comparable /\ HumanAdded # {} /\ State = "lost"

\* The route asked for was reached or not.
Told(reached) ==
    IF AuthNotPersisted THEN "storage_lost" ELSE IF reached THEN "resumed"
    ELSE IF HumanAdded # {} THEN "route_not_reached" ELSE "failed"
Compare ==
    /\ at = "compare" /\ at' = "end"
    /\ \E reached \in BOOLEAN : report' = [state |-> State, boundary |-> LossBoundary, told |-> Told(reached)]
    /\ UNCHANGED <<flow, jar, stale, limited, reading, truth, loaded>>

Next == ReadBefore \/ Login \/ ReadHuman \/ ControlledStart \/ ReadStart \/ ReadLoad \/ SiteChanges \/ Compare
Spec == Init /\ [][Next]_vars

-----------------------------------------------------------------------------
\* Only a browser that exited is read from its files after the person, what was
\* read from a running one it had, and without a target nothing is known.
TypeOK ==
    /\ flow # "exited" => reading["human"] = None
    /\ flow = "restored" => \A t \in Moments : reading[t] = None
    /\ \A t \in {"start", "load"} : Known(reading[t]) => reading[t] \subseteq truth[t]

\* What is known of the person's browser, by the first reading after the person.
TheirKeys == IF flow = "exited" THEN reading["human"] ELSE reading["start"]
\* What is called preserved is still there: every key known of the person's
\* browser was in the browser when the target was loaded; a key the person
\* added that went is told whenever every reading was made; and a loss is put
\* down to the load of the target only if the start had been read to have every
\* such key, or was not read (compareAuthenticationStorage).
ReattachmentIsTold == report # None =>
    /\ report.state = "preserved" => Known(TheirKeys) /\ TheirKeys \subseteq truth["load"]
    /\ Known(Before) /\ Known(TheirKeys) /\ Known(reading["start"]) /\ Known(reading["load"]) =>
        \A key \in TheirKeys \ Before : key \in truth["load"] \/ report.told = "storage_lost"
    /\ report.boundary = "target_load" /\ Known(Before) /\ Known(TheirKeys) /\ Known(reading["start"]) =>
        \A key \in TheirKeys \ Before : key \in truth["start"]

\* docs/failure-taxonomy.md:28, "return `AUTH_NOT_PERSISTED` for verified loss".
\* The code does not keep it: the files name keys the browser is not asked for,
\* or that are of an older layout, or a question to the browser that fails
\* counts as an empty answer, and these keys are then taken for lost.
LossIsReal == report # None /\ report.told = "storage_lost" => ~(truth["human"] \subseteq truth["start"] \cap truth["load"])

\* docs/dogfooding-2026-08-24-x-login-handoff.md:117, "`lossBoundary`
\* distinguishes `playwright_start`, [...] `target_load`, `none`, and
\* `unverified`". The code does not keep it: when the start could not be read,
\* what had gone by then is put down to the load of the target.
BoundaryIsProven == report # None /\ report.boundary = "target_load" => truth["human"] \subseteq truth["start"]
=============================================================================
