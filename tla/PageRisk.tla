------------------------------ MODULE PageRisk ------------------------------
(* Tabs that hold file selections nobody saved. The worker remembers them    *)
(* (persistence/page-state-risk-manager.ts), stops a navigation until the    *)
(* agent acknowledges, and writes them with the selected tab into the native *)
(* control record (lifecycle/native-attach.ts, page-state-risk.ts), from     *)
(* which another worker attaches to the browser that kept running.           *)
EXTENDS Naturals, FiniteSets
CONSTANTS None, Pages, First, MaxDocuments, MaxCalls, MaxWorkers,
          MayFail \* the browser may leave a question unanswered and a write may fail
VARIABLES tab,      \* of each page: its document (0 when closed), what the agent owes it, whether its document was told of or recorded
          next,     \* the next document
          active,   \* the page the controller has selected
          retained, \* of each page, None or the revision of its file selections and the one acknowledged
          record,   \* the native control record in memory: selected page, document, risk
          disk,     \* and on disk
          jobs,     \* writes of the record under way
          op,       \* None or the command under way
          up, calls, workers
vars == <<tab, next, active, retained, record, disk, jobs, op, up, calls, workers>>

Open == {p \in Pages : tab[p].doc # 0}
Clean == [target |-> First, document |-> 1, risk |-> None]
Init ==
    /\ tab = [p \in Pages |-> [doc |-> IF p = First THEN 1 ELSE 0, owed |-> "no", told |-> TRUE]]
    /\ next = 2 /\ active = First /\ retained = [p \in Pages |-> None] /\ record = Clean /\ disk = Clean
    /\ jobs = {} /\ op = None /\ up = TRUE /\ calls = 0 /\ workers = 1

-----------------------------------------------------------------------------
(* persistNativePageStateRisk and persistNativeSelectedPage: the record is   *)
(* taken, the browser asked which document is shown, the new record written. *)
Job(kind, p, mine) ==
    IF tab[p].doc = 0 THEN {} ELSE {[kind |-> kind, page |-> p, mine |-> mine, pc |-> "ids", rec |-> record, doc |-> 0]}
Mine == {j \in jobs : j.mine}
Become(j, k) == jobs' = (jobs \ {j}) \cup k
Risk(p) == IF retained[p] = None THEN None ELSE [ack |-> retained[p].acked = retained[p].rev]

\* The browser may not answer, or know the page and not its document.
JobIds ==
    /\ \E j \in jobs : j.pc = "ids" /\
        \/ (MayFail \/ tab[j.page].doc = 0) /\ Become(j, {})
        \/ tab[j.page].doc # 0 /\ \E doc \in {tab[j.page].doc} \cup (IF MayFail /\ j.kind = "selected" THEN {0} ELSE {}) :
            IF j.kind = "selected" /\ j.rec.target = j.page /\ doc \in {0, j.rec.document} THEN Become(j, {})
            ELSE Become(j, {[j EXCEPT !.pc = "compute", !.doc = doc]})
    /\ UNCHANGED <<tab, next, active, retained, record, disk, op, up, calls, workers>>

RiskRecord(j) ==
    [target |-> j.page, document |-> j.doc,
     risk |-> IF Risk(j.page) = None THEN None ELSE [target |-> j.page, document |-> j.doc, ack |-> Risk(j.page).ack]]
\* Another page or document: the risk that was retained with the old one goes.
SelectedRecord(j) == [target |-> j.page, document |-> IF j.doc = 0 THEN j.rec.document ELSE j.doc, risk |-> None]
JobCompute ==
    /\ \E j \in jobs : j.pc = "compute" /\
        Become(j, {[j EXCEPT !.pc = "write", !.rec = IF j.kind = "risk" THEN RiskRecord(j) ELSE SelectedRecord(j)]})
    /\ UNCHANGED <<tab, next, active, retained, record, disk, op, up, calls, workers>>

JobWrite ==
    /\ \E j \in jobs : j.pc = "write" /\ Become(j, {}) /\
        \/ record' = j.rec /\ disk' = j.rec
        \/ MayFail /\ disk' \in {disk, j.rec} /\ UNCHANGED record
    /\ UNCHANGED <<tab, next, active, retained, op, up, calls, workers>>

-----------------------------------------------------------------------------
(* What a page does to the controller: bindPage.                            *)

\* recoverActivePageAfterLoss
Lost(p) == IF active = p THEN (IF Cardinality(Open \ {p}) = 1 THEN CHOOSE q \in Open \ {p} : TRUE ELSE None) ELSE active

Renewed(p) == [tab EXCEPT ![p] = [doc |-> next, owed |-> "no", told |-> up]]
\* framenavigated fires within a document too; either way the risk goes.
Navigated(p, within) ==
    /\ tab' = IF within THEN [tab EXCEPT ![p].owed = IF @ = "yes" THEN "within" ELSE @] ELSE Renewed(p)
    /\ next' = IF within THEN next ELSE next + 1
    /\ retained' = [retained EXCEPT ![p] = None]
    /\ jobs' = jobs \cup (IF retained[p] = None THEN {} ELSE Job("risk", p, FALSE))
    /\ UNCHANGED active
Closed(p) ==
    /\ tab' = [tab EXCEPT ![p] = [doc |-> 0, owed |-> "no", told |-> TRUE]]
    /\ retained' = [retained EXCEPT ![p] = None]
    /\ active' = Lost(p)
    /\ UNCHANGED <<next, jobs>>

PageNavigates ==
    /\ next <= MaxDocuments
    /\ \E p \in Open :
        IF up THEN \E within \in BOOLEAN : Navigated(p, within)
        ELSE tab' = Renewed(p) /\ next' = next + 1 /\ UNCHANGED <<retained, jobs, active>>
    /\ UNCHANGED <<record, disk, op, up, calls, workers>>
PageCloses ==
    /\ \E p \in Open : Closed(p)
    /\ UNCHANGED <<record, disk, op, up, calls, workers>>

-----------------------------------------------------------------------------
At(pc) == op # None /\ op.pc = pc /\ Mine = {}
Begin(kind, p, ack, pc) ==
    /\ up /\ op = None /\ calls < MaxCalls /\ calls' = calls + 1
    /\ op' = [kind |-> kind, page |-> p, ack |-> ack, pc |-> pc, doc |-> 0, found |-> None, known |-> TRUE]

\* Commands on the selected page; a page found because it is the only one, or
\* because none is selected, is written into the record first (ensureActivePage).
BeginOnSelected ==
    /\ \E p \in Open, kind \in {"open", "click", "history", "files"}, ack \in BOOLEAN :
        /\ active \in {p, None} /\ active' = p
        /\ Begin(kind, p, ack, IF kind = "files" THEN "files" ELSE "preflight")
        /\ jobs' = jobs \cup (IF Open = {p} \/ active = None THEN Job("selected", p, TRUE) ELSE {})
    /\ UNCHANGED <<tab, next, retained, record, disk, up, workers>>
BeginClose ==
    /\ \E p \in Open, ack \in BOOLEAN : Begin("close", p, ack, "preflight")
    /\ UNCHANGED <<tab, next, active, retained, record, disk, jobs, up, workers>>
SelectTab ==
    /\ \E p \in Open : Begin("select", p, FALSE, "end") /\ active' = p /\ jobs' = jobs \cup Job("selected", p, TRUE)
    /\ UNCHANGED <<tab, next, retained, record, disk, up, workers>>
OpenNewTab ==
    /\ next <= MaxDocuments /\ next' = next + 1
    /\ \E p \in Pages \ Open :
        /\ Begin("open", p, FALSE, "navigate")
        /\ tab' = Renewed(p) /\ active' = p /\ retained' = [retained EXCEPT ![p] = None]
        /\ jobs' = jobs \cup {[kind |-> "risk", page |-> p, mine |-> TRUE, pc |-> "ids", rec |-> record, doc |-> 0]}
    /\ UNCHANGED <<record, disk, up, workers>>

\* A selection counts whether or not it succeeded.
Noted(p) == [rev |-> (IF retained[p] = None THEN 0 ELSE retained[p].rev) + 1, acked |-> 0]
NoteFileSelection(p) == Noted(p)
SetInputFiles ==
    /\ At("files") /\ op' = [op EXCEPT !.pc = "note", !.doc = tab[op.page].doc]
    /\ UNCHANGED <<tab, next, active, retained, record, disk, jobs, up, calls, workers>>
Note ==
    /\ At("note") /\ op' = [op EXCEPT !.pc = "end"]
    /\ retained' = [retained EXCEPT ![op.page] = NoteFileSelection(op.page)]
    /\ tab' = [tab EXCEPT ![op.page].owed = IF op.doc # 0 /\ op.doc = tab[op.page].doc THEN "yes" ELSE @]
    /\ jobs' = jobs \cup Job("risk", op.page, TRUE)
    /\ UNCHANGED <<next, active, record, disk, up, calls, workers>>

\* preflightNavigation, and the record of the acknowledgement before the input.
Permitted(r) == r = None \/ r.acked = r.rev
Preflight ==
    /\ At("preflight")
    /\ LET p == op.page r == retained[p] IN
       IF ~Permitted(r) /\ ~op.ack THEN op' = None /\ UNCHANGED <<tab, retained, jobs>>
       ELSE /\ op' = [op EXCEPT !.pc = "navigate"]
            /\ retained' = IF Permitted(r) THEN retained ELSE [retained EXCEPT ![p].acked = r.rev]
            /\ tab' = [tab EXCEPT ![p].owed = IF Permitted(r) THEN @ ELSE "no"]
            /\ jobs' = jobs \cup Job("risk", p, TRUE)
    /\ UNCHANGED <<next, active, record, disk, up, calls, workers>>

\* The input goes to the page, which may navigate, within its document or not.
Dispatch ==
    /\ At("navigate")
    /\ op' = [op EXCEPT !.pc = IF op.kind \in {"open", "history"} THEN "select" ELSE IF op.kind = "close" THEN "reconcile" ELSE "end"]
    /\ IF op.kind = "close" /\ op.page \in Open THEN Closed(op.page)
       ELSE \/ UNCHANGED <<tab, next, active, retained, jobs>>
            \/ op.page \in Open /\ \E within \in BOOLEAN : (within \/ next <= MaxDocuments) /\ Navigated(op.page, within)
    /\ UNCHANGED <<record, disk, up, calls, workers>>
\* reconcileVisiblePage: a page that is alone is selected, and written down.
Reconcile ==
    /\ At("reconcile") /\ op' = [op EXCEPT !.pc = "end"]
    /\ \/ \E p \in Open : Open = {p} /\ active' = p /\ jobs' = jobs \cup Job("selected", p, TRUE)
       \/ Cardinality(Open) # 1 /\ UNCHANGED <<active, jobs>>
    /\ UNCHANGED <<tab, next, retained, record, disk, up, calls, workers>>
Select ==
    /\ At("select") /\ op' = [op EXCEPT !.pc = "end"] /\ jobs' = jobs \cup Job("selected", op.page, TRUE)
    /\ UNCHANGED <<tab, next, active, retained, record, disk, up, calls, workers>>
End ==
    /\ At("end") /\ op' = None
    /\ UNCHANGED <<tab, next, active, retained, record, disk, jobs, up, calls, workers>>

-----------------------------------------------------------------------------
(* The worker goes, the browser stays; another worker attaches.             *)

WorkerLost ==
    /\ up /\ workers < MaxWorkers /\ workers' = workers + 1 /\ up' = FALSE
    /\ tab' = [p \in Pages |-> [tab[p] EXCEPT !.told = @ \/ disk.document = tab[p].doc, !.owed = IF @ # "yes" THEN @ ELSE IF jobs = {} /\ op = None THEN "replaced" ELSE "lost"]]
    /\ active' = None /\ retained' = [p \in Pages |-> None] /\ jobs' = {}
    /\ op' = [kind |-> "attach", page |-> IF jobs = {} /\ op = None THEN active ELSE None, ack |-> FALSE, pc |-> "attach", doc |-> 0, found |-> None, known |-> TRUE]
    /\ UNCHANGED <<next, record, disk, calls>>

\* The recorded page, or no page at all (settleNativeSelectedPage).
Attach ==
    /\ At("attach") /\ record' = disk
    /\ IF disk.target \in Open THEN up' = TRUE /\ active' = disk.target /\ op' = [op EXCEPT !.pc = "continuity", !.found = disk.target, !.known = disk.document # 0]
       ELSE op' = [op EXCEPT !.pc = "stopped"] /\ UNCHANGED <<up, active>>
    /\ UNCHANGED <<tab, next, retained, disk, jobs, calls, workers>>

\* The page written as selected before it is compared with the record.
AfterSelection ==
    /\ At("continuity") /\ op' = [op EXCEPT !.pc = "selected"] /\ record' = [record EXCEPT !.document = tab[record.target].doc]
    /\ UNCHANGED <<tab, next, active, retained, disk, jobs, up, calls, workers>>

\* recordNativeContinuityAfterAttach, then the page is written as selected.
Continuity ==
    /\ At("continuity")
    /\ \/ /\ active # None
          /\ tab' = [tab EXCEPT ![active].told = @ \/ tab[active].doc # record.document] /\ op' = [op EXCEPT !.pc = "selected"]
       \/ (MayFail \/ active = None) /\ op' = [op EXCEPT !.pc = "selected", !.known = FALSE] /\ UNCHANGED tab
    /\ UNCHANGED <<next, active, retained, record, disk, jobs, up, calls, workers>>
AttachSelected ==
    /\ At("selected")
    /\ jobs' = jobs \cup (IF active = None THEN {} ELSE Job("selected", active, TRUE))
    /\ op' = [op EXCEPT !.pc = IF active = None THEN "stopped" ELSE "ids"]
    /\ UNCHANGED <<tab, next, active, retained, record, disk, up, calls, workers>>

\* restoreNativePageStateRiskAfterAttach: the document is read, compared and then restored to.
AttachIds ==
    /\ At("ids")
    /\ op' = IF active = None THEN [op EXCEPT !.pc = "end"] ELSE [op EXCEPT !.pc = "restore", !.doc = tab[active].doc]
    /\ UNCHANGED <<tab, next, active, retained, record, disk, jobs, up, calls, workers>>
Restore ==
    /\ At("restore") /\ op' = [op EXCEPT !.pc = "end"]
    /\ retained' = IF active # None /\ record.risk # None /\ record.risk.target = active /\ record.risk.document = op.doc
                   THEN [retained EXCEPT ![active] = [rev |-> 1, acked |-> IF record.risk.ack THEN 1 ELSE 0]]
                   ELSE retained
    /\ tab' = [p \in Pages |-> [tab[p] EXCEPT !.owed = IF @ = "replaced" /\ ~Permitted(retained'[p]) THEN "yes" ELSE @]]
    /\ UNCHANGED <<next, active, record, disk, jobs, up, calls, workers>>

Next ==
    \/ JobIds \/ JobCompute \/ JobWrite \/ PageNavigates \/ PageCloses
    \/ BeginOnSelected \/ BeginClose \/ SelectTab \/ OpenNewTab \/ SetInputFiles \/ Note \/ Preflight \/ Dispatch \/ Reconcile \/ Select \/ End
    \/ WorkerLost \/ Attach \/ Continuity \/ AttachSelected \/ AttachIds \/ Restore
Spec == Init /\ [][Next]_vars

-----------------------------------------------------------------------------
\* The selected page is open, and a worker that is gone remembers nothing.
TypeOK ==
    /\ active \in Open \cup {None}
    /\ ~up => retained = [p \in Pages |-> None] /\ jobs = {}
    /\ \A p \in Pages : retained[p] # None => retained[p].acked <= retained[p].rev

\* A command that may leave a page goes ahead only when the agent has
\* acknowledged the selections made there since it last did, of those that this
\* worker made or was left (preflightNavigation).
GateHolds == At("navigate") => tab[op.page].owed # "yes"

\* A worker that attaches to the selected page has told of every document that
\* replaced the recorded one while no worker was there, when the browser
\* answered (recordNativeContinuityAfterAttach).
ReplacementTold ==
    op # None /\ op.kind = "attach" /\ At("end") /\ op' = None /\ op.known /\ active = op.found /\ active # None => tab[active].told

\* docs/dogfooding-2026-08-27-unsaved-attachment-navigation.md:23, "a proven
\* document boundary clears the state": nothing else opens the gate.
OnlyBoundaryClears == At("navigate") => tab[op.page].owed # "within"

\* docs/dogfooding-2026-08-27-unsaved-attachment-navigation.md:21 and :24, the
\* navigation stops unless acknowledged and "compatible worker replacement
\* restores it only for the same document": it does restore it for that.
RiskSurvives == At("navigate") => tab[op.page].owed # "replaced"

\* README.md:306, native sessions "reattach to the continuously running browser and
\* exact selected tab", when the worker was idle.
ExactTab == op # None /\ op.kind = "attach" /\ op.pc = "continuity" /\ op.page \in Open => active \in {op.page, None}
=============================================================================
