---------------------------- MODULE TabInspection ----------------------------
(* The passive look at a background tab (observation/tabs.ts), with the      *)
(* temporary activation of its renderer and the restoration of the selected  *)
(* one (observation/tab-activation.ts). Commands run one at a time; what     *)
(* happens to the pages while a command waits is up to their documents and   *)
(* to the person in front of the browser.                                    *)
EXTENDS Naturals, FiniteSets
CONSTANTS None, Pages, MaxVersion, MaxPolls
VARIABLES live,    \* the pages of the context that are not closed
          visible, \* those whose renderer is visible
          version, \* of each page, the document its main frame has
          active,  \* activePage, or None
          known,   \* observedTabsById: the pages whose tabId is good
          run,     \* None or the inspection under way
          answer   \* None or how the last inspection ended: whether it switched renderers, and back
env == <<live, version>>
vars == <<live, visible, version, active, known, run, answer>>

Sole(s) == IF Cardinality(s) = 1 THEN CHOOSE p \in s : TRUE ELSE None
\* preferredPage, which also settles on the sole page when the selection is lost.
Preferred == IF active \in live THEN active ELSE Sole(live)
Settle == active' = IF Preferred = None THEN active ELSE Preferred

Init ==
    /\ live \in (SUBSET Pages) \ {{}} /\ visible \in SUBSET live
    /\ version = [p \in Pages |-> 0] /\ active \in live /\ known = {}
    /\ run = None /\ answer = None

-----------------------------------------------------------------------------
\* What happens by itself: bindContext, bindPage, recoverActivePageAfterLoss.
Lost(p) ==
    /\ active' = IF active = p THEN Sole(live \ {p}) ELSE active
    /\ known' = known \ {p}
Closes ==
    /\ \E p \in live :
        /\ live' = live \ {p} /\ visible' = visible \ {p} /\ Lost(p)
    /\ UNCHANGED <<version, run, answer>>
Crashes ==
    /\ \E p \in live : Lost(p)
    /\ UNCHANGED <<env, visible, run, answer>>
Navigates ==
    /\ \E p \in live : version[p] < MaxVersion /\ version' = [version EXCEPT ![p] = @ + 1]
    /\ UNCHANGED <<live, visible, active, known, run, answer>>
Switches ==
    /\ visible' \in SUBSET live
    /\ UNCHANGED <<env, active, known, run, answer>>

-----------------------------------------------------------------------------
\* tabs, reconcileVisiblePage
Tabs ==
    /\ run = None
    /\ active' = IF Preferred # None THEN Preferred
                 ELSE IF Sole(visible) # None THEN Sole(visible) ELSE active
    /\ known' = live /\ answer' = None
    /\ UNCHANGED <<env, visible, run>>

\* A page asked to come to the front may or may not become visible, over the
\* others or beside them.
Shown(p) == visible' \in {visible, visible \cup {p}, {p}}

SelectTab ==
    /\ run = None
    /\ \E p \in known \cap live : active' = p /\ Shown(p)
    /\ answer' = None /\ UNCHANGED <<env, known, run>>

\* observedTab: a tabId whose page is closed is forgotten.
Stale ==
    /\ run = None /\ known \ live # {} /\ known' = known \cap live
    /\ UNCHANGED <<env, visible, active, run, answer>>

\* inspectTab: both pages and the document are pinned; a wait for content needs
\* the activation, and the activation a selected page.
Begin ==
    /\ run = None
    /\ \E p \in known \cap live, temporary, wait \in BOOLEAN :
        /\ wait => temporary
        /\ temporary => Preferred # None
        /\ run' = [page |-> p, selected |-> Preferred, temporary |-> temporary, wait |-> wait,
                   pinned |-> version[p], at |-> IF wait THEN "observe" ELSE "activate", polls |-> 0,
                   recovered |-> FALSE, failed |-> FALSE, captured |-> None,
                   front |-> None, proven |-> FALSE, restored |-> FALSE]
    /\ Settle /\ answer' = None
    /\ UNCHANGED <<env, visible, known>>

At(where) == run # None /\ run.at = where
Goes(where) == run' = [run EXCEPT !.at = where]
Fails == run' = [run EXCEPT !.at = "finally", !.failed = TRUE]
BringsToFront(p, where) ==
    /\ p \in live /\ Shown(p)
    /\ run' = [run EXCEPT !.at = where, !.front = p, !.proven = FALSE]
Ends(kind) ==
    /\ answer' = [kind |-> kind, temporary |-> run.temporary, pinned |-> run.pinned,
                  captured |-> run.captured, told |-> version[run.page],
                  away |-> run.front # None /\ run.selected # run.page,
                  back |-> run.front = run.selected /\ run.proven]
    /\ run' = None
Quiet == UNCHANGED <<env, active, known>>

\* The loading state is observed before anything is activated; without it the
\* inspection ends here.
Observe ==
    /\ At("observe")
    /\ \/ Goes("activate") /\ UNCHANGED answer
       \/ Ends("failed")
    /\ Quiet /\ UNCHANGED visible

Looks == IF run.wait THEN "poll" ELSE "ready"
Activate ==
    /\ At("activate")
    /\ IF run.temporary /\ run.selected # run.page
         THEN BringsToFront(run.page, "activated") \/ (Fails /\ UNCHANGED visible)
         ELSE Goes(Looks) /\ UNCHANGED visible
    /\ Quiet /\ UNCHANGED answer

\* waitForVisiblePageActivation, observePageActivation: what is not seen to be
\* visible in time is not.
ObservedActive == run.page \in visible
Activated ==
    /\ At("activated")
    /\ (ObservedActive /\ Goes(Looks)) \/ Fails
    /\ Quiet /\ UNCHANGED <<visible, answer>>

\* ensureTemporaryRendererVisible, before each look at the content and before
\* the capture: it recovers the renderer once.
AfterGuard == IF run.at \in {"poll", "repoll"} THEN "content" ELSE "capture"
Guard ==
    /\ At("poll") \/ At("ready")
    /\ \/ (run.temporary => run.page \in visible) /\ Goes(AfterGuard) /\ UNCHANGED visible
       \/ /\ run.temporary /\ ~run.recovered /\ run.page \in live /\ Shown(run.page)
          /\ run' = [run EXCEPT !.at = IF run.at = "poll" THEN "repoll" ELSE "reready", !.recovered = TRUE,
                                !.front = run.page]
       \/ run.temporary /\ Fails /\ UNCHANGED visible
    /\ Quiet /\ UNCHANGED answer
Recovered ==
    /\ At("repoll") \/ At("reready")
    /\ (run.page \in visible /\ Goes(AfterGuard)) \/ Fails
    /\ Quiet /\ UNCHANGED <<visible, answer>>

\* waitForScrollContent: another poll, or the condition or the end of the
\* budget, or a surface that cannot be observed any more.
Content ==
    /\ At("content")
    /\ \/ run.polls < MaxPolls /\ run' = [run EXCEPT !.at = "poll", !.polls = @ + 1]
       \/ Goes("ready")
       \/ Fails
    /\ Quiet /\ UNCHANGED <<visible, answer>>

Capture ==
    /\ At("capture")
    /\ (run.page \in live /\ run' = [run EXCEPT !.at = "captured", !.captured = version[run.page]]) \/ Fails
    /\ Quiet /\ UNCHANGED <<visible, answer>>
Captured ==
    /\ At("captured")
    /\ ((run.temporary => run.page \in visible) /\ Goes("finally")) \/ Fails
    /\ Quiet /\ UNCHANGED <<visible, answer>>

-----------------------------------------------------------------------------
\* restoreTemporarilyActivatedTab, in the finally of the inspection: the
\* selected page is asked to the front, once more if it is still the selected
\* one and does not show, and has to be seen there.
MustRestore == run.temporary /\ run.selected # run.page /\ run.selected \in live
SeenVisible == run.selected \in visible
SeenRestored == run.selected \in visible /\ Preferred = run.selected
Restore ==
    /\ At("finally")
    /\ IF MustRestore
         THEN BringsToFront(run.selected, "restored") \/ (Goes("judge") /\ UNCHANGED visible)
         ELSE run' = [run EXCEPT !.at = "judge", !.restored = run.temporary /\ run.selected = run.page] /\ UNCHANGED visible
    /\ Quiet /\ UNCHANGED answer
Proves == run' = [run EXCEPT !.at = "judge", !.restored = TRUE,
                             !.proven = run.selected \in visible /\ Preferred = run.selected]
Restored ==
    /\ At("restored") \/ At("again")
    /\ \/ SeenRestored /\ Proves /\ UNCHANGED visible
       \/ At("restored") /\ Preferred = run.selected /\ BringsToFront(run.selected, "again")
       \/ Goes("judge") /\ UNCHANGED visible
    /\ Settle /\ UNCHANGED <<env, known, answer>>

\* The capture counts when the tab is still the observed one and its document
\* the pinned one.
SameDocument == run.page \in live /\ run.page \in known /\ version[run.page] = run.pinned
Judge ==
    /\ At("judge")
    /\ IF run.temporary /\ ~run.restored THEN Ends("restore_failed")
       ELSE IF run.failed THEN Ends("failed")
       ELSE IF ~SameDocument THEN Ends("document_changed")
       ELSE Goes("summary") /\ UNCHANGED answer
    /\ Quiet /\ UNCHANGED visible

\* tabSummary, after one more look at the renderer: it names the page, which may
\* be closed by now, and reads its url and title.
Summary ==
    /\ At("summary")
    /\ known' = known \cup {run.page} /\ Goes("answer") /\ Settle
    /\ UNCHANGED <<env, visible, answer>>
Answers ==
    /\ At("answer") /\ Ends("success")
    /\ Quiet /\ UNCHANGED visible

Inspection == Observe \/ Activate \/ Activated \/ Guard \/ Recovered \/ Content \/ Capture \/ Captured
              \/ Restore \/ Restored \/ Judge \/ Summary \/ Answers
Next == Closes \/ Crashes \/ Navigates \/ Switches \/ Tabs \/ SelectTab \/ Stale \/ Begin \/ Inspection
\* Everything an inspection waits for has a deadline.
Spec == Init /\ [][Next]_vars /\ WF_vars(Inspection)

-----------------------------------------------------------------------------
\* The selection is a page of the context or lost, and an inspection keeps to
\* its pages.
TypeOK ==
    /\ visible \subseteq live /\ known \subseteq Pages
    /\ active \in live \cup {None}
    /\ run # None => run.front \in {None, run.page, run.selected} /\ (run.recovered => run.temporary)

Ended == answer # None
\* An inspection that succeeds shows the document that was pinned, whatever the
\* page did meanwhile (inspectTab).
SnapshotIsPinned == Ended /\ answer.kind = "success" => answer.captured = answer.pinned

\* However an inspection ends, the renderer it took away from the selected page
\* was given back and seen there while that page was the selected one, or the
\* answer says that it could not be (restoreTemporarilyActivatedTab).
GivenBack == Ended /\ answer.away => answer.kind = "restore_failed" \/ answer.back

\* An inspection ends, however often the person switches tabs under it
\* (ensureTemporaryRendererVisible, waitForScrollContent).
InspectionEnds == (run # None) ~> (run = None)

\* docs/architecture.md:217, "the worker pins both exact pages and the target
\* document": the page a success describes is in the document it shows.
DescribesPinned == Ended /\ answer.kind = "success" /\ answer.temporary => answer.told = answer.pinned
=============================================================================
