----------------------------- MODULE ScrollAction -----------------------------
(* The scroll command (scroll/action.ts), its observation surface and its    *)
(* wait for content (scroll/helpers.ts), and what one observation of a       *)
(* surface can see of its loaders (scroll/content-observation.ts). The page  *)
(* changes, navigates and replaces elements as it likes; the person hides    *)
(* and shows it.                                                             *)
EXTENDS Naturals, FiniteSets
CONSTANTS None, MaxVersion, MaxArticles, MaxSteps, Runs
VARIABLES doc,       \* the document of the frame: its version, its articles and the loaders it shows
          visible,   \* whether its renderer is
          attached,  \* whether the element observed still is
          run,       \* None or the scroll under way
          performed, \* how many movements of the last scroll reached the page
          runs,      \* how many scrolls there were
          answer     \* None or how the last scroll ended
vars == <<doc, visible, attached, run, performed, runs, answer>>
Kinds == {"semantic", "text", "animation"}
Conditions == {"article_count_growth", "loading_indicators_disappear", "either"}

Init ==
    /\ doc \in [version : {0}, articles : {0}, loaders : SUBSET Kinds]
    /\ visible \in BOOLEAN /\ attached = FALSE /\ run = None /\ performed = 0 /\ runs = 0 /\ answer = None

-----------------------------------------------------------------------------
\* The page and the person.
Changes ==
    /\ \E a \in 0..MaxArticles, l \in SUBSET Kinds : doc' = [doc EXCEPT !.articles = a, !.loaders = l]
    /\ UNCHANGED <<visible, attached, run, performed, runs, answer>>
Navigates ==
    /\ doc.version < MaxVersion /\ attached' = FALSE
    /\ \E a \in 0..MaxArticles, l \in SUBSET Kinds :
        doc' = [version |-> doc.version + 1, articles |-> a, loaders |-> l]
    /\ UNCHANGED <<visible, run, performed, runs, answer>>
Detaches == attached /\ attached' = FALSE /\ UNCHANGED <<doc, visible, run, performed, runs, answer>>
Hides == visible' = ~visible /\ UNCHANGED <<doc, attached, run, performed, runs, answer>>

-----------------------------------------------------------------------------
\* observeScrollContentForRoot: semantic loaders are always seen, and then
\* nothing else is looked for; loading texts and animations are looked for, in
\* that order, by scans that have a limit each and may miss what lies behind it.
Samples ==
    {s \in [articles : {doc.articles}, seen : Kinds \cup {None}, textComplete : BOOLEAN, animationComplete : BOOLEAN] :
        IF "semantic" \in doc.loaders THEN s.seen = "semantic" /\ s.textComplete /\ s.animationComplete
        ELSE /\ s.seen \in doc.loaders \cup {None}
             /\ s.seen = "text" => s.animationComplete
             /\ s.seen # "text" /\ "text" \in doc.loaders => ~s.textComplete
             /\ s.seen = None /\ "animation" \in doc.loaders => ~s.animationComplete}

\* scrollContentObservation: an element that is gone gives no observation.
Observable == run.surface = "viewport" \/ attached

At(where) == run # None /\ run.at = where
Goes(where) == run' = [run EXCEPT !.at = where]
\* The answer of an error says whether a movement was dispatched, and so does
\* the record of the action for the diagnostics.
Prior == run.steps > 0 \/ run.dispatched = "yes"
Ends(r, kind, told, evidence) ==
    /\ run' = None
    /\ answer' = [kind |-> kind, told |-> told, recorded |-> r.dispatched, steps |-> r.steps,
                  evidence |-> evidence, seen |-> r.seen, loaders |-> doc.loaders,
                  surface |-> r.surface, same |-> r.base = doc.version, connected |-> attached]
Blocked(kind) == Ends(run, kind, IF Prior THEN "yes" ELSE "no", None)
Page == <<doc, attached, performed, runs>>

\* activateBeforeScroll: the page is made visible, or the scroll is over.
Activates(where) == (visible' = TRUE /\ Goes(where) /\ UNCHANGED answer) \/ (Blocked("page_not_active") /\ UNCHANGED visible)

Begin ==
    /\ run = None /\ runs < Runs /\ runs' = runs + 1
    /\ \E condition \in Conditions \cup {None}, container \in BOOLEAN :
        /\ run' = [condition |-> condition, container |-> container, at |-> "activate", surface |-> None, base |-> None,
                   articles |-> 0, seen |-> {}, textComplete |-> TRUE, animationComplete |-> TRUE,
                   steps |-> 0, dispatched |-> "no"]
        /\ attached' = container
    /\ performed' = 0 /\ answer' = None /\ UNCHANGED <<doc, visible>>
Activate == At("activate") /\ Activates("pin") /\ UNCHANGED Page

\* resolveScrollContentObservationSurface: the container asked for, the one
\* visible feed, or the viewport.
Pin ==
    /\ At("pin")
    /\ \/ run.container /\ attached' = attached /\ run' = [run EXCEPT !.at = "baseline", !.surface = "element"]
       \/ ~run.container /\ attached' = TRUE /\ run' = [run EXCEPT !.at = "baseline", !.surface = "element"]
       \/ ~run.container /\ attached' = FALSE /\ run' = [run EXCEPT !.at = "baseline", !.surface = "viewport"]
    /\ UNCHANGED <<doc, visible, performed, runs, answer>>
\* What is known of the loaders after another sample.
Noted(s) ==
    [run EXCEPT !.seen = @ \cup ({s.seen} \ {None}), !.textComplete = @ /\ s.textComplete,
                !.animationComplete = @ /\ s.animationComplete]
\* The baseline; a feed that is gone by then gives its place to the viewport,
\* and a semantic scan at its limit ends the scroll.
Baseline ==
    /\ At("baseline")
    /\ \/ /\ Observable \/ ~run.container
          /\ \E s \in Samples :
              run' = [Noted(s) EXCEPT !.at = "step", !.articles = s.articles, !.base = doc.version,
                                      !.surface = IF Observable THEN @ ELSE "viewport"]
          /\ UNCHANGED answer
       \/ ~Observable /\ run.container /\ Blocked("surface_unavailable")
       \/ Blocked("observation_incomplete")
    /\ UNCHANGED <<visible, Page>>

\* One movement: the page is activated again, and the dispatch is unknown until
\* the evaluation in the page returns.
Step ==
    /\ At("step")
    /\ \/ Goes("wait") /\ UNCHANGED <<visible, answer>>
       \/ run.steps < MaxSteps /\ Activates("move")
    /\ UNCHANGED Page
Dispatches == run' = [run EXCEPT !.at = "moving", !.dispatched = "unknown"]
Move == At("move") /\ Dispatches /\ UNCHANGED <<visible, answer, Page>>
Moved ==
    /\ At("moving")
    /\ \/ /\ performed' = performed + 1
          /\ \E where \in {"step", "wait"} : run' = [run EXCEPT !.at = where, !.dispatched = "yes", !.steps = @ + 1]
          /\ UNCHANGED answer
       \/ performed' \in {performed, performed + 1} /\ Ends(run, "failed", "unsaid", None)
    /\ UNCHANGED <<doc, visible, attached, runs>>

\* waitForScrollContent: what one more sample lets it say.
GenericComplete(r) ==
    IF "text" \in r.seen THEN r.textComplete ELSE r.animationComplete
DisappearedIfNone(r, s) == r.seen # {} /\ s.seen = None
Disappeared(r, s) == r.seen # {} /\ s.seen = None /\ ("semantic" \in r.seen \/ GenericComplete(r))
Grew(r, s) == s.articles > r.articles
Evidence(r, s) ==
    IF r.condition # "loading_indicators_disappear" /\ Grew(r, s) THEN "grew"
    ELSE IF r.condition # "article_count_growth" /\ Disappeared(r, s) THEN "disappeared" ELSE None
Incomplete(r, s) ==
    /\ r.condition # "article_count_growth" /\ r.seen # {} /\ "semantic" \notin r.seen
    /\ s.seen = None /\ ~GenericComplete(r)
Wait ==
    /\ At("wait")
    /\ \/ ~Observable /\ Blocked("surface_unavailable")
       \/ Blocked("observation_incomplete")
       \/ /\ Observable
          /\ \E s \in Samples : LET r == Noted(s) IN
              IF run.condition = None THEN Ends(r, "succeeded", r.dispatched, "not_requested")
              ELSE \/ Evidence(r, s) # None /\ Ends(r, "succeeded", r.dispatched, Evidence(r, s))
                   \/ Evidence(r, s) = None /\ run' = r /\ UNCHANGED answer
                   \/ IF Incomplete(r, s) THEN Blocked("observation_incomplete")
                      ELSE Ends(r, "succeeded", r.dispatched, "timeout")
    /\ UNCHANGED <<visible, Page>>

Next == Changes \/ Navigates \/ Detaches \/ Hides
        \/ Begin \/ Activate \/ Pin \/ Baseline \/ Step \/ Move \/ Moved \/ Wait
Spec == Init /\ [][Next]_vars

-----------------------------------------------------------------------------
\* A scroll in its steps has a baseline, an element it watches, and counts no
\* more steps than it dispatched.
TypeOK ==
    /\ doc.articles \in 0..MaxArticles /\ doc.loaders \subseteq Kinds
    /\ run # None => /\ run.at \in {"step", "move", "moving", "wait"} => run.base \in 0..MaxVersion
                     /\ run.steps <= performed /\ run.steps <= MaxSteps

Said(kinds) == answer # None /\ answer.kind \in kinds
\* A scroll says that the loaders disappeared only when those of the surest kind
\* it ever saw are not there (observeScrollContentForRoot, waitForScrollContent).
DisappearanceIsReal == Said({"succeeded"}) /\ answer.evidence = "disappeared" =>
    /\ "semantic" \notin answer.loaders
    /\ "semantic" \notin answer.seen =>
        (IF "text" \in answer.seen THEN "text" ELSE "animation") \notin answer.loaders

\* A surface that is an element is the same from the baseline to the evidence,
\* and its document as well (resolveScrollContentObservationSurface).
ElementIsPinned == Said({"succeeded"}) /\ answer.surface = "element" => answer.same /\ answer.connected

\* No scroll that may have moved the page says, or leaves for the diagnostics,
\* that nothing was dispatched, and it reports no step it did not make.
DispatchIsTold == answer # None =>
    /\ performed > 0 => answer.told # "no" /\ answer.recorded # "no"
    /\ answer.steps <= performed
    /\ answer.recorded = "yes" => answer.steps = performed

\* docs/browser-support.md:22, "A capped generic-text or animation scan cannot
\* prove loader disappearance": without semantic loaders, disappeared means that
\* no loader shows.
CappedProvesNothing == Said({"succeeded"}) /\ answer.evidence = "disappeared" /\ "semantic" \notin answer.seen =>
    answer.loaders = {}

\* docs/architecture.md:221, "or the viewport—is pinned for the entire operation
\* so virtualized layout changes cannot make before/after counts incomparable":
\* evidence compares counts of one document.
EvidenceIsComparable == Said({"succeeded"}) /\ answer.evidence \in {"grew", "disappeared"} => answer.same
=============================================================================
