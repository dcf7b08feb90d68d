--------------------------- MODULE MCPageTargets ----------------------------
\* What a command means on a page that changes under it: the references of a
\* snapshot, the target of a click, the popup of a control and its options. The
\* worker runs one command at a time, so each behaviour is a snapshot or one of
\* the modules below on its own, "part" says which; the others' variables are
\* not there. Small pages: two editors in two modals, two controls, two popups.
EXTENDS SnapshotCapture, TLC
CONSTANTS ClickChanges,                \* what the page changes during a click
    Controls, Surfaces, Layouts,       \* of popups
    PopupChanges, Inspections, Candidates,
    Options, Selectable,               \* of a selection: the kinds of its control
    SelectionChanges, Selections
PageSymmetry == Permutations(Editors) \cup Permutations(Roots)

\* Layouts of two popups over two controls: whom they link, are near and closest to.
L(linkS, linkT, nearS, nearT, closeS, closeT, joined) ==
    [links |-> [s |-> linkS, t |-> linkT], near |-> [s |-> nearS, t |-> nearT],
     closest |-> [s |-> closeS, t |-> closeT], joined |-> joined]
TwoControls == {L({}, {"b"}, {"a", "b"}, {"a", "b"}, None, None, FALSE),
                L({}, {}, {"a", "b"}, {"a", "b"}, None, None, TRUE),
                L({"a"}, {}, {"a"}, {"b"}, "a", "b", FALSE),
                L({}, {}, {"a", "b"}, {}, "b", None, FALSE)}
\* Kinds of controls, and how they show what is selected.
C(kind, multiple, shows) == [kind |-> kind, multiple |-> multiple, shows |-> shows]
ControlKinds == {C("native", TRUE, "aria"), C("native", FALSE, "aria"), C("custom", TRUE, "aria"),
                 C("custom", TRUE, "chip"), C("custom", FALSE, "aria"), C("custom", FALSE, "nothing"),
                 C("search", FALSE, "aria"), C("search", FALSE, "nothing")}

VARIABLES part, asked, page, clock, pc, phases, held, probe, dispatch, real, report, changes,
          world, doing, retained, decisions, issued, used, calls
targets == <<part, asked, page, clock, pc, phases, held, probe, dispatch, real, report, changes,
    world, doing, retained, decisions, issued, used, calls, vars>>

\* The variables that one module alone has, and what they are while it does not run.
clickAction == <<asked, clock, pc, phases, held, probe, dispatch, real>>
NoClickAction == asked = None /\ clock = None /\ pc = None /\ phases = None /\ held = None
    /\ probe = None /\ dispatch = None /\ real = None
controlPopup == <<decisions, issued, used>>
NoControlPopup == decisions = None /\ issued = None /\ used = None

-----------------------------------------------------------------------------
\* One click, on a page that changes.
Click == INSTANCE ClickAction WITH MaxChanges <- ClickChanges
ClickBegins ==
    /\ part = "click" /\ Click!Init
    /\ Init /\ list = <<>> /\ NoControlPopup
    /\ world = None /\ doing = None /\ retained = None /\ calls = None
AloneClickAction == UNCHANGED <<part, vars, controlPopup, world, doing, retained, calls>>
ClickSteps == part = "click" /\ Click!Next /\ AloneClickAction

-----------------------------------------------------------------------------
\* Inspections of controls.
Popup == INSTANCE ControlPopup WITH Worlds <- Layouts, MaxChanges <- PopupChanges, MaxCalls <- Inspections,
    MaxIssued <- Candidates, op <- doing
PopupBegins ==
    /\ part = "popup" /\ Popup!Init
    /\ Init /\ list = <<>> /\ NoClickAction
AloneControlPopup == UNCHANGED <<part, vars, clickAction>>
PopupSteps == part = "popup" /\ Popup!Next /\ AloneControlPopup

-----------------------------------------------------------------------------
\* Inspections, each with a selection.
Selection == INSTANCE ControlSelection WITH Worlds <- Selectable, MaxChanges <- SelectionChanges,
    MaxCalls <- Selections, op <- doing
SelectionBegins ==
    /\ part = "selection" /\ Selection!Init
    /\ Init /\ list = <<>>
    /\ NoClickAction /\ NoControlPopup
AloneControlSelection == UNCHANGED <<part, vars, clickAction, controlPopup>>
SelectionSteps == part = "selection" /\ Selection!Next /\ AloneControlSelection

-----------------------------------------------------------------------------
\* Snapshots of a page with editors in one of its modals.
CaptureBegins ==
    /\ part = "capture" /\ Init
    /\ NoClickAction /\ NoControlPopup
    /\ page = None /\ report = None /\ changes = None /\ world = None /\ doing = None
    /\ retained = None /\ calls = None
CaptureSteps == part = "capture" /\ Next /\ UNCHANGED <<part, clickAction, controlPopup, page,
    report, changes, world, doing, retained, calls>>

-----------------------------------------------------------------------------
TargetsInit == CaptureBegins \/ ClickBegins \/ PopupBegins \/ SelectionBegins
TargetsNext == CaptureSteps \/ ClickSteps \/ PopupSteps \/ SelectionSteps
TargetsSpec == TargetsInit /\ [][TargetsNext]_targets

-----------------------------------------------------------------------------
\* However a click falls back, recovers or loses its evidence, no input follows
\* one that has put an event on the target, and a click that is reported did
\* reach it, once (click-executor.ts, click-dispatch.ts).
ClicksOnce ==
    /\ [](part = "click" => Click!TypeOK /\ Click!ReportedClickIsReal)
    /\ [][part = "click" => Click!NoReplay]_targets

\* An inspection makes no input but those it was asked for, takes a popup for
\* the opener's doing only when it was not there before, and accepts a decision
\* on its owner once (inspection.ts, popup-association.ts).
PopupsBelong ==
    /\ [](part = "popup" => Popup!TypeOK /\ Popup!InputsAsAsked /\ Popup!CausedByOpener)
    /\ [][part = "popup" => Popup!DecisionsOnce]_targets

\* A selection leaves the other options of a native select alone, is confirmed
\* by the option itself or by the very popup that closed, and a search that is
\* confirmed selected the option asked for (selection.ts).
SelectsWhatWasAsked ==
    /\ [](part = "selection" => Selection!TypeOK /\ Selection!ClosedIsObserved)
    /\ [][part = "selection" =>
            /\ Selection!NativeKeepsOthers /\ Selection!ConfirmedIsSelected /\ Selection!CommitsWhatWasAsked]_targets
=============================================================================
