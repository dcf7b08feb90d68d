--------------------------- MODULE MCPageCommands ---------------------------
\* What one command does to a page that changes under it. The worker runs one
\* command at a time, so each behaviour is one of the modules below on its own,
\* "part" says which; the others' variables are not there. Small pages: two
\* editors, two fields, two tabs.
EXTENDS Naturals
CONSTANTS None, t1, t2,
    CommandRuns, FileRuns,  \* how often a command of a part runs, and a file selection
    MaxVersion,             \* how often the page navigates
    Editors,                \* of a fill
    Uploads,                \* whose progress the page shows beside a file selection
    FieldKinds, Fields,     \* the kinds of the fields of a form, and the first documents
    MaxChanges, MaxForms, MaxFields, MaxWorkflows, \* of form plans
    MaxArticles, MaxSteps,  \* of a scroll
    MaxPolls,               \* of an inspection
    Dialogs, Types, Calls, Last, \* the dialogs that come up, and the commands they do in
    MaxNodes, MaxWorkers    \* of a handoff: the elements of the field and the workers
Tabs == {t1, t2}

\* Two fields of one name, in one form or in two, or a field and a check box.
F(id, form) == [id |-> id, form |-> form]
SmallKinds == [street |-> "text", city |-> "text", agree |-> "checkbox"]
SmallForms == {<<F("street", 1), F("street", 1)>>, <<F("street", 1), F("street", 2)>>,
               <<F("street", 0), F("agree", 0)>>}

VARIABLES part, version, match, inside, value, muted, snapshot, op, unique, runs, answer, page,
          input, disk, used, risk, entered, late, quiet, summary, retained, plan, workflows,
          touched, report, made, changes, doc, visible, attached, run, performed, live, active,
          known, dialog, scope, call, settled, answers, docOf, held, lined, worker, turn, typed,
          changed
vars == <<part, version, match, inside, value, muted, snapshot, op, unique, runs, answer, page,
    input, disk, used, risk, entered, late, quiet, summary, retained, plan, workflows, touched,
    report, made, changes, doc, visible, attached, run, performed, live, active, known, dialog,
    scope, call, settled, answers, docOf, held, lined, worker, turn, typed, changed>>

\* The variables that one module alone has, and what they are while it does not run.
editorFill == <<match, inside, value, muted, unique>>
NoEditorFill == match = None /\ inside = None /\ value = None /\ muted = None /\ unique = None
fileSelection == <<input, disk, used, risk, entered, late, quiet>>
NoFileSelection == input = None /\ disk = None /\ used = None /\ risk = None /\ entered = None
    /\ late = None /\ quiet = None
formPlan == <<summary, retained, plan, workflows, touched, made, changes>>
NoFormPlan == summary = None /\ retained = None /\ plan = None /\ workflows = None
    /\ touched = None /\ made = None /\ changes = None
scrollAction == <<doc, attached, performed>>
NoScrollAction == doc = None /\ attached = None /\ performed = None
tabInspection == <<live, active>>
NoTabInspection == live = None /\ active = None
dialogs == <<dialog, scope, call, settled, answers>>
NoDialogs == dialog = None /\ scope = None /\ call = None /\ settled = None /\ answers = None
privateField == <<docOf, held, lined, worker, turn, typed, changed>>
NoPrivateField == docOf = None /\ held = None /\ lined = None /\ worker = None /\ turn = None
    /\ typed = None /\ changed = None

-----------------------------------------------------------------------------
\* Text into one of two editors.
Fill == INSTANCE EditorFill WITH Runs <- CommandRuns
FillBegins ==
    /\ part = "fill" /\ Fill!Init
    /\ NoFileSelection /\ NoFormPlan
    /\ NoScrollAction /\ NoTabInspection /\ NoDialogs /\ NoPrivateField /\ page = None
    /\ report = None /\ visible = None /\ run = None /\ known = None
AloneEditorFill == UNCHANGED <<part, fileSelection, formPlan, scrollAction, tabInspection,
    dialogs, privateField, page, report, visible, run, known>>
FillSteps == part = "fill" /\ Fill!Next /\ AloneEditorFill

-----------------------------------------------------------------------------
\* Two file selections, the first one beside an earlier upload. The bound: beside
\* the second the page shows nothing of it.
Files == INSTANCE FileSelection WITH Runs <- FileRuns
FilesBegins ==
    /\ part = "files" /\ Files!Init
    /\ NoEditorFill /\ NoFormPlan
    /\ NoScrollAction /\ NoTabInspection /\ NoDialogs /\ NoPrivateField /\ version = None
    /\ report = None /\ visible = None /\ run = None /\ known = None
AloneFileSelection == UNCHANGED <<part, editorFill, formPlan, scrollAction, tabInspection,
    dialogs, privateField, version, report, visible, run, known>>
FirstBesideUpload == runs' > 1 => page'.marks = {} /\ \A u \in Uploads : page'.bars[u] = None
FilesSteps == part = "files" /\ Files!Next /\ AloneFileSelection /\ FirstBesideUpload

-----------------------------------------------------------------------------
\* Two plans of two fields.
Form == INSTANCE FormPlan WITH Kinds <- FieldKinds, Doms <- Fields
FormBegins ==
    /\ part = "form" /\ Form!Init
    /\ NoEditorFill /\ NoFileSelection
    /\ NoScrollAction /\ NoTabInspection /\ NoDialogs /\ NoPrivateField /\ version = None
    /\ snapshot = None /\ op = None /\ runs = None /\ answer = None /\ visible = None
    /\ run = None /\ known = None
AloneFormPlan == UNCHANGED <<part, editorFill, fileSelection, scrollAction, tabInspection,
    dialogs, privateField, version, snapshot, op, runs, answer, visible, run, known>>
FormSteps == part = "form" /\ Form!Next /\ AloneFormPlan

-----------------------------------------------------------------------------
\* A scroll of two steps.
Scroll == INSTANCE ScrollAction WITH Runs <- CommandRuns
ScrollBegins ==
    /\ part = "scroll" /\ Scroll!Init
    /\ NoEditorFill /\ NoFileSelection
    /\ NoFormPlan /\ NoTabInspection /\ NoDialogs /\ NoPrivateField /\ version = None
    /\ snapshot = None /\ op = None /\ page = None /\ report = None /\ known = None
AloneScrollAction == UNCHANGED <<part, editorFill, fileSelection, formPlan, tabInspection,
    dialogs, privateField, version, snapshot, op, page, report, known>>
ScrollSteps == part = "scroll" /\ Scroll!Next /\ AloneScrollAction

-----------------------------------------------------------------------------
\* An inspection of a tab beside the active one.
Tab == INSTANCE TabInspection WITH Pages <- Tabs
TabBegins ==
    /\ part = "tab" /\ Tab!Init
    /\ NoEditorFill /\ NoFileSelection
    /\ NoFormPlan /\ NoScrollAction /\ NoDialogs /\ NoPrivateField /\ snapshot = None
    /\ op = None /\ runs = None /\ page = None /\ report = None
AloneTabInspection == UNCHANGED <<part, editorFill, fileSelection, formPlan, scrollAction,
    dialogs, privateField, snapshot, op, runs, page, report>>
TabSteps == part = "tab" /\ Tab!Next /\ AloneTabInspection

-----------------------------------------------------------------------------
\* Two commands and two dialogs.
Dialog == INSTANCE Dialogs
DialogBegins ==
    /\ part = "dialog" /\ Dialog!Init
    /\ NoEditorFill /\ NoFileSelection
    /\ NoFormPlan /\ NoScrollAction /\ NoTabInspection /\ NoPrivateField /\ version = None
    /\ snapshot = None /\ op = None /\ runs = None /\ answer = None /\ page = None
    /\ report = None /\ visible = None /\ run = None /\ known = None
AloneDialogs == UNCHANGED <<part, editorFill, fileSelection, formPlan, scrollAction,
    tabInspection, privateField, version, snapshot, op, runs, answer, page, report, visible, run,
    known>>
DialogSteps == part = "dialog" /\ Dialog!Next /\ AloneDialogs

-----------------------------------------------------------------------------
\* Handoffs of a field that is rendered anew, and a second worker.
Field == INSTANCE PrivateField
FieldBegins ==
    /\ part = "field" /\ Field!Init
    /\ NoEditorFill /\ NoFileSelection
    /\ NoFormPlan /\ NoScrollAction /\ NoTabInspection /\ NoDialogs /\ version = None
    /\ snapshot = None /\ runs = None /\ answer = None /\ visible = None /\ run = None
AlonePrivateField == UNCHANGED <<part, editorFill, fileSelection, formPlan, scrollAction,
    tabInspection, dialogs, version, snapshot, runs, answer, visible, run>>
FieldSteps == part = "field" /\ Field!Next /\ AlonePrivateField

-----------------------------------------------------------------------------
Init == FillBegins \/ FilesBegins \/ FormBegins \/ ScrollBegins \/ TabBegins
    \/ DialogBegins \/ FieldBegins
Next == FillSteps \/ FilesSteps \/ FormSteps \/ ScrollSteps \/ TabSteps
    \/ DialogSteps \/ FieldSteps
Spec == Init /\ [][Next]_vars

-----------------------------------------------------------------------------
\* Each part has its type invariant in its property, too.

\* Text goes into one editor only, by its role into one that was the only match,
\* and a fill said not to be dispatched entered nothing (fill-evidence.ts).
FillsOneEditor == part = "fill" => Fill!TypeOK /\ Fill!OneEditor /\ Fill!FalseIsUntouched

\* A snapshot lets one file selection through, which is confirmed only when the
\* input held the examined file, and known to be unsaved whatever ends it
\* (files.ts); its processing is complete only by a signal that was absent once
\* since it began (file-processing.ts).
FilesAreWatched == part = "files" =>
    /\ Files!TypeOK /\ Files!ConfirmedIsObserved /\ Files!OneSelectionPerSnapshot /\ Files!SelectionIsRisk
    /\ Files!CompletionIsATransition

\* Every step of a plan writes the element that was captured as its field, or the
\* only one found with its kind, name and form, in the document that was summarised;
\* it still is that field unless the page reused the element in place, and what is
\* filled is an editor (forms/plan.ts, rebind.ts, field-fill.ts).
PlansKeepToTheirForm ==
    /\ [](part = "form" => Form!TypeOK)
    /\ [][part = "form" => Form!WrittenWhereAsked /\ Form!OneDocument]_vars

\* Loaders disappeared only when the surest kind seen is not there, an element
\* is the same one throughout, and no movement of the page is denied (scroll/action.ts).
ScrollsAreTold == part = "scroll" =>
    Scroll!TypeOK /\ Scroll!DisappearanceIsReal /\ Scroll!ElementIsPinned /\ Scroll!DispatchIsTold

\* An inspection of a background tab shows the document it pinned, and gives the
\* renderer back or says that it could not (observation/tabs.ts, tab-activation.ts).
InspectsAndGivesBack == part = "tab" => Tab!TypeOK /\ Tab!SnapshotIsPinned /\ Tab!GivenBack

\* One dialog of a command gets the response the agent asked for, and a command
\* that succeeds had this dialog and no other, or none (dialogs/manager.ts).
AnswersOneDialog == part = "dialog" => Dialog!TypeOK /\ Dialog!OneAccepted /\ Dialog!SuccessIsExact

\* A field is said to be completed only when the very element that was
\* highlighted got or lost a value meanwhile, and a handoff that is over has
\* left no element highlighted (handoff/private-field.ts).
FieldIsGivenBack == part = "field" => Field!TypeOK /\ Field!CompletedIsAChange /\ Field!OutlineGone
=============================================================================
