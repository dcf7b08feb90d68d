-------------------------- MODULE ControlSelection --------------------------
(* Selecting options of an inspected control (controller/controls): native  *)
(* selects, popups, several options one after the other, and an editable    *)
(* control that is typed into and committed with Enter. The page re-renders *)
(* the control, closes the popup, changes the selection or leaves between   *)
(* any two steps.                                                           *)
EXTENDS Naturals, FiniteSets, Sequences, SequencesExt
CONSTANTS None, Options,
          Worlds,   \* kind: native, custom or search; multiple; shows: aria, chip or nothing
          MaxChanges, MaxCalls
VARIABLES world,
          page,     \* document, control node (0 when gone), popup (0 when closed), selected, typed value, active option
          retained, \* None or the inspection of the control: document, node, popup, what each option showed
          op,       \* None or the selection under way
          report,   \* None or the answer of the last selection
          calls, changes
vars == <<world, page, retained, op, report, calls, changes>>

Init ==
    /\ world \in Worlds
    /\ page \in [doc : {1}, node : {1}, popup : {0}, next : {2}, selected : {{}} \cup {{o} : o \in Options},
                 value : {None}, active : {None}]
    /\ retained = None /\ op = None /\ report = None /\ calls = 0 /\ changes = 0

Shown(o) == IF world.shows = "aria" THEN (IF o \in page.selected THEN "yes" ELSE "no") ELSE "null"
Chip(o) == world.shows = "chip" /\ o \in page.selected
Opened == IF page.popup = 0 THEN [page EXCEPT !.popup = page.next, !.next = @ + 1] ELSE page
Observed(p) == [doc |-> p.doc, node |-> p.node, popup |-> p.popup,
                seen |-> [o \in Options |-> Shown(o)], chips |-> {o \in Options : Chip(o)}]

-----------------------------------------------------------------------------
(* The inspection, and the capability it leaves (ControlPopup has it whole). *)
Inspect ==
    /\ op = None /\ calls < MaxCalls /\ page.node # 0 /\ calls' = calls + 1
    /\ page' = IF world.kind = "native" THEN page ELSE Opened
    /\ retained' = Observed(page')
    /\ UNCHANGED <<world, op, report, changes>>

At(pc) == op # None /\ op.pc = pc
Asked == op.todo[Len(op.done) + 1]
Step(f) == op' = f /\ UNCHANGED report
Answer(told, error) == op' = None /\ report' = [told |-> told, error |-> error, done |-> op.done, multi |-> op.multi, inputs |-> op.inputs]

\* consumeControlInspection takes the capability away in every case.
Consumed == retained' = None
Current == retained.doc = page.doc
Selection(todo, multi, desired) ==
    [pc |-> IF world.kind = "native" THEN "native" ELSE IF world.kind = "search" THEN "search" ELSE "baseline",
     todo |-> todo, multi |-> multi, desired |-> desired, insp |-> retained, done |-> <<>>, before |-> None,
     rebound |-> FALSE, clicked |-> FALSE, closed |-> FALSE, sawClosed |-> 0, recovered |-> FALSE, quiet |-> TRUE,
     told |-> "no", query |-> "no", inputs |-> 0, chip |-> FALSE]

\* selectOption: an unknown state is not toggled off.
SelectOption ==
    /\ op = None /\ retained # None /\ Consumed
    /\ \E o \in Options, desired \in BOOLEAN :
        IF Current /\ (desired \/ (world.kind # "search" /\ (world.kind = "native" \/ retained.seen[o] # "null" \/ o \in retained.chips)))
        THEN op' = Selection(<<o>>, FALSE, desired) /\ report' = None
        ELSE /\ report' = [told |-> "no", error |-> "refused", done |-> <<>>, multi |-> FALSE, inputs |-> 0]
             /\ UNCHANGED op
    /\ UNCHANGED <<world, page, calls, changes>>

\* selectOptions: distinct options of a control that takes several.
SelectOptions ==
    /\ op = None /\ retained # None /\ Consumed /\ world.multiple /\ Current
    /\ \E todo \in SetToSeqs(Options) : op' = Selection(todo, TRUE, TRUE)
    /\ report' = None
    /\ UNCHANGED <<world, page, calls, changes>>

\* multiSelectionFailure keeps the failing step's own evidence.
Fail(told, error) == Answer(told, error)

\* An option is through: the next one, with an inspection of its own, or the answer.
Through(f) ==
    IF Len(f.done) = Len(f.todo) THEN op' = None /\ report' = [told |-> "yes", error |-> "none", done |-> f.done, multi |-> f.multi, inputs |-> f.inputs]
    ELSE Step([f EXCEPT !.pc = IF world.kind = "native" THEN "native" ELSE "again"])
Confirm == Through([op EXCEPT !.done = Append(@, Asked)])

InspectAgain ==
    /\ At("again")
    /\ \/ /\ page.node # 0 /\ page' = Opened
          /\ Step([op EXCEPT !.pc = "baseline", !.insp = Observed(page'), !.clicked = FALSE, !.closed = FALSE, !.recovered = FALSE,
                             !.rebound = FALSE, !.inputs = @ + (IF page.popup = 0 THEN 1 ELSE 0)])
       \/ /\ Fail("no", "inspection") /\ UNCHANGED page
    /\ UNCHANGED <<world, retained, calls, changes>>

-----------------------------------------------------------------------------
(* A native select: read, write the whole set, read again.                  *)

\* A select that was taken out of the page still answers, with what it showed.
Reads == IF page.node = op.insp.node THEN {page.selected} ELSE SUBSET Options
NativeRead ==
    /\ At("native")
    /\ \E selected \in Reads :
        IF page.doc # op.insp.doc THEN Fail("untold", "plain")
        ELSE IF (Asked \in selected) = op.desired THEN Confirm
        ELSE IF ~op.desired /\ ~world.multiple THEN Fail("no", "control_not_multiselect")
        ELSE Step([op EXCEPT !.pc = "write", !.before = selected, !.quiet = TRUE])
    /\ UNCHANGED <<world, page, retained, calls, changes>>

Indexes == IF ~op.desired THEN op.before \ {Asked} ELSE IF world.multiple THEN op.before \cup {Asked} ELSE {Asked}
NativeWrite ==
    /\ At("write")
    /\ \/ /\ page.node = op.insp.node /\ page' = [page EXCEPT !.selected = Indexes]
          /\ \E told \in {"yes", "unknown"} : Step([op EXCEPT !.pc = "after", !.told = told, !.inputs = @ + 1])
       \/ Step([op EXCEPT !.pc = "after", !.told = "no"]) /\ UNCHANGED page
    /\ UNCHANGED <<world, retained, calls, changes>>

\* Neither read nor evidence survives a navigation.
NativeAfter ==
    /\ At("after")
    /\ \E selected \in Reads :
        IF page.doc # op.insp.doc THEN Fail("untold", "plain")
        ELSE IF (Asked \in selected) = op.desired THEN Confirm
        ELSE Fail(op.told, "native_option_selection_not_observed")
    /\ UNCHANGED <<world, page, retained, calls, changes>>

-----------------------------------------------------------------------------
(* A popup: the capability is bound again, the decision taken, one click.   *)

\* observeCustomControlSelectionBaseline: the control by role and name when
\* its node is gone, its popup when it is not the one on screen.
Baseline ==
    /\ At("baseline")
    /\ IF page.node = 0 \/ page.popup = 0 THEN Fail("no", "control_popup_changed")
       ELSE Step([op EXCEPT !.pc = "plan", !.insp.node = page.node, !.insp.popup = page.popup, !.chip = Chip(Asked),
                            !.rebound = page.node # op.insp.node \/ page.popup # op.insp.popup])
    /\ UNCHANGED <<world, page, retained, calls, changes>>

\* The option's own state is the one of the inspection, its representation
\* (when it had one) that of the baseline.
SelectedState == IF Asked \in op.insp.chips THEN "null" ELSE op.insp.seen[Asked]
AlreadySatisfied ==
    \/ SelectedState = (IF op.desired THEN "yes" ELSE "no")
    \/ Asked \in op.insp.chips /\ op.chip = op.desired
Plan ==
    /\ At("plan")
    /\ IF page.popup # op.insp.popup \/ page.node # op.insp.node \/ page.doc # op.insp.doc
       THEN Fail("no", "control_popup_changed")
       ELSE IF ~op.desired /\ ~world.multiple /\ op.insp.seen[Asked] = "yes" THEN Fail("no", "control_not_multiselect")
       ELSE IF AlreadySatisfied THEN Confirm
       ELSE Step([op EXCEPT !.pc = "click"])
    /\ UNCHANGED <<world, page, retained, calls, changes>>

\* What a click on an option does to the selection.
Clicked(o) == IF ~world.multiple THEN {o} ELSE IF o \in page.selected THEN page.selected \ {o} ELSE page.selected \cup {o}
Click ==
    /\ At("click")
    /\ \/ /\ page.popup = op.insp.popup
          /\ \E told \in {"yes", "unknown"}, effect, closes, replaces \in BOOLEAN :
              /\ page' = [page EXCEPT !.selected = IF effect THEN Clicked(Asked) ELSE @, !.popup = IF closes THEN 0 ELSE @,
                                      !.node = IF replaces THEN page.next ELSE @, !.next = IF replaces THEN @ + 1 ELSE @]
              /\ Step([op EXCEPT !.pc = "reconcile", !.clicked = TRUE, !.told = told, !.inputs = @ + 1])
       \/ Fail("no", "before_dispatch") /\ UNCHANGED page
    /\ UNCHANGED <<world, retained, calls, changes>>

\* reconcileCustomControlSelection, one round of reads; rendering may time out,
\* the flag then keeps what it was. The field around a replaced control can still
\* show what is selected.
Required == op.multi \/ world.multiple
Connected == page.node = op.insp.node
Closed(read) == IF read THEN page.popup # op.insp.popup ELSE op.closed
AnyClosure(read) == op.desired /\ Closed(read) /\ Connected
ClosureCounts(read) == op.desired /\ ~Required /\ Closed(read) /\ Connected
Satisfied(read, scope) ==
    \/ Shown(Asked) = (IF op.desired THEN "yes" ELSE "no") /\ page.popup = op.insp.popup
    \/ scope /\ op.chip # op.desired /\ world.shows = "chip" /\ Chip(Asked) = op.desired
    \/ ClosureCounts(read)
Recovered(read) == [op EXCEPT !.recovered = TRUE, !.insp.node = page.node, !.insp.popup = page.popup, !.closed = FALSE]
Reconcile ==
    /\ At("reconcile")
    /\ \E read \in BOOLEAN, scope \in {Connected, Connected \/ page.doc = op.insp.doc} :
        LET saw == IF read /\ Closed(TRUE) THEN op.insp.popup ELSE op.sawClosed IN
        \/ Satisfied(read, scope) /\ Through([op EXCEPT !.done = Append(@, Asked), !.sawClosed = saw, !.closed = Closed(read)])
        \/ /\ ~Satisfied(read, scope)
           /\ \/ /\ ~Connected /\ ~op.recovered /\ page.node # 0 /\ page.popup # 0
                 /\ Step([Recovered(read) EXCEPT !.sawClosed = saw])
              \/ op.closed # Closed(read) /\ Step([op EXCEPT !.closed = Closed(read), !.sawClosed = saw])
              \/ Fail(op.told, "selection_not_observed")
    /\ UNCHANGED <<world, page, retained, calls, changes>>

-----------------------------------------------------------------------------
(* An editable control: the query, the proven active option, Enter.         *)

SelectedExact(o) == world.shows = "aria" /\ o \in page.selected
ValueAndClosed(o) == page.value = o /\ page.popup = 0
SearchProof(o) == SelectedExact(o) \/ ValueAndClosed(o)

SearchInitial ==
    /\ At("search") /\ page.node # 0
    /\ IF SearchProof(Asked) THEN Confirm ELSE Step([op EXCEPT !.pc = "query"])
    /\ UNCHANGED <<world, page, retained, calls, changes>>

SearchQuery ==
    /\ At("query") \/ (At("search") /\ page.node = 0)
    /\ \/ Fail("no", "fill") /\ UNCHANGED page
       \/ /\ page.node # 0
          /\ \E told \in {"yes", "unknown"}, active \in Options \cup {None} :
              /\ page' = [Opened EXCEPT !.value = Asked, !.active = active]
              /\ Step([op EXCEPT !.pc = "prove", !.query = told, !.inputs = @ + 1])
    /\ UNCHANGED <<world, retained, calls, changes>>

ProveActive ==
    /\ At("prove")
    /\ IF page.active = Asked /\ page.node # 0 THEN Step([op EXCEPT !.pc = "enter", !.quiet = TRUE]) ELSE Fail(op.query, "active_option_unproven")
    /\ UNCHANGED <<world, page, retained, calls, changes>>

\* Enter commits whatever is active when it arrives; with nothing active it
\* may just close the popup over the typed text.
SearchCommit ==
    /\ At("enter")
    /\ \/ Step([op EXCEPT !.pc = "committed", !.told = "no"]) /\ UNCHANGED page
       \/ /\ page.node # 0
          /\ \E told \in {"yes", "unknown"} : Step([op EXCEPT !.pc = "committed", !.told = told, !.inputs = @ + 1])
          /\ page' \in IF page.active = None THEN {page, [page EXCEPT !.popup = 0]}
                     ELSE {[page EXCEPT !.selected = {page.active}, !.value = page.active, !.popup = 0, !.active = None]}
    /\ UNCHANGED <<world, retained, calls, changes>>

AggregateDispatch == IF "unknown" \in {op.query, op.told} THEN "unknown" ELSE IF "yes" \in {op.query, op.told} THEN "yes" ELSE "no"
SearchReconcile ==
    /\ At("committed")
    /\ IF page.node # 0 /\ SearchProof(Asked) THEN Confirm ELSE Fail(AggregateDispatch, "effect_unconfirmed")
    /\ UNCHANGED <<world, page, retained, calls, changes>>

-----------------------------------------------------------------------------
PageChanges ==
    /\ changes < MaxChanges /\ changes' = changes + 1
    /\ \/ page' = [page EXCEPT !.node = page.next, !.next = @ + 1]
       \/ page' = [page EXCEPT !.node = 0]
       \/ page.popup # 0 /\ page' = [page EXCEPT !.popup = 0]
       \/ page.popup = 0 /\ world.kind = "custom" /\ page' = Opened
       \/ \E o \in Options : page' = [page EXCEPT !.selected = Clicked(o)]
       \/ \E o \in Options : page.popup # 0 /\ page' = [page EXCEPT !.active = o]
       \/ page' = [page EXCEPT !.doc = @ + 1, !.node = page.next, !.next = @ + 1, !.popup = 0, !.selected = {}, !.value = None, !.active = None]
    /\ retained' = IF page'.doc # page.doc THEN None ELSE retained
    /\ op' = IF op = None THEN None ELSE [op EXCEPT !.quiet = FALSE]
    /\ UNCHANGED <<world, report, calls>>

Next ==
    \/ Inspect \/ SelectOption \/ SelectOptions \/ InspectAgain \/ NativeRead \/ NativeWrite \/ NativeAfter
    \/ Baseline \/ Plan \/ Click \/ Reconcile
    \/ SearchInitial \/ SearchQuery \/ ProveActive \/ SearchCommit \/ SearchReconcile \/ PageChanges
Spec == Init /\ [][Next]_vars

-----------------------------------------------------------------------------
\* A selection owns the inspection it consumed, and confirms its options in order.
TypeOK ==
    /\ page.selected \subseteq Options /\ (~world.multiple /\ world.kind # "native" => Cardinality(page.selected) <= 1)
    /\ op # None => Len(op.done) < Len(op.todo) /\ retained = None
    /\ report # None => (report.error = "none" => report.done # <<>>)

\* Writing a native select changes the one option it was asked to change, when
\* nobody else touched the select since it was read (selectNativeControlOption).
NativeKeepsOthers ==
    At("write") /\ op.quiet /\ world.multiple /\ op'.inputs # op.inputs =>
        {o \in Options : (o \in page.selected) # (o \in page'.selected)} = {Asked}

\* A selection proven by a closed popup saw the popup it is bound to now not
\* rendered, and never that of a popup it has replaced since (reconcileCustomControlSelection).
ClosedIsObserved == At("reconcile") /\ op.closed => op.sawClosed = op.insp.popup

\* Where several options can be selected, an option that was clicked is
\* confirmed only while it is selected: a popup that closes proves nothing there.
ConfirmedIsSelected ==
    At("reconcile") /\ op.clicked /\ Required /\ (op' = None => report'.error = "none") /\ (op' # None => op'.done # op.done) =>
        (Asked \in page.selected) = op.desired

\* When the page was left alone since the exact option was active, a search
\* that is confirmed selected that option: the text alone over a closed popup
\* is never taken for it (selectSearchableOptionIfEligible).
CommitsWhatWasAsked ==
    At("committed") /\ op.quiet /\ op.told # "no" /\ op' = None /\ report'.error = "none" => Asked \in page.selected

\* docs/agent-setup.md:99, "an already-selected option is never toggled": not
\* even one whose state changed after its inspection, when the page is left
\* alone from the moment the selection is asked for.
NeverToggledOff ==
    At("click") /\ op' # None /\ op'.inputs # op.inputs /\ op.quiet /\ op.desired /\ Asked \in page.selected => Asked \in page'.selected

\* README.md:7, "every attached capability must report a bounded truthful
\* outcome": a failure of several selections that says "not dispatched" made no input.
FailureIsTold == report # None /\ report.told = "no" => report.inputs = 0
=============================================================================
