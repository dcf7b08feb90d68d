------------------------------ MODULE FormPlan ------------------------------
(* Staged form plans (controller/forms): a summary retains the exact fields *)
(* of one document under a form id, a plan consumes that id once and then   *)
(* writes its fields one by one, each resolved again against a page that    *)
(* re-renders, duplicates, moves, removes or leaves in between, or makes    *)
(* another field of an element that stays.                                  *)
EXTENDS Naturals, Sequences, FiniteSets, SequencesExt
CONSTANTS None,
          Kinds,       \* field identity -> observed kind
          Doms,        \* what the first document may hold
          MaxChanges, MaxForms, MaxFields,
          MaxWorkflows \* sessions kept before no further plan is begun
VARIABLES page,      \* document version, elements in order, next node; and (read by no
                     \* action) the nodes that it has made other fields of in place
          summary,   \* the capture under way: None or document, scope, position, fields,
                     \* and the element whose owner form is still to be read
          retained,  \* None or the inspection of the frame: id, document, scope, fields
          plan,      \* None or the plan being applied
          workflows, \* sessions the workflow manager holds
          touched,   \* node -> the steps of the last plan that may have written it
          report,    \* None or the answer of the last plan
          made, changes
vars == <<page, summary, retained, plan, workflows, touched, report, made, changes>>

StepKinds == {"fill", "select", "set_checked"}
Positions(s) == 1 .. Len(s)
Node(i) == IF i \in Positions(page.dom) THEN page.dom[i].node ELSE None
Live(n) == {e \in Range(page.dom) : e.node = n}

Init ==
    /\ \E Dom \in Doms : page = [doc |-> 1, scope |-> "document", next |-> Len(Dom) + 1, reused |-> {},
               dom |-> [i \in Positions(Dom) |-> [node |-> i, id |-> Dom[i].id, form |-> Dom[i].form]]]
    /\ summary = None /\ retained = None /\ plan = None /\ report = None
    /\ workflows = 0 /\ touched = [n \in {} |-> {}] /\ made = 0 /\ changes = 0

-----------------------------------------------------------------------------
(* formSummary: one field after the other, then the document must still be  *)
(* the one the capture began with.                                          *)

BeginSummary ==
    /\ summary = None /\ plan = None /\ made < MaxForms
    /\ summary' = [doc |-> page.doc, scope |-> page.scope, at |-> 1, total |-> Len(page.dom),
                   held |-> None, fields |-> <<>>]
    /\ UNCHANGED <<page, retained, plan, workflows, touched, report, made, changes>>

\* What the element at a position looks like. One that is gone, or is not read in
\* time, is left out.
CaptureField ==
    /\ summary # None /\ summary.held = None
    /\ summary.at <= summary.total /\ summary.at <= MaxFields
    /\ \/ /\ summary.at \in Positions(page.dom)
          /\ summary' = [summary EXCEPT !.held = page.dom[summary.at]]
       \/ summary' = [summary EXCEPT !.at = @ + 1]
    /\ UNCHANGED <<page, retained, plan, workflows, touched, report, made, changes>>

\* Its owner form is a second reading, of an element that may have left the
\* page, alone or with its form. A field keeps its position, its node and both.
OwnersRead(e) == IF Live(e.node) = {} THEN {0, e.form} ELSE {now.form : now \in Live(e.node)}
CaptureOwner ==
    /\ summary # None /\ summary.held # None
    /\ \E form \in OwnersRead(summary.held) :
        summary' = [summary EXCEPT !.at = @ + 1, !.held = None,
               !.fields = Append(@, [at |-> summary.at, was |-> [summary.held EXCEPT !.form = form]])]
    /\ UNCHANGED <<page, retained, plan, workflows, touched, report, made, changes>>

\* retainFormInspection discards the earlier inspections of the frame.
Retain ==
    /\ summary # None /\ summary.held = None /\ (summary.at > summary.total \/ summary.at > MaxFields)
    /\ IF page.doc = summary.doc
       THEN /\ retained' = [id |-> made + 1, doc |-> summary.doc, scope |-> summary.scope, fields |-> summary.fields]
            /\ made' = made + 1
       ELSE UNCHANGED <<retained, made>>
    /\ summary' = None
    /\ UNCHANGED <<page, plan, workflows, touched, report, changes>>

\* Any other action on the frame discards its observations.
Discard ==
    /\ retained # None /\ plan = None /\ retained' = None
    /\ UNCHANGED <<page, summary, plan, workflows, touched, report, made, changes>>

-----------------------------------------------------------------------------
(* applyFormPlan: begin, consume, preflight. *)

EditorKinds == {"text", "date", "private", "textarea", "contenteditable"}
Fits(kind, id) == CASE kind = "fill" -> Kinds[id] \in EditorKinds
                    [] kind = "select" -> Kinds[id] = "native_select"
                    [] OTHER -> Kinds[id] \in {"checkbox", "radio"}

Answer(told, done, error) == [told |-> told, done |-> done, error |-> error]
Finish(answer) == plan' = None /\ report' = answer

\* consumeFormInspection: an unknown id is refused, a known one is taken away
\* even when its document is gone.
Current(form) == retained # None /\ retained.id = form /\ retained.doc = page.doc
AnyDocument(form) == retained # None /\ retained.id = form
Taken(form) == IF AnyDocument(form) THEN None ELSE retained

\* The field a step names, in the fields of the inspection.
Asked(steps) == \A s \in Positions(steps) : steps[s].field \in Positions(retained.fields)
Preflight(steps) ==
    /\ Asked(steps)
    /\ \A s \in Positions(steps) : Fits(steps[s].kind, retained.fields[steps[s].field].was.id)

Started(steps, session) ==
    [form |-> retained, steps |-> steps, session |-> session, at |-> 1, pc |-> "resolve", field |-> None,
     rebound |-> FALSE, matches |-> <<>>, seen |-> 0, total |-> 0, held |-> None, told |-> "no", done |-> <<>>]

\* The session is registered before the inspection is consumed; only what
\* follows is under the handler that takes it out again.
BeginPlan ==
    /\ plan = None /\ summary = None /\ workflows < MaxWorkflows
    /\ \E form \in 1 .. made, a, b \in 1 .. MaxFields, k, l \in StepKinds :
        LET steps == <<[field |-> a, kind |-> k], [field |-> b, kind |-> l]>> IN
        /\ a # b
        /\ retained' = Taken(form)
        /\ IF ~Current(form) THEN workflows' = workflows + 1 /\ Finish(Answer("no", <<>>, "stale"))
           ELSE IF ~Preflight(steps) THEN UNCHANGED workflows /\ Finish(Answer("no", <<>>, "preflight"))
           ELSE /\ plan' = Started(steps, TRUE)
                /\ workflows' = workflows + 1 /\ UNCHANGED report
    /\ touched' = [n \in {} |-> {}]
    /\ UNCHANGED <<page, summary, made, changes>>

\* setChecked with a form's field: the retained node, never rebound, no session.
SetChecked ==
    /\ plan = None /\ summary = None
    /\ \E form \in 1 .. made, a \in 1 .. MaxFields :
        LET steps == <<[field |-> a, kind |-> "set_checked"]>> IN
        /\ retained' = Taken(form)
        /\ IF Current(form) /\ Preflight(steps)
           THEN /\ plan' = [Started(steps, FALSE) EXCEPT !.pc = "act", !.field = retained.fields[a].was.node]
                /\ UNCHANGED report
           ELSE Finish(Answer("no", <<>>, "not_checkable"))
    /\ touched' = [n \in {} |-> {}]
    /\ UNCHANGED <<page, summary, workflows, made, changes>>

-----------------------------------------------------------------------------
(* One step: resolve its field, dispatch, observe, complete. *)

At(pc) == plan # None /\ plan.pc = pc
Original == plan.form.fields[plan.steps[plan.at].field]

\* aggregateDispatchWith: the completed steps and the one that failed.
Aggregate(done, current) ==
    LET all == Range(done) \cup {current}
    IN IF current = "untold" THEN current ELSE IF "unknown" \in all THEN "unknown" ELSE IF "yes" \in all THEN "yes" ELSE "no"

\* A failure that does not carry its dispatch counts as not dispatched.
Fail(told, error) ==
    /\ Finish(Answer(Aggregate(plan.done, told), plan.done, error))
    /\ workflows' = workflows - (IF plan.session THEN 1 ELSE 0)

\* resolveCurrentFormField: the element now at the field's place is its
\* retained node, or the field has to be found by what it looked like.
Resolve ==
    /\ At("resolve")
    /\ \/ /\ Node(Original.at) = Original.was.node
          /\ plan' = [plan EXCEPT !.pc = "act", !.field = Original.was.node, !.rebound = FALSE]
          /\ UNCHANGED <<report, workflows>>
       \/ /\ Node(Original.at) # Original.was.node
          /\ IF page.scope = plan.form.scope
             THEN /\ plan' = [plan EXCEPT !.pc = "candidates", !.matches = <<>>, !.seen = 0, !.held = None,
                                          !.total = Len(page.dom)]
                  /\ UNCHANGED <<report, workflows>>
             ELSE Fail("no", "rebind_scope_changed")
    /\ UNCHANGED <<page, summary, retained, touched, made, changes>>

\* The candidates are those that were there when they were counted, each found
\* by its place. First its owner form: the retained one, or none for none. One
\* that is not read in time is passed over.
AnyOwner(e) == TRUE
SameOwner(e) == e.form = Original.was.form
Candidate ==
    /\ At("candidates") /\ plan.held = None /\ plan.seen < plan.total
    /\ LET i == plan.seen + 1 IN
       \/ /\ i \in Positions(page.dom) /\ SameOwner(page.dom[i])
          /\ plan' = [plan EXCEPT !.held = page.dom[i]]
       \/ plan' = [plan EXCEPT !.seen = i]
    /\ UNCHANGED <<page, summary, retained, workflows, touched, report, made, changes>>

\* Then, in a second reading, what it looks like: sameStableIdentity. One that
\* has left the page is no candidate. A match is the element as it was read.
SameIdentity(e) == e.id = Original.was.id
Described(e) == [plan.held EXCEPT !.id = e.id]
Describe ==
    /\ At("candidates") /\ plan.held # None
    /\ \/ \E e \in Live(plan.held.node) :
            /\ SameIdentity(e)
            /\ plan' = [plan EXCEPT !.seen = @ + 1, !.held = None, !.matches = Append(@, Described(e))]
       \/ plan' = [plan EXCEPT !.seen = @ + 1, !.held = None]
    /\ UNCHANGED <<page, summary, retained, workflows, touched, report, made, changes>>

Rebind ==
    /\ At("candidates") /\ plan.held = None /\ plan.seen >= plan.total
    /\ IF page.doc = plan.form.doc /\ Len(plan.matches) = 1
       THEN /\ plan' = [plan EXCEPT !.pc = "act", !.field = plan.matches[1].node, !.rebound = TRUE]
            /\ UNCHANGED <<report, workflows>>
       ELSE Fail("no", IF Len(plan.matches) > 1 THEN "rebind_ambiguous" ELSE "rebind_missing")
    /\ UNCHANGED <<page, summary, retained, touched, made, changes>>

Outcome(written, told, ok) == [written |-> written, told |-> told, ok |-> ok]
Unwritten == {Outcome(FALSE, "no", FALSE), Outcome(FALSE, "no", TRUE)}

\* fillObservedFormField: a value that is not confirmed, and evidence that is
\* lost, fail with what is known of the input.
FillField == Unwritten \cup {Outcome(TRUE, "yes", TRUE), Outcome(TRUE, "yes", FALSE),
                             Outcome(TRUE, "unknown", FALSE)}

\* selectObservedFormField: an input without event or effect stays unknown.
SelectField == Unwritten \cup {Outcome(TRUE, "yes", TRUE), Outcome(TRUE, "yes", FALSE),
                               Outcome(TRUE, "unknown", FALSE)}

\* setObservedFormFieldChecked: a state that is already there needs no click;
\* a partial click may be reconciled with the state it asked for.
CheckField == Unwritten \cup {Outcome(TRUE, told, ok) : told \in {"yes", "unknown"}, ok \in BOOLEAN}

OutcomesOf(kind) == CASE kind = "fill" -> FillField [] kind = "select" -> SelectField [] OTHER -> CheckField

\* Only an element still in the document can be written. A fill asks once more
\* whether it is an editor (inspectFillTarget); its name and its form nobody asks.
Takes(kind, n) == \E e \in Live(n) : kind = "fill" => Fits(kind, e.id)
Act ==
    /\ At("act")
    /\ \E o \in OutcomesOf(plan.steps[plan.at].kind) :
        /\ (o.written \/ o.ok) => Takes(plan.steps[plan.at].kind, plan.field)
        /\ touched' = IF ~o.written THEN touched
                      ELSE [n \in DOMAIN touched \cup {plan.field} |->
                              (IF n \in DOMAIN touched THEN touched[n] ELSE {})
                                  \cup (IF n = plan.field THEN {plan.at} ELSE {})]
        /\ IF o.ok THEN plan' = [plan EXCEPT !.pc = "after", !.told = o.told] /\ UNCHANGED <<workflows, report>>
           ELSE Fail(o.told, "input")
    /\ UNCHANGED <<page, summary, retained, made, changes>>

\* The field is observed once more: a node of another document cannot be.
After ==
    /\ At("after")
    /\ IF page.doc # plan.form.doc
       THEN Fail(IF plan.session THEN "no" ELSE "untold", "plain")
       ELSE /\ plan' = [plan EXCEPT !.pc = "completed", !.done = Append(@, plan.told)]
            /\ UNCHANGED <<workflows, report>>
    /\ UNCHANGED <<page, summary, retained, touched, made, changes>>

NextStep ==
    /\ At("completed")
    /\ IF page.doc # plan.form.doc THEN Fail("no", "document_changed")
       ELSE IF plan.at = Len(plan.steps)
       THEN Finish(Answer(Aggregate(plan.done, "no"), plan.done, "none"))
            /\ workflows' = workflows - (IF plan.session THEN 1 ELSE 0)
       ELSE plan' = [plan EXCEPT !.pc = "resolve", !.at = @ + 1] /\ UNCHANGED <<workflows, report>>
    /\ UNCHANGED <<page, summary, retained, touched, made, changes>>

-----------------------------------------------------------------------------
(* The page renders again. *)

Fresh(e) == [e EXCEPT !.node = page.next]
ReplaceField(i) == page' = [page EXCEPT !.dom[i] = Fresh(page.dom[i]), !.next = @ + 1]
RemoveField(i) == page' = [page EXCEPT !.dom = RemoveAt(@, i)]
MoveField(i) == page' = [page EXCEPT !.dom = Append(RemoveAt(@, i), page.dom[i])]
AddField(i) == page' = [page EXCEPT !.dom = Append(@, Fresh(page.dom[i])), !.next = @ + 1]
OtherForm(e) == IF e.form = 0 THEN e ELSE [e EXCEPT !.form = @ + 2]
Rendered == [i \in Positions(page.dom) |-> [OtherForm(page.dom[i]) EXCEPT !.node = page.next + i - 1]]
RenderAll(doc) ==
    page' = [page EXCEPT !.dom = Rendered, !.next = @ + Len(page.dom), !.doc = doc]

\* An element that stays is given another name, another input type, or a place
\* in another form or in none. Its tag is its own for good.
Inputs == {"text", "date", "private", "checkbox", "radio"}
SameTag(a, b) == Kinds[a] = Kinds[b] \/ {Kinds[a], Kinds[b]} \subseteq Inputs
Owners == {0} \cup {e.form : e \in Range(page.dom)}
ReuseField(i) ==
    \E id \in DOMAIN Kinds, form \in Owners :
        /\ SameTag(page.dom[i].id, id) /\ (id # page.dom[i].id \/ form # page.dom[i].form)
        /\ page' = [page EXCEPT !.dom[i].id = id, !.dom[i].form = form, !.reused = @ \cup {page.dom[i].node}]

PageChanges ==
    /\ changes < MaxChanges /\ changes' = changes + 1
    /\ \/ \E i \in Positions(page.dom) :
            ReplaceField(i) \/ RemoveField(i) \/ AddField(i) \/ MoveField(i) \/ ReuseField(i)
       \/ RenderAll(page.doc) \/ RenderAll(page.doc + 1)
       \/ page' = [page EXCEPT !.scope = IF @ = "modal" THEN "document" ELSE "modal"]
    /\ UNCHANGED <<summary, retained, plan, workflows, touched, report, made>>

Next ==
    \/ BeginSummary \/ CaptureField \/ CaptureOwner \/ Retain \/ Discard
    \/ BeginPlan \/ SetChecked \/ Resolve \/ Candidate \/ Describe \/ Rebind \/ Act \/ After \/ NextStep
    \/ PageChanges
Spec == Init /\ [][Next]_vars

-----------------------------------------------------------------------------
\* A plan runs with the session the manager holds for it, completes its steps
\* in order, and consumed the form it works on.
TypeOK ==
    /\ workflows \in Nat /\ made \in 0 .. MaxForms /\ changes \in 0 .. MaxChanges
    /\ \A i, j \in Positions(page.dom) : page.dom[i].node = page.dom[j].node => i = j
    /\ plan # None =>
        /\ (plan.session => workflows > 0) /\ (retained # None => retained.id # plan.form.id)
        /\ Len(plan.done) = plan.at - (IF plan.pc = "completed" THEN 0 ELSE 1)

\* Every step writes the very element that the summary captured as its field,
\* or, after a rebind, the only element found with the captured name, kind and
\* owner form, each as it was when it was read (resolveCurrentFormField). Unless
\* the page has reused that element in place it still is that field: the code does
\* not ask again, it is only sure that a fill goes into an editor (inspectFillTarget).
WrittenWhereAsked ==
    At("act") /\ touched' # touched =>
        /\ IF plan.rebound
           THEN plan.matches = <<[node |-> plan.field, id |-> Original.was.id, form |-> Original.was.form]>>
           ELSE plan.field = Original.was.node
        /\ \E e \in Live(plan.field) :
            /\ e.node \notin page.reused => e.id = Original.was.id /\ e.form = Original.was.form
            /\ plan.steps[plan.at].kind = "fill" => Kinds[e.id] \in EditorKinds

\* No step of a plan writes into another document than the one summarised,
\* and a plan over a form id that is stale writes nothing (consumeFormInspection).
OneDocument == At("act") /\ touched' # touched => page.doc = plan.form.doc

\* A plan that answers "not dispatched" has written nothing (aggregateDispatchWith).
\* README.md:7, "every attached capability must report a bounded truthful outcome".
FailureIsTold == report # None /\ report.told = "no" => \A n \in DOMAIN touched : touched[n] = {}

\* docs/dogfooding-2026-08-27-form-fast-paths.md:30, a field is rebound only where the
\* same document and form "contain one unique exact" match.
RebindIsUnique ==
    At("candidates") /\ plan' # None /\ plan'.pc = "act" =>
        Cardinality({e \in Range(page.dom) : e.id = Original.was.id /\ e.form = Original.was.form}) = 1

\* README.md:110, a plan may "uniquely rebind only untouched fields".
RebindsUntouched ==
    At("act") /\ plan.rebound /\ touched' # touched =>
        plan.field \notin DOMAIN touched
=============================================================================
