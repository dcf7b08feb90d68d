------------------------- MODULE MCPageTargetsProofs -------------------------
(* For any page, any controls, popups and options, and any number of          *)
(* commands: what is retained with a snapshot is of one document and was in   *)
(* its text; a click reaches its target at most once; an inspection makes the *)
(* inputs it was asked for; a selection is confirmed by what it selected.     *)
(* Each part has its own inductive invariant, and what the page may change    *)
(* between two steps is in none of them but where nothing else could have.    *)
EXTENDS MCPageTargets, FiniteSetTheorems, SequenceTheorems, TLAPS

-----------------------------------------------------------------------------
\* Snapshots (SnapshotCapture). To prove that what is retained is of one document
\* something needs to be known of the parts of an unfinished snapshot too: each is
\* at least as young as the document the snapshot began with and at most as young as
\* the one known now, so that the comparison at the end leaves one document for all.
Element == [element : Editors \cup Roots, version : Nat]
Binding == [ref : Element, handle : Element]
Steps == {"text", "scope", "count", "editor", "bind", "view", "retain"}
Op == [at : Steps, version : Nat, root : Element \cup {None}, text : SUBSET Element, scope : Element \cup {None},
       total : {0} \cup {Len(l) : l \in Lists}, index : Nat, handle : Element \cup {None}, editors : SUBSET Binding]
Kept == [version : Nat, root : Element, text : SUBSET Element, scope : Element, editors : SUBSET Binding]

\* The elements an unfinished snapshot has, once it has them.
Has(o) ==
    /\ IF o.at = "text" THEN o.editors = {} ELSE o.root \in Element
    /\ o.at \notin {"text", "scope"} => o.scope \in Element
    /\ o.at = "bind" => o.handle \in Element
Within(o, x, latest) == o.version <= x.version /\ x.version <= latest
Between(o, latest) ==
    /\ o.version <= latest
    /\ o.at # "text" => Within(o, o.root, latest)
    /\ o.at \notin {"text", "scope"} => Within(o, o.scope, latest)
    /\ o.at = "bind" => Within(o, o.handle, latest)
    /\ \A x \in o.text : Within(o, x, latest)
    /\ \A b \in o.editors : Within(o, b.ref, latest) /\ Within(o, b.handle, latest)
BoundOnce(o) == \A a, b \in o.editors : a.ref = b.ref => a = b
Covered(o) == \A b \in o.editors : b.ref \in o.text

OpInv == op # None => op \in Op /\ Has(op) /\ Between(op, known) /\ BoundOnce(op) /\ Covered(op)
KeptInv == kept # None => kept \in Kept /\ OneDocument /\ OnlyWhatIsShown
PageInv ==
    /\ version \in Nat /\ known \in Nat /\ known <= version /\ version <= MaxVersion
    /\ root \in Roots /\ list \in Lists
Inv == PageInv /\ OpInv /\ KeptInv

\* The editors shown are editors.
LEMMA ShownAreEditors == ASSUME list \in Lists PROVE \A i \in DOMAIN list : list[i] \in Editors
  BY DEF Lists

\* An element of the document shown is an element, of that document.
LEMMA InIsElement == ASSUME version \in Nat, NEW e \in Editors \cup Roots PROVE In(e) \in Element /\ In(e).version = version
  BY DEF In, Element

\* Nothing is captured initially.
LEMMA InitInv == Init => Inv
  BY SnapshotAssumption DEF Init, Inv, PageInv, OpInv, KeptInv, OneDocument, OnlyWhatIsShown

\* The steps that leave the snapshot under way alone.
LEMMA PageStep == ASSUME Inv, Renders \/ Navigates PROVE Inv'
<1>1. PageInv'
  BY SnapshotAssumption DEF Inv, PageInv, Renders, Navigates
<1>2. OpInv'
  BY DEF Inv, PageInv, OpInv, Renders, Navigates, Has, Between, Within, BoundOnce, Covered
<1>3. KeptInv'
  BY DEF Inv, PageInv, KeptInv, Renders, Navigates, OneDocument, OnlyWhatIsShown
<1> QED BY <1>1, <1>2, <1>3 DEF Inv

\* A snapshot under way stays between its first document and the new one.
LEMMA NavigatedStep == ASSUME Inv, FrameNavigated PROVE Inv'
<1>1. PageInv'
  BY SnapshotAssumption DEF Inv, PageInv, FrameNavigated
<1>2. OpInv'
  <2> SUFFICES ASSUME op # None PROVE op \in Op /\ Has(op) /\ Between(op, known') /\ BoundOnce(op) /\ Covered(op)
    BY DEF OpInv, FrameNavigated, Has, Between, Within, BoundOnce, Covered
  <2>1. op \in Op /\ Has(op) /\ BoundOnce(op) /\ Covered(op) /\ Between(op, known)
    BY DEF Inv, OpInv
  <2>2. \A x \in Element : Within(op, x, known) => Within(op, x, known')
    BY <2>1 DEF Within, FrameNavigated, Inv, PageInv, Element, Op
  <2>3. Between(op, known')
    BY <2>1, <2>2 DEF Between, Op, Has, Binding, FrameNavigated, Inv, PageInv
  <2> QED BY <2>1, <2>3
<1>3. KeptInv'
  BY DEF KeptInv, FrameNavigated
<1> QED BY <1>1, <1>2, <1>3 DEF Inv

\* A step of the snapshot that leaves the page and what is retained alone keeps
\* the invariant if it keeps that of the snapshot under way.
LEMMA OpStep == ASSUME Inv, UNCHANGED <<version, known, root, list, kept>>, OpInv' PROVE Inv'
  BY DEF Inv, PageInv, KeptInv, OneDocument, OnlyWhatIsShown

\* A snapshot that fails leaves nothing behind.
LEMMA FailStep == ASSUME Inv, Fails, UNCHANGED Page PROVE Inv'
  BY OpStep DEF Fails, Page, OpInv

\* A snapshot begins with nothing of the page.
LEMMA BeginStep == ASSUME Inv, Begin PROVE Inv'
<1>1. OpInv'
  BY DEF Begin, Inv, PageInv, OpInv, Op, Steps, Has, Between, BoundOnce, Covered
<1> QED BY <1>1, OpStep DEF Begin

\* The text, and the root it is of.
LEMMA TextStep == ASSUME Inv, AriaSnapshot PROVE Inv'
<1> PICK shown \in SUBSET Shown :
        op' = [op EXCEPT !.at = "scope", !.root = In(root), !.text = {In(e) : e \in shown}]
  BY DEF AriaSnapshot
<1>0. op # None /\ op.at = "text" /\ known = version /\ op \in Op /\ Between(op, known) /\ UNCHANGED <<version, known, root, list, kept>>
  BY DEF AriaSnapshot, Asks, At, Page, Inv, OpInv
<1>1. In(root) \in Element /\ In(root).version = version
  BY InIsElement DEF Inv, PageInv
<1>2. \A e \in shown : In(e) \in Element /\ In(e).version = version
  BY InIsElement, ShownAreEditors DEF Inv, PageInv, Shown
<1>3. op.editors = {}
  BY <1>0 DEF Inv, OpInv, Has
<1>4. OpInv'
  <2>1. op' \in Op
    <3> DEFINE text == {In(e) : e \in shown}
    <3>1. text \in SUBSET Element /\ op' = [op EXCEPT !.at = "scope", !.root = In(root), !.text = text]
      BY <1>2
    <3>2. "scope" \in Steps /\ In(root) \in Element \cup {None}
      BY <1>1 DEF Steps
    <3> HIDE DEF text
    <3> QED BY <1>0, <3>1, <3>2 DEF Op
  <2>2. Has(op')
    BY <1>0, <1>1 DEF Has, Op
  <2>3. \A x \in Element : x.version = version => Within(op', x, known)
    BY <1>0 DEF Within, Op, Between, Inv, PageInv
  <2>4. Between(op', known)
    BY <1>0, <1>1, <1>2, <1>3, <2>3 DEF Between, Op
  <2>5. BoundOnce(op') /\ Covered(op')
    BY <1>0, <1>3 DEF BoundOnce, Covered, Op
  <2> QED BY <1>0, <2>1, <2>2, <2>4, <2>5 DEF OpInv, Has, BoundOnce, Covered, Between, Within
<1> QED BY <1>0, <1>4, OpStep

\* The root's handle.
LEMMA ScopeStep == ASSUME Inv, ScopeHandle PROVE Inv'
<1>0. op # None /\ op.at = "scope" /\ known = version /\ op \in Op /\ Has(op) /\ Between(op, known) /\ BoundOnce(op) /\ Covered(op)
      /\ op' = [op EXCEPT !.at = "count", !.scope = In(root)] /\ UNCHANGED <<version, known, root, list, kept>>
  BY DEF ScopeHandle, Asks, At, Page, Inv, OpInv
<1>1. In(root) \in Element /\ In(root).version = version
  BY InIsElement DEF Inv, PageInv
<1>2. op' \in Op /\ Has(op') /\ BoundOnce(op') /\ Covered(op')
  BY <1>0, <1>1 DEF Op, Steps, Has, BoundOnce, Covered
<1>3. Between(op', known)
  BY <1>0, <1>1 DEF Between, Within, Op, Inv, PageInv
<1>4. OpInv'
  BY <1>0, <1>2, <1>3 DEF OpInv, Has, BoundOnce, Covered, Between, Within
<1> QED BY <1>0, <1>4, OpStep

\* The number of editors counted.
LEMMA CountStep == ASSUME Inv, CountEditors PROVE Inv'
<1>0. op # None /\ op.at = "count" /\ op \in Op /\ Has(op) /\ Between(op, known) /\ BoundOnce(op) /\ Covered(op)
      /\ op' = [op EXCEPT !.at = "editor", !.total = Len(list)] /\ UNCHANGED <<version, known, root, list, kept>>
  BY DEF CountEditors, Asks, At, Page, Inv, OpInv
<1>2. op' \in Op /\ Has(op') /\ BoundOnce(op') /\ Covered(op')
  BY <1>0 DEF Op, Steps, Has, BoundOnce, Covered, Inv, PageInv
<1>3. Between(op', known)
  BY <1>0 DEF Between, Within, Op
<1>4. OpInv'
  BY <1>0, <1>2, <1>3 DEF OpInv, Has, BoundOnce, Covered, Between, Within
<1> QED BY <1>0, <1>4, OpStep

\* An editor by its place.
LEMMA HandleStep == ASSUME Inv, EditorHandle PROVE Inv'
<1>0. op # None /\ op.at = "editor" /\ known = version /\ op \in Op /\ Has(op) /\ Between(op, known) /\ BoundOnce(op) /\ Covered(op)
      /\ UNCHANGED <<version, known, root, list>>
  BY DEF EditorHandle, Asks, At, Page, Inv, OpInv
<1>1. CASE op' = [op EXCEPT !.at = "view"] /\ UNCHANGED kept
  <2>1. op' \in Op /\ Has(op') /\ BoundOnce(op') /\ Covered(op')
    BY <1>0, <1>1 DEF Op, Steps, Has, BoundOnce, Covered
  <2>2. Between(op', known)
    BY <1>0, <1>1 DEF Between, Within, Op
  <2> QED BY <1>0, <1>1, <2>1, <2>2, OpStep DEF OpInv, Has, BoundOnce, Covered
<1>2. CASE op.index \in DOMAIN list /\ op' = [op EXCEPT !.at = "bind", !.handle = In(list[op.index])] /\ UNCHANGED kept
  <2>0. In(list[op.index]) \in Element /\ In(list[op.index]).version = version
    BY <1>2, ShownAreEditors, InIsElement DEF Inv, PageInv
  <2>1. op' \in Op /\ Has(op') /\ BoundOnce(op') /\ Covered(op')
    BY <1>0, <1>2, <2>0 DEF Op, Steps, Has, BoundOnce, Covered
  <2>2. Between(op', known)
    BY <1>0, <1>2, <2>0 DEF Between, Within, Op, Inv, PageInv
  <2> QED BY <1>0, <1>2, <2>1, <2>2, OpStep DEF OpInv, Has, BoundOnce, Covered
<1>3. CASE Fails
  BY <1>0, <1>3, FailStep DEF EditorHandle, Page
<1> QED BY <1>1, <1>2, <1>3 DEF EditorHandle

\* The reference at the same place, whosever it is by now.
LEMMA BindStep == ASSUME Inv, Bind PROVE Inv'
<1>0. op # None /\ op.at = "bind" /\ known = version /\ op \in Op /\ Has(op) /\ Between(op, known) /\ BoundOnce(op) /\ Covered(op)
      /\ UNCHANGED <<version, known, root, list>>
  BY DEF Bind, Asks, At, Page, Inv, OpInv
<1>1. CASE Fails
  BY <1>1, FailStep DEF Bind
<1>2. CASE op.index \in DOMAIN list
  <2> DEFINE ref == In(list[op.index])
             new == [ref |-> ref, handle |-> op.handle]
  <2>0. /\ UNCHANGED kept /\ ~(ref \in op.text /\ Bound(ref))
        /\ op' = [op EXCEPT !.at = "editor", !.index = @ + 1, !.editors = IF ref \in op.text THEN @ \cup {new} ELSE @]
    BY <1>2 DEF Bind
  <2>1. ref \in Element /\ ref.version = version /\ op.handle \in Element
    BY <1>0, <1>2, ShownAreEditors, InIsElement DEF Inv, PageInv, Has
  <2>2. op' \in Op
    <3> DEFINE more == IF ref \in op.text THEN op.editors \cup {new} ELSE op.editors
    <3>1. new \in Binding
      BY <2>1 DEF Binding
    <3>2. more \in SUBSET Binding /\ op.index + 1 \in Nat
      BY <1>0, <3>1 DEF Op
    <3>3. op' = [op EXCEPT !.at = "editor", !.index = op.index + 1, !.editors = more]
      BY <2>0
    <3> HIDE DEF more
    <3> QED BY <1>0, <3>2, <3>3 DEF Op, Steps
  <2>3. Has(op')
    BY <1>0, <2>0, <2>2 DEF Has, Op, Steps
  <2>4. op'.editors = (IF ref \in op.text THEN op.editors \cup {new} ELSE op.editors) /\ op'.text = op.text
        /\ op'.at = "editor" /\ op'.version = op.version /\ op'.root = op.root /\ op'.scope = op.scope
    BY <1>0, <2>0 DEF Op
  <2>5. BoundOnce(op') /\ Covered(op')
    BY <1>0, <2>0, <2>4 DEF BoundOnce, Covered, Bound
  <2>6. Within(op, ref, known) /\ Within(op, op.handle, known)
    BY <1>0, <2>1 DEF Within, Between, Inv, PageInv
  <2>7. Between(op', known)
    BY <1>0, <2>4, <2>6 DEF Between, Within
  <2> QED BY <1>0, <2>0, <2>2, <2>3, <2>5, <2>7, OpStep DEF OpInv, Has, BoundOnce, Covered
<1> QED BY <1>1, <1>2 DEF Bind

\* The view: what its text leaves out is not retained.
LEMMA ViewStep == ASSUME Inv, View PROVE Inv'
<1>0. op # None /\ op.at = "view" /\ known = version /\ op \in Op /\ Has(op) /\ Between(op, known) /\ BoundOnce(op)
      /\ UNCHANGED <<version, known, root, list, kept>>
  BY DEF View, Asks, At, Page, Inv, OpInv
<1> PICK text \in SUBSET (op.text \cup {In(e) : e \in Shown}) :
        op' = [op EXCEPT !.at = "retain", !.text = text, !.editors = Retained(text)]
  BY DEF View
<1>1. \A x \in text : x \in Element /\ Within(op, x, known)
  <2>1. \A e \in Shown : In(e) \in Element /\ In(e).version = version
    BY ShownAreEditors, InIsElement DEF Inv, PageInv, Shown
  <2>2. \A e \in Shown : Within(op, In(e), known)
    BY <1>0, <2>1 DEF Within, Between, Op, Inv, PageInv
  <2> QED BY <1>0, <2>1, <2>2 DEF Between, Op
<1>2. Retained(text) \subseteq op.editors /\ \A b \in Retained(text) : b.ref \in text
  BY DEF Retained
<1>3. op' \in Op
  BY <1>0, <1>1, <1>2 DEF Op, Steps
<1>4. op'.at = "retain" /\ op'.text = text /\ op'.editors = Retained(text) /\ op'.version = op.version
      /\ op'.root = op.root /\ op'.scope = op.scope
  BY <1>0 DEF Op
<1>5. Has(op') /\ BoundOnce(op') /\ Covered(op')
  BY <1>0, <1>2, <1>4 DEF Has, BoundOnce, Covered
<1>6. Between(op', known)
  BY <1>0, <1>1, <1>2, <1>4 DEF Between, Within
<1> QED BY <1>0, <1>3, <1>5, <1>6, OpStep DEF OpInv, Has, BoundOnce, Covered

\* What is retained is of the document known, since all of it is of a document
\* between the first one and the one known, and these are the same.
LEMMA RetainStep == ASSUME Inv, Retain PROVE Inv'
<1>0. op # None /\ op.at = "retain" /\ op \in Op /\ Has(op) /\ Between(op, known) /\ Covered(op) /\ op' = None
      /\ UNCHANGED <<version, known, root, list>>
  BY DEF Retain, At, Page, Inv, OpInv
<1>1. CASE UNCHANGED kept
  BY <1>0, <1>1, OpStep DEF OpInv
<1>2. CASE SameDocument
  <2>1. kept' = [version |-> known, root |-> op.root, text |-> op.text, scope |-> op.scope, editors |-> op.editors]
    BY <1>2 DEF Retain
  <2>2. \A x \in Element : Within(op, x, known) => x.version = known
    BY <1>0, <1>2 DEF Within, SameDocument, Element, Op, Inv, PageInv
  <2>3. kept' \in Kept
    BY <1>0, <2>1 DEF Kept, Op, Has, Inv, PageInv
  <2>4. OneDocument'
    BY <1>0, <2>1, <2>2 DEF OneDocument, Between, Has, Op, Binding
  <2>5. OnlyWhatIsShown'
    BY <1>0, <2>1 DEF OnlyWhatIsShown, Covered
  <2> QED BY <1>0, <2>3, <2>4, <2>5 DEF Inv, PageInv, OpInv, KeptInv
<1> QED BY <1>1, <1>2 DEF Retain

\* The invariant is inductive.
LEMMA NextInv == ASSUME Inv, [Next]_vars PROVE Inv'
<1>1. CASE UNCHANGED vars
  BY <1>1 DEF vars, Inv, PageInv, OpInv, KeptInv, OneDocument, OnlyWhatIsShown, Has, Between, Within, BoundOnce, Covered
<1>2. CASE AlreadyBound
  BY <1>2, FailStep DEF AlreadyBound
<1>3. CASE TimesOut
  BY <1>3, FailStep DEF TimesOut
<1> QED
  BY <1>1, <1>2, <1>3, PageStep, NavigatedStep, BeginStep, TextStep, ScopeStep, CountStep, HandleStep, BindStep, ViewStep, RetainStep DEF Next

\* The invariant holds always.
LEMMA InvHolds == Spec => []Inv
<1>1. Init => Inv
  BY InitInv
<1>2. Inv /\ [Next]_vars => Inv'
  BY NextInv
<1> QED BY <1>1, <1>2, PTL DEF Spec

\* Type correctness: the controller is never ahead of the page, and each
\* reference of an unfinished snapshot has one editor.
THEOREM TypeCorrect == Spec => []TypeOK
<1>1. Inv => TypeOK
  BY DEF Inv, PageInv, OpInv, BoundOnce, TypeOK
<1> QED BY <1>1, InvHolds, PTL

\* Whatever navigates while a snapshot is captured, and wherever its parts come
\* from, what is retained is of the one document the controller knows.
THEOREM SnapshotOfOneDocument == Spec => []OneDocument
<1>1. Inv => OneDocument
  BY DEF Inv, KeptInv, OneDocument
<1> QED BY <1>1, InvHolds, PTL

\* No editor stays retained whose reference the agent was not given.
THEOREM EditorsAreShown == Spec => []OnlyWhatIsShown
<1>1. Inv => OnlyWhatIsShown
  BY DEF Inv, KeptInv, OnlyWhatIsShown
<1> QED BY <1>1, InvHolds, PTL

-----------------------------------------------------------------------------
\* A click (ClickAction).
\* Where the executor is: what comes before the input, the input, and after it.
Preparations == {"observe", "prime", "settle", "resolve", "reach", "install"}
BeforeInput == Preparations \cup {"check"} \cup Click!Input
Told == {"failed", "verify", "done"}
PhaseNames == {"observe", "plan", "preflight", "prepare", "dispatch", "reconcile", "finalize"}
PhaseStates == {"not_attempted", "not_dispatched", "possibly_dispatched", "dispatched"}
Holds == [node : 0 .. 1, state : Click!TargetStates, keyboard : BOOLEAN]
Evidence == {"yes", "no", "unknown", "untold"}
Errors == {"none", "stale_snapshot", "page_not_active", "unresolved", "not_actionable", "probe", "input",
           "ActionPhaseInvariantError", "postcondition"}
Answers == [action : Evidence, click : Evidence, error : Errors]
ClickPages == [node : 0 .. 1, matches : 0 .. 2, state : Click!TargetStates, active : BOOLEAN]
ClickPhases == [at : PhaseNames, attempts : 0 .. 2, recovered : BOOLEAN, state : PhaseStates]
ClickTyped ==
    /\ asked \in [by : {"role", "ref"}, post : BOOLEAN, native : BOOLEAN,
                  policy : {"pointer_only", "keyboard", "keyboard_fallback"}]
    /\ page \in ClickPages
    /\ clock \in 0 .. 3 /\ pc \in BeforeInput \cup {"read"} \cup Told
    /\ phases \in ClickPhases
    /\ held \in {None} \cup Holds /\ probe \in Click!Seen
    /\ dispatch \in [active : BOOLEAN, error : {"none", "timeout", "blocked"}, tried : SUBSET Click!Input]
    /\ real \in [touched : BOOLEAN, clicks : 0 .. 1, late : BOOLEAN]
    /\ IF pc \in Told THEN report \in Answers ELSE report = None

\* A dispatch for each time the action was prepared, which is once, or twice after a recovery.
PreparedOnce ==
    /\ pc = "observe" => ~phases.recovered
    /\ phases.attempts <= (IF phases.recovered THEN 1 ELSE 0) + (IF pc \in Preparations THEN 0 ELSE 1)
\* Nothing reached the target before an input, and in time no input stays unseen;
InputIsSeen ==
    /\ pc \in BeforeInput => ~real.touched /\ ~real.late
    /\ clock < 2 => ~real.late /\ (real.touched => probe.trusted)
    /\ probe.expired => clock = 3
\* what was seen or told is one click that did.
OneClick ==
    /\ real.late => ~real.touched
    /\ real.clicks = 1 => real.touched
    /\ probe.clicked => real.clicks = 1
    /\ pc \in Told /\ report.click = "yes" => real.clicks = 1
ClickInv == ClickTyped /\ PreparedOnce /\ InputIsSeen /\ OneClick

\* A phase is entered, and nothing else of the session changes.
LEMMA ClickEnters ==
    ASSUME phases \in ClickPhases, NEW phase \in PhaseNames, Click!Enter(phase)
    PROVE  /\ phases' \in ClickPhases /\ phases'.attempts = phases.attempts
           /\ phases'.recovered = phases.recovered /\ phases'.state = phases.state
BY DEF Click!Enter, ClickPhases

\* What the reports are made of.
LEMMA ClickAnswers ==
    /\ \A e \in Errors : Click!NoDispatch(e) \in Answers /\ Click!NoDispatch(e).click = "no"
    /\ \A a, c \in Evidence, e \in Errors : Click!Answer(a, c, e) \in Answers
BY DEF Click!NoDispatch, Click!Answer, Answers, Evidence

LEMMA ClickInit == Click!Init => ClickInv
BY DEF Click!Init, ClickInv, ClickTyped, PreparedOnce, InputIsSeen, OneClick, Click!NothingSeen,
   Click!FreshDispatch, Click!Seen, Preparations, BeforeInput, Told, PhaseNames, PhaseStates, ClickPages, ClickPhases

\* A report of a failure says what the probe saw, if anything does.
LEMMA ClickFailure ==
    ASSUME ClickInv, NEW seen \in {None, probe}, NEW error, NEW active
    PROVE  /\ Click!Failure(seen, error, active) \in Answers
           /\ Click!Failure(seen, error, active).click = "yes" => probe.clicked
<1>1. CASE seen = None
  BY <1>1 DEF Click!Failure, Click!NoDispatch, Click!Answer, Answers, Evidence, Errors
<1>2. CASE seen # None
  BY <1>2 DEF Click!Failure, Click!NoDispatch, Click!Answer, Answers, Evidence, Errors
<1> QED BY <1>1, <1>2

\* The page and the clock, and a click that comes late.
LEMMA ClickPage == ClickInv /\ (Click!PageChanges \/ Click!TimePasses \/ Click!LateClick) => ClickInv'
<1>1. ASSUME ClickInv, Click!PageChanges PROVE ClickInv'
  <2>1. page' \in ClickPages
    <3>0. page \in ClickPages
      BY <1>1 DEF ClickInv, ClickTyped
    <3>1. ASSUME NEW state \in Click!TargetStates PROVE [page EXCEPT !.state = state] \in ClickPages
      BY <3>0 DEF ClickPages
    <3>2. [page EXCEPT !.active = ~@] \in ClickPages
      BY <3>0 DEF ClickPages
    <3>3. ASSUME NEW n \in 0 .. 2 PROVE [page EXCEPT !.matches = n] \in ClickPages
      BY <3>0 DEF ClickPages
    <3>4. [page EXCEPT !.node = 1, !.matches = 1] \in ClickPages
      <4>1. 1 \in 0 .. 1 /\ 1 \in 0 .. 2
        OBVIOUS
      <4>2. [page EXCEPT !.node = 1] \in ClickPages
        BY <3>0, <4>1 DEF ClickPages
      <4> QED BY <4>1, <4>2 DEF ClickPages
    <3>5. \/ \E state \in Click!TargetStates : page' = [page EXCEPT !.state = state]
          \/ page' = [page EXCEPT !.active = ~@]
          \/ \E n \in 0 .. 2 : page' = [page EXCEPT !.matches = n]
          \/ page' = [page EXCEPT !.node = 1, !.matches = 1]
      BY <1>1 DEF Click!PageChanges
    <3> QED BY <3>1, <3>2, <3>3, <3>4, <3>5
  <2> QED BY <1>1, <2>1 DEF ClickInv, ClickTyped, PreparedOnce, InputIsSeen, OneClick, Click!PageChanges
<1>2. ASSUME ClickInv, Click!TimePasses PROVE ClickInv'
  <2>1. clock' \in 0 .. 3 /\ clock' > clock /\ (clock' # 3 => probe' = probe)
    BY <1>2 DEF ClickInv, ClickTyped, Click!TimePasses, Click!Seen
  <2>2. probe' \in Click!Seen /\ probe'.trusted = probe.trusted /\ probe'.clicked = probe.clicked
    BY <1>2 DEF ClickInv, ClickTyped, Click!TimePasses, Click!Seen
  <2> QED BY <1>2, <2>1, <2>2 DEF ClickInv, ClickTyped, PreparedOnce, InputIsSeen, OneClick, Click!TimePasses
<1>3. ASSUME ClickInv, Click!LateClick PROVE ClickInv'
  <2>1. ~real.touched /\ real.clicks = 0 /\ clock >= 2 /\ pc \notin BeforeInput
    BY <1>3 DEF ClickInv, ClickTyped, InputIsSeen, OneClick, Click!LateClick
  <2>2. real' = [touched |-> TRUE, clicks |-> 1, late |-> FALSE]
    BY <1>3, <2>1 DEF Click!LateClick
  <2> QED BY <1>3, <2>1, <2>2 DEF ClickInv, ClickTyped, PreparedOnce, InputIsSeen, OneClick, Click!LateClick
<1> QED BY <1>1, <1>2, <1>3

\* A step before the input, to the next or to the report of an error.
LEMMA ClickPrepares ==
    ASSUME ClickInv, pc \in Preparations, ClickTyped', pc' \in Preparations \cup {"done"},
           pc' = "done" => report'.click = "no", UNCHANGED <<clock, probe, real>>,
           phases'.attempts = phases.attempts, phases.recovered => phases'.recovered, pc' # "observe"
    PROVE  ClickInv'
<1>1. pc' \in Preparations => pc' \in BeforeInput /\ pc' \notin Told
  BY DEF Preparations, BeforeInput, Told, Click!Input
<1>2. PreparedOnce'
  BY DEF ClickInv, ClickTyped, PreparedOnce, ClickPhases
<1>3. pc \in BeforeInput /\ pc' # "done" => pc' \in Preparations
  BY DEF BeforeInput
<1>4. InputIsSeen'
  BY DEF ClickInv, InputIsSeen, BeforeInput
<1>5. OneClick'
  BY <1>1 DEF ClickInv, OneClick
<1> QED BY <1>2, <1>4, <1>5 DEF ClickInv

LEMMA ClickPreparations ==
    ClickInv /\ (Click!Plan \/ Click!Prime \/ Click!Settle \/ Click!Resolve \/ Click!Reach) => ClickInv'
<1> USE DEF Click!At, Click!Finish
<1>a. /\ {"prime", "settle", "resolve", "reach", "install"} \subseteq BeforeInput \ Told
      /\ "done" \in Told /\ {"preflight", "finalize", "prepare"} \subseteq PhaseNames
      /\ {"none", "stale_snapshot", "page_not_active", "unresolved", "not_actionable"} \subseteq Errors
      /\ {"observe", "prime", "settle", "resolve", "reach", "install"} = Preparations
      /\ Preparations \cap Told = {}
  BY DEF BeforeInput, Told, PhaseNames, Errors, Preparations, Click!Input
<1>1. ASSUME ClickInv, Click!Plan PROVE ClickInv'
  <2>0. phases \in ClickPhases /\ ~phases.recovered
    BY <1>1 DEF ClickInv, ClickTyped, PreparedOnce, Click!Plan
  <2>1. phases' \in ClickPhases /\ phases'.attempts = phases.attempts
    <3>1. CASE Click!Enter("finalize")
      BY <1>a, <2>0, <3>1 DEF ClickPhases, Click!Enter
    <3>2. ASSUME NEW missed \in BOOLEAN, phases' = [phases EXCEPT !.at = "preflight", !.recovered = missed]
          PROVE  phases' \in ClickPhases /\ phases'.attempts = phases.attempts
      BY <1>a, <2>0, <3>2 DEF ClickPhases
    <3>3. Click!Enter("finalize") \/ \E missed \in BOOLEAN : phases' = [phases EXCEPT !.at = "preflight", !.recovered = missed]
      BY <1>1 DEF Click!Plan
    <3> QED BY <3>1, <3>2, <3>3, Zenon
  <2>2. report = None
    BY <1>a, <1>1 DEF Click!Plan, ClickInv, ClickTyped
  <2>5. \A e \in {"none", "stale_snapshot"} : Click!NoDispatch(e) \in Answers /\ Click!NoDispatch(e).click = "no"
    BY <1>a, ClickAnswers
  <2>4. \/ pc' = "prime" /\ report' = None
        \/ pc' = "done" /\ report' \in Answers /\ report'.click = "no"
    BY <1>1, <2>2, <2>5 DEF Click!Plan
  <2>3. ClickTyped'
    <3>1. pc' \in BeforeInput \cup {"read"} \cup Told /\ IF pc' \in Told THEN report' \in Answers ELSE report' = None
      BY <1>a, <2>4
    <3> QED BY <1>1, <2>1, <3>1 DEF Click!Plan, ClickInv, ClickTyped
  <2> QED BY <1>a, <1>1, <2>0, <2>1, <2>3, <2>4, ClickPrepares DEF Click!Plan
<1>2. ASSUME ClickInv, Click!Prime PROVE ClickInv'
  <2>0. pc = "prime" /\ page \in ClickPages /\ report = None /\ phases \in ClickPhases
    BY <1>a, <1>2 DEF Click!Prime, ClickInv, ClickTyped
  <2>1. phases' \in ClickPhases /\ phases'.attempts = phases.attempts /\ phases'.recovered = phases.recovered
    BY <1>a, <1>2, <2>0, ClickEnters DEF Click!Prime
  <2>2. page' \in ClickPages
    BY <1>2, <2>0 DEF Click!Prime, Click!BringForward, ClickPages
  <2>3. Click!NoDispatch("page_not_active") \in Answers /\ Click!NoDispatch("page_not_active").click = "no"
    BY <1>a, ClickAnswers
  <2>4. \/ pc' \in {"resolve", "settle"} /\ report' = None
        \/ pc' = "done" /\ report' \in Answers /\ report'.click = "no"
    BY <1>2, <2>0, <2>3 DEF Click!Prime
  <2>5. ClickTyped'
    BY <1>a, <1>2, <2>1, <2>2, <2>4 DEF Click!Prime, ClickInv, ClickTyped
  <2> QED BY <1>a, <1>2, <2>0, <2>1, <2>4, <2>5, ClickPrepares DEF Click!Prime
<1>3. ASSUME ClickInv, Click!Settle PROVE ClickInv'
  <2>0. pc = "settle" /\ report = None
    BY <1>a, <1>3 DEF Click!Settle, ClickInv, ClickTyped
  <2>3. Click!NoDispatch("page_not_active") \in Answers /\ Click!NoDispatch("page_not_active").click = "no"
    BY <1>a, ClickAnswers
  <2>4. \/ pc' = "resolve" /\ report' = None
        \/ pc' = "done" /\ report' \in Answers /\ report'.click = "no"
    BY <1>3, <2>0, <2>3 DEF Click!Settle
  <2>5. ClickTyped'
    BY <1>a, <1>3, <2>4 DEF Click!Settle, ClickInv, ClickTyped
  <2> QED BY <1>a, <1>3, <2>0, <2>4, <2>5, ClickPrepares DEF Click!Settle
<1>4. ASSUME ClickInv, Click!Resolve PROVE ClickInv'
  <2>0. pc = "resolve" /\ report = None /\ page \in ClickPages /\ held \in {None} \cup Holds
    BY <1>a, <1>4 DEF Click!Resolve, ClickInv, ClickTyped
  <2>1. held' \in {None} \cup Holds
    <3>1. [node |-> page.node, state |-> page.state, keyboard |-> FALSE] \in Holds
      BY <2>0 DEF ClickPages, Holds
    <3> QED BY <1>4, <2>0, <3>1 DEF Click!Resolve
  <2>3. Click!NoDispatch("unresolved") \in Answers /\ Click!NoDispatch("unresolved").click = "no"
    BY <1>a, ClickAnswers
  <2>4. \/ pc' = "reach" /\ report' = None
        \/ pc' = "done" /\ report' \in Answers /\ report'.click = "no"
    BY <1>4, <2>0, <2>3 DEF Click!Resolve
  <2>5. ClickTyped'
    BY <1>a, <1>4, <2>1, <2>4 DEF Click!Resolve, ClickInv, ClickTyped
  <2> QED BY <1>a, <1>4, <2>0, <2>4, <2>5, ClickPrepares DEF Click!Resolve
<1>5. ASSUME ClickInv, Click!Reach PROVE ClickInv'
  <2>0. pc = "reach" /\ report = None /\ page \in ClickPages /\ held \in {None} \cup Holds
    BY <1>a, <1>5 DEF Click!Reach, ClickInv, ClickTyped
  <2> PICK state \in Click!Scrolled :
        /\ page' = [page EXCEPT !.state = state]
        /\ IF (Click!Connected(held.node) \/ Click!Rebound) /\ Click!Actionable(state)
           THEN /\ held' = [node |-> page.node, state |-> state, keyboard |-> Click!Keyboard(state)]
                /\ pc' = "install" /\ UNCHANGED report
           ELSE pc' = "done" /\ report' = Click!NoDispatch("not_actionable") /\ UNCHANGED held
    BY <1>5 DEF Click!Reach
  <2>1. state \in Click!TargetStates
    BY <2>0 DEF ClickPages, Click!Scrolled, Click!TargetStates
  <2>2. page' \in ClickPages
    BY <2>0, <2>1 DEF ClickPages
  <2>3. [node |-> page.node, state |-> state, keyboard |-> Click!Keyboard(state)] \in Holds
    <3>1. Click!Keyboard(state) \in BOOLEAN
      BY <1>5 DEF Click!Keyboard, ClickInv, ClickTyped
    <3> QED BY <2>0, <2>1, <3>1 DEF Holds, ClickPages
  <2>4. Click!NoDispatch("not_actionable") \in Answers /\ Click!NoDispatch("not_actionable").click = "no"
    BY <1>a, ClickAnswers
  <2>5. \/ pc' = "install" /\ report' = None
        \/ pc' = "done" /\ report' \in Answers /\ report'.click = "no"
    BY <2>0, <2>4
  <2>6. held' \in {None} \cup Holds
    BY <2>0, <2>3
  <2>7. ClickTyped'
    BY <1>a, <1>5, <2>2, <2>5, <2>6 DEF Click!Reach, ClickInv, ClickTyped
  <2> QED BY <1>a, <1>5, <2>0, <2>5, <2>7, ClickPrepares DEF Click!Reach
<1> QED BY <1>1, <1>2, <1>3, <1>4, <1>5

\* The input: the probe is installed, the page looked at, and an attempt made.
LEMMA ClickInstalls == ClickInv /\ Click!Install => ClickInv'
<1> SUFFICES ASSUME ClickInv, Click!Install PROVE ClickInv'
  OBVIOUS
<1>1. pc = "install" /\ pc \in Preparations /\ pc \in BeforeInput /\ pc \notin Told /\ report = None
  BY DEF ClickInv, ClickTyped, Click!Install, Click!At, Preparations, BeforeInput, Told, Click!Input
<1>2. phases.attempts + 1 <= (IF phases.recovered THEN 1 ELSE 0) + 1 /\ phases \in ClickPhases
  BY <1>1 DEF ClickInv, ClickTyped, PreparedOnce, ClickPhases
<1>3. /\ phases' \in ClickPhases /\ phases'.recovered = phases.recovered
      /\ phases'.attempts <= (IF phases'.recovered THEN 1 ELSE 0) + 1
  <2>1. phases' = [phases EXCEPT !.at = "dispatch", !.attempts = @ + 1]
    BY DEF Click!Install
  <2>2. "dispatch" \in PhaseNames /\ phases.attempts + 1 \in 0 .. 2
    BY <1>2 DEF PhaseNames, ClickPhases
  <2> QED BY <1>2, <2>1, <2>2 DEF ClickPhases
<1>4. Click!NoDispatch("probe") \in Answers /\ Click!NoDispatch("probe").click = "no"
  BY ClickAnswers DEF Errors
<1>5. /\ pc' \in {"check", "failed"} /\ pc' \notin Preparations /\ pc' # "observe"
      /\ IF pc' = "failed" THEN report' \in Answers /\ report'.click = "no" ELSE report' = None
  BY <1>1, <1>4 DEF Click!Install, Preparations
<1>6. probe' = Click!NothingSeen /\ dispatch' = Click!FreshDispatch /\ UNCHANGED <<asked, clock, held, page, real>>
  BY DEF Click!Install
<1>7. ClickTyped'
  BY <1>3, <1>5, <1>6 DEF ClickInv, ClickTyped, Click!NothingSeen, Click!FreshDispatch, Click!Seen, BeforeInput, Told,
     Click!Input
<1>8. PreparedOnce'
  BY <1>3, <1>5 DEF PreparedOnce
<1>9. InputIsSeen' /\ OneClick'
  BY <1>1, <1>5, <1>6 DEF ClickInv, InputIsSeen, OneClick, Click!NothingSeen, Told
<1> QED BY <1>7, <1>8, <1>9 DEF ClickInv

\* A step from the input to the next, or to its report.
LEMMA ClickGoes ==
    ASSUME ClickInv, ClickTyped', pc \notin Preparations, pc' \notin Preparations, phases' = phases,
           UNCHANGED <<clock, probe, real>>,
           pc' \in BeforeInput => ~real.touched /\ ~real.late,
           pc' \in Told /\ report'.click = "yes" => real.clicks = 1
    PROVE  ClickInv'
BY DEF ClickInv, PreparedOnce, InputIsSeen, OneClick, Preparations

LEMMA ClickFails ==
    ASSUME ClickInv, NEW seen \in {None, probe}, NEW error, NEW active, Click!Fail(seen, error, active)
    PROVE  pc' = "failed" /\ report' \in Answers /\ (report'.click = "yes" => real.clicks = 1)
BY ClickFailure DEF Click!Fail, ClickInv, OneClick

LEMMA ClickChecks == ClickInv /\ Click!Check => ClickInv'
<1> SUFFICES ASSUME ClickInv, Click!Check PROVE ClickInv'
  OBVIOUS
<1>1. /\ pc = "check" /\ pc \notin Preparations /\ pc \in BeforeInput /\ pc \notin Told /\ report = None
      /\ dispatch' = [dispatch EXCEPT !.active = page.active] /\ page.active \in BOOLEAN
      /\ ~real.touched /\ ~real.late
  BY DEF ClickInv, ClickTyped, InputIsSeen, Click!Check, Click!At, Preparations, BeforeInput, Told, Click!Input, ClickPages
<1>2. \/ pc' \in {"keyboard", "normal"} /\ report' = None
      \/ pc' = "failed" /\ report' \in Answers /\ (report'.click = "yes" => real.clicks = 1)
  <2>1. \A seen \in {None, probe} : Click!Fail(seen, "none", page.active) =>
            pc' = "failed" /\ report' \in Answers /\ (report'.click = "yes" => real.clicks = 1)
    BY ClickFails
  <2> QED BY <1>1, <2>1 DEF Click!Check, Click!Readings
<1>3. UNCHANGED <<asked, page, clock, phases, held, probe, real>>
  BY DEF Click!Check
<1>4. /\ pc' \in BeforeInput \cup {"read"} \cup Told /\ pc' \notin Preparations
      /\ pc' \in Told => pc' = "failed"
      /\ IF pc' \in Told THEN report' \in Answers ELSE report' = None
  BY <1>2 DEF BeforeInput, Told, Click!Input, Preparations
<1>5. ClickTyped'
  BY <1>1, <1>3, <1>4 DEF ClickInv, ClickTyped
<1> QED BY <1>1, <1>2, <1>3, <1>4, <1>5, ClickGoes

LEMMA ClickAttempts == ASSUME NEW kind \in Click!Input PROVE ClickInv /\ Click!Attempt(kind) => ClickInv'
<1> SUFFICES ASSUME ClickInv, Click!Attempt(kind) PROVE ClickInv'
  OBVIOUS
<1> PICK effect \in Click!Effects(held.node), error \in {"none", "timeout", "blocked"}, late \in BOOLEAN :
        /\ late => kind = "mouse" /\ effect = "none" /\ error = "timeout" /\ clock >= 2
        /\ probe' = Click!After(effect)
        /\ real' = [touched |-> real.touched \/ effect \in {"touched", "clicked"},
                    clicks |-> real.clicks + (IF effect = "clicked" THEN 1 ELSE 0), late |-> late]
        /\ dispatch' = [dispatch EXCEPT !.error = error, !.tried = @ \cup {kind}]
  BY DEF Click!Attempt
<1>1. pc = kind /\ pc' = "read" /\ UNCHANGED <<asked, page, clock, phases, held, report>>
  BY DEF Click!Attempt, Click!At
<1>2. /\ pc \in BeforeInput /\ pc \notin Told /\ pc \notin Preparations /\ report = None
      /\ pc' \notin BeforeInput /\ pc' \notin Told /\ pc' \notin Preparations
  BY <1>1 DEF ClickInv, ClickTyped, BeforeInput, Told, Preparations, Click!Input
<1>3. ~real.touched /\ ~real.late /\ real.clicks = 0 /\ ~probe.clicked
  BY <1>2 DEF ClickInv, ClickTyped, InputIsSeen, OneClick
<1>4. /\ real' \in [touched : BOOLEAN, clicks : 0 .. 1, late : BOOLEAN]
      /\ real'.late <=> late
      /\ real'.touched <=> effect \in {"touched", "clicked"}
      /\ real'.clicks = IF effect = "clicked" THEN 1 ELSE 0
  <2>1. real' = [touched |-> effect \in {"touched", "clicked"}, clicks |-> IF effect = "clicked" THEN 1 ELSE 0, late |-> late]
    BY <1>3
  <2>2. (effect \in {"touched", "clicked"}) \in BOOLEAN /\ (IF effect = "clicked" THEN 1 ELSE 0) \in 0 .. 1
    OBVIOUS
  <2>3. real' \in [touched : BOOLEAN, clicks : 0 .. 1, late : BOOLEAN]
    BY <2>1, <2>2
  <2>4. real'.clicks = IF effect = "clicked" THEN 1 ELSE 0
    BY <2>1
  <2>5. real'.late = late
    BY <2>1
  <2>6. real'.touched = (effect \in {"touched", "clicked"})
    BY <2>1
  <2> QED BY <2>3, <2>4, <2>5, <2>6
<1>5. /\ probe' \in Click!Seen /\ probe'.expired = probe.expired
      /\ probe'.clicked => effect = "clicked"
      /\ ~probe.expired /\ effect # "none" => probe'.trusted
  <2>1. probe \in Click!Seen
    BY DEF ClickInv, ClickTyped
  <2> QED BY <1>3, <2>1 DEF Click!After, Click!Seen
<1>6. dispatch' \in [active : BOOLEAN, error : {"none", "timeout", "blocked"}, tried : SUBSET Click!Input]
  <2>1. dispatch \in [active : BOOLEAN, error : {"none", "timeout", "blocked"}, tried : SUBSET Click!Input]
    BY DEF ClickInv, ClickTyped
  <2>2. dispatch.tried \cup {kind} \in SUBSET Click!Input
    BY <2>1
  <2> QED BY <2>1, <2>2
<1>7. ClickTyped'
  BY <1>1, <1>2, <1>4, <1>5, <1>6 DEF ClickInv, ClickTyped
<1>8. PreparedOnce'
  BY <1>1, <1>2 DEF ClickInv, PreparedOnce
<1>9. InputIsSeen'
  BY <1>1, <1>2, <1>4, <1>5 DEF ClickInv, ClickTyped, InputIsSeen
<1>10. OneClick'
  BY <1>2, <1>4, <1>5 DEF OneClick
<1> QED BY <1>7, <1>8, <1>9, <1>10 DEF ClickInv

\* What is read of the probe: a click, a failure, or that another means may be tried.
LEMMA ClickReads == ClickInv /\ Click!Read => ClickInv'
<1> SUFFICES ASSUME ClickInv, Click!Read PROVE ClickInv'
  OBVIOUS
<1>1. /\ pc = "read" /\ pc \notin Preparations /\ pc \notin BeforeInput /\ pc \notin Told /\ report = None
      /\ page.active \in BOOLEAN /\ UNCHANGED <<asked, page, clock, phases, held, probe, real>>
  BY DEF ClickInv, ClickTyped, Click!Read, Click!At, Preparations, BeforeInput, Told, Click!Input, ClickPages
<1>2. \A seen \in {None, probe} : \A error, active : Click!Fail(seen, error, active) =>
          pc' = "failed" /\ report' \in Answers /\ (report'.click = "yes" => real.clicks = 1)
  BY ClickFails
<1>3. Click!Answer("yes", "yes", "none") \in Answers
  BY ClickAnswers DEF Evidence, Errors
<1>4. dispatch' \in {dispatch, [dispatch EXCEPT !.active = page.active]}
  BY DEF Click!Read
<1>5. \/ pc' = "verify" /\ report' \in Answers /\ real.clicks = 1
      \/ pc' = "failed" /\ report' \in Answers /\ (report'.click = "yes" => real.clicks = 1)
      \/ pc' \in {"mouse", "forced"} /\ report' = None /\ ~real.touched /\ ~real.late
  <2> PICK seen \in {None, probe} :
        \/ /\ Click!Confirmed(seen) /\ pc' = "verify" /\ report' = Click!Answer("yes", "yes", "none")
           /\ UNCHANGED dispatch
        \/ /\ Click!Confirmed(seen) /\ dispatch.error # "none" /\ ~held.keyboard
           /\ Click!Fail(None, "none", dispatch.active) /\ UNCHANGED dispatch
        \/ /\ ~Click!Confirmed(seen) /\ ~Click!MayFallBack(seen)
           /\ Click!Fail(seen, dispatch.error, dispatch.active) /\ UNCHANGED dispatch
        \/ /\ ~Click!Confirmed(seen) /\ Click!MayFallBack(seen)
           /\ dispatch' = [dispatch EXCEPT !.active = page.active]
           /\ IF page.active
              THEN pc' = (IF "forced" \in dispatch.tried THEN "mouse" ELSE "forced") /\ UNCHANGED report
              ELSE \E last \in Click!Readings : Click!Fail(last, "none", FALSE)
    BY DEF Click!Read, Click!Readings
  <2>1. Click!Confirmed(seen) => real.clicks = 1
    BY DEF Click!Confirmed, ClickInv, OneClick
  <2>2. Click!MayFallBack(seen) => ~real.touched /\ ~real.late
    BY DEF Click!MayFallBack, Click!Untouched, ClickInv, InputIsSeen
  <2> QED BY <1>1, <1>2, <1>3, <2>1, <2>2 DEF Click!Readings
<1>6. /\ pc' \in BeforeInput \cup {"read"} \cup Told /\ pc' \notin Preparations
      /\ pc' \in BeforeInput => ~real.touched /\ ~real.late
      /\ pc' \in Told /\ report'.click = "yes" => real.clicks = 1
      /\ IF pc' \in Told THEN report' \in Answers ELSE report' = None
  BY <1>5 DEF BeforeInput, Told, Preparations, Click!Input
<1>7. ClickTyped'
  BY <1>1, <1>4, <1>6 DEF ClickInv, ClickTyped
<1> QED BY <1>1, <1>6, <1>7, ClickGoes

\* The end of the session, with the outcome the report says.
LEMMA ClickConcluded == ClickTyped /\ pc \in Told => Click!Concluded \in PhaseStates
BY DEF ClickTyped, Answers, Evidence, Click!Concluded, PhaseStates

LEMMA ClickFinishes ==
    ASSUME ClickInv, pc \in Told, NEW state \in PhaseStates,
           phases' = [phases EXCEPT !.at = "finalize", !.state = state], pc' = "done",
           UNCHANGED <<asked, page, clock, probe, dispatch, real, held>>,
           report' \in Answers, report'.click = "yes" => report.click = "yes"
    PROVE  ClickInv'
<1>1. pc' \in Told /\ pc' \notin Preparations /\ pc' \notin BeforeInput /\ pc \notin Preparations /\ pc' # "observe"
  BY DEF Told, Preparations, BeforeInput, Click!Input
<1>2. phases' \in ClickPhases /\ phases'.attempts = phases.attempts /\ phases'.recovered = phases.recovered
  <2>1. phases \in ClickPhases /\ "finalize" \in PhaseNames
    BY DEF ClickInv, ClickTyped, PhaseNames
  <2> QED BY <2>1 DEF ClickPhases
<1>3. ClickTyped'
  BY <1>1, <1>2 DEF ClickInv, ClickTyped
<1> QED BY <1>1, <1>2, <1>3 DEF ClickInv, PreparedOnce, InputIsSeen, OneClick

LEMMA ClickEnds == ClickInv /\ (Click!Recover \/ Click!Reconcile \/ Click!Verify) => ClickInv'
<1>a. "failed" \in Told /\ "verify" \in Told /\ "done" \in Told
  BY DEF Told
<1>1. ASSUME ClickInv, Click!Recover, phases.recovered PROVE ClickInv'
  <2>1. Click!Answer("untold", "untold", "ActionPhaseInvariantError") \in Answers
        /\ Click!Answer("untold", "untold", "ActionPhaseInvariantError").click # "yes"
    BY ClickAnswers DEF Evidence, Errors, Click!Answer
  <2>2. pc \in Told /\ Click!Concluded \in PhaseStates
    BY <1>a, <1>1, ClickConcluded DEF Click!Recover, Click!At, ClickInv
  <2> QED BY <1>1, <2>1, <2>2, ClickFinishes DEF Click!Recover, Click!Finish
<1>2. ASSUME ClickInv, Click!Recover, ~phases.recovered PROVE ClickInv'
  <2>1. /\ pc = "failed" /\ Click!LostActivation /\ phases' = [phases EXCEPT !.at = "preflight", !.recovered = TRUE]
        /\ held' = None /\ UNCHANGED <<asked, page, clock, probe, dispatch, real>>
    BY <1>2 DEF Click!Recover, Click!At
  <2>2. ~real.touched /\ ~real.late
    BY <1>2, <2>1 DEF Click!LostActivation, ClickInv, InputIsSeen
  <2>3. Click!NoDispatch("stale_snapshot") \in Answers /\ Click!NoDispatch("stale_snapshot").click = "no"
    BY ClickAnswers DEF Errors
  <2>4. \/ pc' = "prime" /\ report' = None
        \/ pc' = "done" /\ report' \in Answers /\ report'.click = "no"
    BY <1>2, <2>3 DEF Click!Recover, Click!Finish
  <2>5. phases' \in ClickPhases /\ phases'.attempts = phases.attempts /\ phases'.recovered
    <3>1. phases \in ClickPhases /\ "preflight" \in PhaseNames
      BY <1>2 DEF ClickInv, ClickTyped, PhaseNames
    <3> QED BY <2>1, <3>1 DEF ClickPhases
  <2>6. /\ pc' \in BeforeInput \cup {"read"} \cup Told /\ pc' # "observe"
        /\ pc' \in Told => pc' = "done"
        /\ IF pc' \in Told THEN report' \in Answers ELSE report' = None
    BY <2>4 DEF BeforeInput, Told, Preparations, Click!Input
  <2>7. ClickTyped'
    BY <1>2, <2>1, <2>5, <2>6 DEF ClickInv, ClickTyped
  <2>8. phases.attempts <= 1
    <3>1. pc \notin Preparations
      BY <2>1 DEF Preparations
    <3> QED BY <1>2, <3>1 DEF ClickInv, PreparedOnce
  <2>9. PreparedOnce'
    <3>1. phases'.attempts \in 0 .. 2 /\ phases'.attempts <= 1
      BY <2>5, <2>8 DEF ClickPhases
    <3>2. (IF phases'.recovered THEN 1 ELSE 0) = 1 /\ (IF pc' \in Preparations THEN 0 ELSE 1) \in 0 .. 1
      BY <2>5
    <3> QED BY <2>6, <3>1, <3>2 DEF PreparedOnce
  <2>10. InputIsSeen' /\ OneClick'
    BY <1>2, <2>1, <2>2, <2>4, <2>6 DEF ClickInv, InputIsSeen, OneClick
  <2> QED BY <2>7, <2>9, <2>10 DEF ClickInv
<1>3. ASSUME ClickInv, Click!Reconcile PROVE ClickInv'
  <2>1. pc \in Told /\ report \in Answers /\ Click!Concluded \in PhaseStates
    BY <1>a, <1>3, ClickConcluded DEF Click!Reconcile, Click!At, ClickInv, ClickTyped
  <2>2. /\ [report EXCEPT !.error = "none", !.click = IF @ = "no" THEN "unknown" ELSE @] \in Answers
        /\ [report EXCEPT !.error = "none", !.click = IF @ = "no" THEN "unknown" ELSE @].click = "yes" => report.click = "yes"
    <3>1. "none" \in Errors /\ (IF report.click = "no" THEN "unknown" ELSE report.click) \in Evidence
      BY <2>1 DEF Errors, Evidence, Answers
    <3> QED BY <2>1, <3>1 DEF Answers
  <2> QED BY <1>3, <2>1, <2>2, ClickFinishes DEF Click!Reconcile, Click!Finish
<1>4. ASSUME ClickInv, Click!Verify PROVE ClickInv'
  <2>1. pc \in Told /\ report \in Answers /\ "dispatched" \in PhaseStates
    BY <1>a, <1>4 DEF Click!Verify, Click!At, ClickInv, ClickTyped, PhaseStates
  <2>2. /\ [report EXCEPT !.error = "postcondition"] \in Answers
        /\ [report EXCEPT !.error = "postcondition"].click = report.click
    <3>1. "postcondition" \in Errors
      BY DEF Errors
    <3> QED BY <2>1, <3>1 DEF Answers
  <2> QED BY <1>4, <2>1, <2>2, ClickFinishes DEF Click!Verify, Click!Finish
<1> QED BY <1>1, <1>2, <1>3, <1>4

LEMMA ClickNext == ClickInv /\ [Click!Next]_(Click!vars) => ClickInv'
<1> SUFFICES ASSUME ClickInv, [Click!Next]_(Click!vars) PROVE ClickInv'
  OBVIOUS
<1>1. CASE UNCHANGED Click!vars
  BY <1>1 DEF Click!vars, ClickInv, ClickTyped, PreparedOnce, InputIsSeen, OneClick
<1>2. CASE Click!Next
  BY <1>2, ClickPreparations, ClickInstalls, ClickChecks, ClickReads, ClickAttempts, ClickEnds, ClickPage DEF Click!Next
<1> QED BY <1>1, <1>2

LEMMA ClickSafe == ClickInv => Click!TypeOK /\ Click!ReportedClickIsReal /\ Click!NoReplay
<1> SUFFICES ASSUME ClickInv PROVE Click!TypeOK /\ Click!ReportedClickIsReal /\ Click!NoReplay
  OBVIOUS
<1>1. Click!TypeOK
  <2>1. PhaseNames = {Click!Order[i] : i \in DOMAIN Click!Order}
    <3>1. DOMAIN Click!Order = 1 .. 7 /\ 1 .. 7 = {1, 2, 3, 4, 5, 6, 7}
      BY DEF Click!Order
    <3>2. /\ Click!Order[1] = "observe" /\ Click!Order[2] = "plan" /\ Click!Order[3] = "preflight"
          /\ Click!Order[4] = "prepare" /\ Click!Order[5] = "dispatch" /\ Click!Order[6] = "reconcile"
          /\ Click!Order[7] = "finalize"
      BY DEF Click!Order
    <3> QED BY <3>1, <3>2 DEF PhaseNames
  <2>2. phases \in ClickPhases
    BY DEF ClickInv, ClickTyped
  <2>3. /\ held = None \/ held \in [node : 0 .. 1, state : Click!TargetStates, keyboard : BOOLEAN]
        /\ probe \in Click!Seen /\ dispatch.tried \subseteq Click!Input
        /\ real \in [touched : BOOLEAN, clicks : 0 .. 2, late : BOOLEAN]
    BY DEF ClickInv, ClickTyped, Holds
  <2>4. report = None \/ Click!At("done") \/ Click!At("failed") \/ Click!At("verify")
    BY DEF ClickInv, ClickTyped, Click!At, Told
  <2> QED BY <2>1, <2>2, <2>3, <2>4 DEF Click!TypeOK, ClickPhases, PhaseStates
<1>2. Click!ReportedClickIsReal
  BY DEF ClickInv, OneClick, Click!ReportedClickIsReal, Click!At, Told
<1>3. Click!NoReplay
  BY DEF ClickInv, InputIsSeen, Click!NoReplay, Click!Attempt, Click!At, BeforeInput
<1> QED BY <1>1, <1>2, <1>3

-----------------------------------------------------------------------------
\* An inspection of a popup (ControlPopup).
\* What it and its parts are made of; None and the word for the requested control
\* are no controls.
InspectionStages == {"resolve", "associate", "prepare", "escape", "escaped", "prepared", "already", "baseline",
                     "reveal", "reconcile", "revealed", "collect"}
Proofs == {"none", "structural", "agent_declared", "owner", "post_dispatch_unique"}
Verdicts == {"yes", "no", "unknown"}
Declarable == {None, "requested"} \cup Controls
Owning == {None} \cup Controls
PopupPages == [doc : Nat, here : SUBSET Controls, shown : SUBSET Surfaces, focus : Owning, expanded : SUBSET Controls]
Inspectings ==
    [pc : InspectionStages, doc : Nat, control : Controls, asked : Controls, reveal : BOOLEAN, declared : Declarable,
     prepared : Verdicts, opened : Verdicts, base : SUBSET Surfaces, zero : BOOLEAN, failed : BOOLEAN,
     surfaces : SUBSET Surfaces, proof : Proofs, recovered : BOOLEAN, escaping : SUBSET Surfaces, source : Owning,
     inputs : Seq({"escape", "open"})]
Deciding == [id : Nat, doc : Nat, control : Controls, owner : Controls]
PopupConstants ==
    /\ IsFiniteSet(Controls) /\ Inspections \in Nat
    /\ None \notin Controls \cup Inspectings /\ "requested" \notin Controls

PopupTyped ==
    /\ page \in PopupPages /\ doing \in {None} \cup Inspectings
    /\ decisions \subseteq Deciding /\ issued \in Nat /\ used \subseteq 1 .. issued
    /\ calls \in Nat /\ calls <= Inspections

\* The inputs of an inspection are those of the stages it has been through; a popup
\* proven by nothing else came after the opener, onto a page that had none.
Opening == {<<"open">>, <<"escape", "open">>}
Escaping == {<<>>, <<"escape">>}
Quiet == {"resolve", "associate"}
Unescaped == Quiet \cup {"prepare", "escape", "already"}
Unopened == Unescaped \cup {"escaped", "prepared", "baseline", "reveal"}
ByOpener(surfaces, base, inputs) == surfaces \cap base = {} /\ inputs \in Opening
IsInspecting(f, doc) ==
    /\ f.doc <= doc
    /\ ~f.reveal \/ f.declared # None => f.pc \in Quiet \cup {"collect"} /\ f.inputs = <<>>
    /\ f.pc \in Unescaped => f.inputs = <<>>
    /\ f.pc \in Unopened => f.inputs \in Escaping /\ f.opened = "no"
    /\ f.inputs \in Escaping \cup Opening
    /\ f.opened # "no" => f.inputs \in Opening
    /\ f.zero => f.base = {}
    /\ f.pc = "collect" /\ f.proof = "post_dispatch_unique" => ByOpener(f.surfaces, f.base, f.inputs)
\* A candidate was issued for the document that is shown or one before, and not used.
CandidatesAreFresh == \A d \in decisions : d.id \in 1 .. issued /\ d.id \notin used /\ d.doc <= page.doc
RetainedIsHere == retained # None =>
    /\ retained.doc = page.doc /\ retained.surfaces \in SUBSET Surfaces
    /\ retained.proof = "post_dispatch_unique" => ByOpener(retained.surfaces, retained.base, retained.inputs)
PopupInv ==
    /\ PopupTyped /\ CandidatesAreFresh /\ RetainedIsHere
    /\ doing # None => IsInspecting(doing, page.doc)

LEMMA PopupInit == PopupConstants /\ Popup!Init => PopupInv
<1> SUFFICES ASSUME PopupConstants, Popup!Init PROVE PopupInv
  OBVIOUS
<1>1. page \in PopupPages
  BY DEF Popup!Init, PopupPages, Owning
<1> QED BY <1>1 DEF Popup!Init, PopupInv, PopupTyped, CandidatesAreFresh, RetainedIsHere, PopupConstants

\* Sets are counted by the definition of FiniteSets, and put in order one by one.
LEMMA PopupCounts == \A S : Popup!Cardinality(S) = Cardinality(S)
BY Zenon DEF Popup!Cardinality, Cardinality
LEMMA PopupOrders == ASSUME NEW S, IsFiniteSet(S)
    PROVE  /\ Popup!SetToSeq(S) \in [1 .. Cardinality(S) -> S]
           /\ Len(Popup!SetToSeq(S)) = Cardinality(S) /\ Cardinality(S) \in Nat
<1>1. Cardinality(S) \in Nat /\ ExistsBijection(1 .. Cardinality(S), S)
  BY FS_CardinalityType
<1>2. PICK f \in Bijection(1 .. Cardinality(S), S) : TRUE
  BY <1>1 DEF ExistsBijection
<1>3. f \in [1 .. Cardinality(S) -> S] /\ Popup!IsInjective(f)
  BY <1>2 DEF Bijection, Injection, IsInjective, Popup!IsInjective
<1>4. Popup!SetToSeq(S) \in [1 .. Cardinality(S) -> S]
  BY <1>3, PopupCounts, Zenon DEF Popup!SetToSeq
<1>5. \A s \in [1 .. Cardinality(S) -> S] : Len(s) = Cardinality(S)
  BY <1>1
<1> QED BY <1>1, <1>4, <1>5

\* Whose popup it is: a control or nobody, out of a pool of controls on the page.
LEMMA PopupPool == ASSUME page \in PopupPages, NEW S PROVE Popup!Pool(S) \in SUBSET Controls
<1>1. page.here \subseteq Controls /\ page.expanded \subseteq Controls
  BY DEF PopupPages
<1>2. Popup!Structural(S) \subseteq Controls /\ Popup!Near(S) \subseteq Controls
  <2>1. \A X : X \cap page.here \subseteq Controls
    BY <1>1
  <2> QED BY <2>1, Zenon DEF Popup!Structural, Popup!Near
<1>3. Popup!Focused(S) \subseteq Controls /\ Popup!Expanded(S) \subseteq Controls
  BY <1>1, <1>2 DEF Popup!Focused, Popup!Expanded
<1>4. \/ Popup!Pool(S) = Popup!Structural(S) \/ Popup!Pool(S) = Popup!Focused(S)
      \/ Popup!Pool(S) = Popup!Expanded(S) \/ Popup!Pool(S) = Popup!Near(S)
  BY Zenon DEF Popup!Pool
<1> QED BY <1>2, <1>3, <1>4
LEMMA PopupOwner ==
    ASSUME page \in PopupPages, NEW S, NEW t \in Controls, None \notin Controls
    PROVE  Popup!Owner(S, t).owner \in Owning /\ Popup!Owner(S, t).pool \in SUBSET Controls
<1> DEFINE pool == Popup!Pool(S)
           chosen == Popup!Positional(pool, Popup!Structural(S) # {}, Popup!Closest(S))
<1>1. pool \in SUBSET Controls
  BY PopupPool
<1>2. chosen \in Owning
  <2>1. Popup!Cardinality(pool) = 1 => pool # {}
    BY PopupCounts, FS_EmptySet
  <2>2. Popup!Cardinality(pool) = 1 => (CHOOSE c \in pool : TRUE) \in pool
    BY <2>1
  <2> QED BY <1>1, <2>2 DEF Popup!Positional, Owning
<1> HIDE DEF pool, chosen
<1>3. ASSUME NEW first, NEW contested
      PROVE  /\ Popup!Judged(t, first, pool, chosen, contested).owner \in Owning
             /\ Popup!Judged(t, first, pool, chosen, contested).pool \in SUBSET Controls
  BY <1>1, <1>2 DEF Popup!Judged, Popup!Ownership, Owning
<1> QED BY <1>3 DEF Popup!Owner, pool, chosen

\* What is taken for the popup is on screen, by its coming alone only after an input.
PopupTaken(a, causal) ==
    /\ a.surfaces \in SUBSET Surfaces /\ a.proof \in Proofs /\ a.pool \in SUBSET Controls
    /\ a.proof = "post_dispatch_unique" => causal
LEMMA PopupChosen ==
    ASSUME page \in PopupPages, NEW t, NEW declared, NEW causal \in BOOLEAN, NEW owner,
           NEW set, set.pool \in SUBSET Controls, NEW direct \in SUBSET Surfaces
    PROVE  PopupTaken(Popup!Associated(t, declared, causal, owner, set, direct), causal)
<1> DEFINE roots == Popup!PopupRoots
           own == {s \in roots : owner[s].kind = "resolved" /\ owner[s].owner = t}
           whole == Popup!Cardinality(roots) > 1 /\ world.joined /\ (own = {} \/ declared # None)
           single == Popup!Cardinality(roots) = 1 /\ set.kind = "ambiguous"
           bindable == (whole /\ (set.kind = "ambiguous" \/ (set.kind = "resolved" /\ declared # None))) \/ single
           mine == IF whole /\ set.kind = "resolved" /\ set.owner = t THEN roots ELSE own
           veto == (whole /\ set.veto) \/ \E s \in roots : owner[s].veto
           unsure == (\E s \in roots : owner[s].kind = "ambiguous") \/ (whole /\ set.kind = "ambiguous")
           judged == IF bindable THEN set.pool ELSE {}
           a == Popup!Associated(t, declared, causal, owner, set, direct)
<1>1. a = IF t \notin page.here THEN Popup!Unresolved("missing", {}, FALSE)
          ELSE IF direct # {} THEN Popup!Resolved(direct, "structural")
          ELSE IF bindable /\ Popup!Declared(declared, t, set.pool) THEN Popup!Resolved(roots, "agent_declared")
          ELSE IF mine # {} THEN Popup!Resolved(mine, "owner")
          ELSE IF causal /\ ~veto /\ Popup!OneSet THEN Popup!Resolved(roots, "post_dispatch_unique")
          ELSE IF unsure THEN Popup!Unresolved("ambiguous", judged, bindable)
          ELSE Popup!Unresolved("missing", {}, FALSE)
  BY Zenon DEF Popup!Associated
<1>2. roots \in SUBSET Surfaces
  BY DEF Popup!PopupRoots, PopupPages
<1>3. mine \in SUBSET Surfaces /\ judged \in SUBSET Controls
  BY <1>2
<1>4. \A pool \in SUBSET Controls : \A kind, judge : PopupTaken(Popup!Unresolved(kind, pool, judge), causal)
  BY DEF PopupTaken, Popup!Unresolved, Proofs
<1>5. \A S \in SUBSET Surfaces, proof \in Proofs :
        (proof = "post_dispatch_unique" => causal) => PopupTaken(Popup!Resolved(S, proof), causal)
  BY DEF PopupTaken, Popup!Resolved
<1>6. /\ "structural" \in Proofs /\ "agent_declared" \in Proofs /\ "owner" \in Proofs
      /\ "post_dispatch_unique" \in Proofs
  BY DEF Proofs
<1> HIDE DEF roots, own, whole, single, bindable, mine, veto, unsure, judged, a
<1>7. PopupTaken(Popup!Unresolved("missing", {}, FALSE), causal) /\ PopupTaken(Popup!Unresolved("ambiguous", judged, bindable), causal)
  BY <1>3, <1>4
<1>8. /\ PopupTaken(Popup!Resolved(direct, "structural"), causal) /\ PopupTaken(Popup!Resolved(roots, "agent_declared"), causal)
      /\ PopupTaken(Popup!Resolved(mine, "owner"), causal)
  BY <1>2, <1>3, <1>5, <1>6
<1>9. causal => PopupTaken(Popup!Resolved(roots, "post_dispatch_unique"), causal)
  BY <1>2, <1>5, <1>6
<1>10. PopupTaken(a, causal)
  BY <1>1, <1>7, <1>8, <1>9, Zenon
<1> QED BY <1>10 DEF a
LEMMA PopupAssociated ==
    ASSUME page \in PopupPages, NEW t \in Controls, NEW declared, NEW causal \in BOOLEAN, None \notin Controls
    PROVE  PopupTaken(Popup!Association(t, declared, causal), causal)
<1> DEFINE owner == [s \in Popup!PopupRoots |-> Popup!Owner({s}, t)]
           set == Popup!Owner(Popup!PopupRoots, t)
           direct == {s \in Popup!PopupRoots : t \in Popup!Structural({s})}
<1>1. direct \in SUBSET Surfaces
  BY DEF Popup!PopupRoots, PopupPages
<1>2. set.pool \in SUBSET Controls
  BY PopupOwner
<1> HIDE DEF owner, set, direct
<1>3. PopupTaken(Popup!Associated(t, declared, causal, owner, set, direct), causal)
  BY <1>1, <1>2, PopupChosen
<1> QED BY <1>3 DEF Popup!Association, owner, set, direct

\* What an inspection that is under way is, and what it is after it went on or ended.
LEMMA PopupFacts ==
    ASSUME PopupInv, doing # None
    PROVE  /\ doing \in Inspectings /\ page \in PopupPages /\ IsInspecting(doing, page.doc)
           /\ doing.doc \in Nat /\ page.doc \in Nat
BY DEF PopupInv, PopupTyped, Inspectings, PopupPages
LEMMA PopupGoesOn ==
    ASSUME PopupInv, doing # None, NEW f \in Inspectings, Popup!Step(f), IsInspecting(f, page.doc),
           page' \in PopupPages, page'.doc = page.doc, UNCHANGED <<retained, decisions, issued, used, calls>>
    PROVE  PopupInv'
<1>1. PopupTyped'
  BY DEF PopupInv, PopupTyped, Popup!Step
<1>2. CandidatesAreFresh' /\ RetainedIsHere'
  BY DEF PopupInv, CandidatesAreFresh, RetainedIsHere
<1>3. IsInspecting(doing', page'.doc)
  BY DEF Popup!Step
<1> QED BY <1>1, <1>2, <1>3 DEF PopupInv
LEMMA PopupFails == \A told, error : Popup!Fail(told, error) \/ Popup!Answer(told, error) => doing' = None
BY DEF Popup!Fail, Popup!Answer
LEMMA PopupEnds ==
    ASSUME PopupInv, doing' = None, UNCHANGED <<page, retained, decisions, issued, used, calls>>
    PROVE  PopupInv'
BY DEF PopupInv, PopupTyped, CandidatesAreFresh, RetainedIsHere
LEMMA PopupIssues ==
    ASSUME PopupConstants, PopupInv, doing # None, NEW pool \in SUBSET Controls, NEW control \in Controls, NEW eligible,
           Popup!Issue(pool, control, eligible), doing' = None, UNCHANGED <<page, used, calls>>
    PROVE  PopupInv'
<1>1. IsFiniteSet(pool)
  BY FS_Subset DEF PopupConstants
<1> DEFINE order == Popup!SetToSeq(pool)
           size == Cardinality(pool)
<1>2. order \in [1 .. size -> pool] /\ Len(order) = size /\ size \in Nat
  BY <1>1, PopupOrders
<1> DEFINE new(i) == [id |-> issued + i, doc |-> doing.doc, control |-> control, owner |-> order[i]]
<1>3. retained' = None
  BY DEF Popup!Issue
<1>4. \/ decisions' = {new(i) : i \in 1 .. Len(order)} /\ issued' = issued + Len(order)
      \/ decisions' = {} /\ issued' = issued
  BY DEF Popup!Issue
<1> HIDE DEF order, size
<1>5. issued \in Nat /\ used \subseteq 1 .. issued /\ doing.doc \in Nat /\ doing.doc <= page.doc
  BY PopupFacts DEF PopupInv, PopupTyped, IsInspecting
<1>6. CASE decisions' = {} /\ issued' = issued
  BY <1>3, <1>6 DEF PopupInv, PopupTyped, CandidatesAreFresh, RetainedIsHere
<1>7. CASE decisions' = {new(i) : i \in 1 .. Len(order)} /\ issued' = issued + Len(order)
  <2>1. \A i \in 1 .. size : /\ new(i) \in Deciding /\ new(i).id \in 1 .. issued' /\ new(i).id \notin used
                             /\ new(i).doc <= page.doc
    <3>1. \A i \in 1 .. size : order[i] \in Controls
      BY <1>2
    <3>2. \A i \in 1 .. size : issued + i \in 1 .. issued' /\ issued + i \notin used /\ issued + i \in Nat
      BY <1>2, <1>5, <1>7
    <3> QED BY <1>5, <3>1, <3>2 DEF Deciding
  <2> HIDE DEF new
  <2>2. decisions' \subseteq Deciding /\ issued' \in Nat /\ used' \subseteq 1 .. issued'
    BY <1>2, <1>5, <1>7, <2>1
  <2>3. CandidatesAreFresh'
    BY <1>2, <1>7, <2>1 DEF CandidatesAreFresh
  <2>4. PopupTyped'
    BY <2>2 DEF PopupInv, PopupTyped
  <2> QED BY <1>3, <2>3, <2>4 DEF PopupInv, RetainedIsHere
<1> QED BY <1>4, <1>6, <1>7

\* Step by step.
LEMMA PopupBegin == ASSUME PopupConstants, PopupInv, Popup!Begin PROVE PopupInv'
<1> PICK control \in Controls, reveal \in BOOLEAN :
        \/ /\ \E declared \in {None, "requested"} : doing' = Popup!Inspection(control, reveal, declared)
           /\ UNCHANGED <<decisions, used>>
        \/ \E id \in 1 .. issued :
            LET d == {x \in decisions : x.id = id /\ x.doc = page.doc /\ x.control = control} IN
            /\ decisions' = Popup!Spent(id)
            /\ IF d # {} THEN /\ doing' = Popup!Inspection(control, reveal, (CHOOSE x \in d : TRUE).owner)
                              /\ used' = used \cup {id}
               ELSE UNCHANGED <<doing, used>>
  BY DEF Popup!Begin
<1>1. /\ doing = None /\ calls' = calls + 1 /\ calls < Inspections /\ UNCHANGED <<world, page, retained, issued, changes>>
  BY DEF Popup!Begin
<1>2. page \in PopupPages /\ page.doc \in Nat
  BY DEF PopupInv, PopupTyped, PopupPages
<1>3. ASSUME NEW declared \in Declarable
      PROVE  /\ Popup!Inspection(control, reveal, declared) \in Inspectings
             /\ IsInspecting(Popup!Inspection(control, reveal, declared), page.doc)
  <2> DEFINE f == Popup!Inspection(control, reveal, declared)
  <2>1. f \in Inspectings
    BY <1>2 DEF Popup!Inspection, Inspectings, InspectionStages, Verdicts, Owning, Proofs
  <2>2. IsInspecting(f, page.doc)
    BY <1>2 DEF Popup!Inspection, IsInspecting, Quiet, Unescaped, Unopened, Escaping
  <2> QED BY <2>1, <2>2
<1>4. calls' \in Nat /\ calls' <= Inspections
  BY <1>1 DEF PopupInv, PopupTyped, PopupConstants
<1>5. CASE /\ \E declared \in {None, "requested"} : doing' = Popup!Inspection(control, reveal, declared)
           /\ UNCHANGED <<decisions, used>>
  <2> PICK declared \in {None, "requested"} : doing' = Popup!Inspection(control, reveal, declared)
    BY <1>5
  <2>1. doing' \in Inspectings /\ IsInspecting(doing', page.doc)
    BY <1>3 DEF Declarable
  <2> QED BY <1>1, <1>4, <1>5, <2>1 DEF PopupInv, PopupTyped, CandidatesAreFresh, RetainedIsHere
<1>6. ASSUME NEW id \in 1 .. issued, decisions' = {},
             LET d == {x \in decisions : x.id = id /\ x.doc = page.doc /\ x.control = control} IN
             IF d # {} THEN /\ doing' = Popup!Inspection(control, reveal, (CHOOSE x \in d : TRUE).owner)
                            /\ used' = used \cup {id}
             ELSE UNCHANGED <<doing, used>>
      PROVE  PopupInv'
  <2> DEFINE d == {x \in decisions : x.id = id /\ x.doc = page.doc /\ x.control = control}
             x == CHOOSE y \in d : TRUE
  <2>1. CASE d # {}
    <3>1. x \in d /\ d \subseteq Deciding
      BY <2>1 DEF PopupInv, PopupTyped
    <3>2. x.owner \in Declarable
      BY <3>1 DEF Deciding, Declarable
    <3> HIDE DEF x
    <3>3. doing' = Popup!Inspection(control, reveal, x.owner) /\ used' = used \cup {id}
      BY <1>6, <2>1 DEF x
    <3>4. doing' \in Inspectings /\ IsInspecting(doing', page.doc) /\ used' \subseteq 1 .. issued
      BY <1>3, <3>2, <3>3 DEF PopupInv, PopupTyped
    <3> QED BY <1>1, <1>4, <1>6, <3>4 DEF PopupInv, PopupTyped, CandidatesAreFresh, RetainedIsHere
  <2>2. CASE d = {}
    <3>1. doing' = None /\ used' = used
      BY <1>1, <1>6, <2>2
    <3> QED BY <1>1, <1>4, <1>6, <3>1 DEF PopupInv, PopupTyped, CandidatesAreFresh, RetainedIsHere
  <2> QED BY <2>1, <2>2
<1> QED BY <1>5, <1>6 DEF Popup!Spent

LEMMA PopupResolveTarget == ASSUME PopupConstants, PopupInv, Popup!ResolveTarget PROVE PopupInv'
<1>1. /\ doing # None /\ doing.pc = "resolve" /\ UNCHANGED <<world, page, used, calls, changes>>
  BY DEF Popup!ResolveTarget, Popup!At
<1>2. doing \in Inspectings /\ page \in PopupPages /\ IsInspecting(doing, page.doc) /\ doing.asked \in Controls
  BY <1>1, PopupFacts DEF Inspectings
<1>3. CASE Popup!Step([doing EXCEPT !.pc = "associate"]) /\ UNCHANGED <<retained, decisions, issued>>
  <2> DEFINE f == [doing EXCEPT !.pc = "associate"]
  <2>1. f \in Inspectings
    BY <1>2 DEF Inspectings, InspectionStages
  <2>2. IsInspecting(f, page.doc)
    BY <1>1, <1>2 DEF Inspectings, IsInspecting, Quiet, Unescaped, Unopened, Escaping
  <2> QED BY <1>1, <1>2, <1>3, <2>1, <2>2, PopupGoesOn
<1>4. CASE /\ doing.declared \in page.here
           /\ Popup!Step([doing EXCEPT !.pc = "associate", !.control = doing.declared, !.recovered = TRUE])
           /\ UNCHANGED <<retained, decisions, issued>>
  <2> DEFINE f == [doing EXCEPT !.pc = "associate", !.control = doing.declared, !.recovered = TRUE]
  <2>1. doing.declared \in Controls
    BY <1>2, <1>4 DEF PopupPages
  <2>2. f \in Inspectings
    BY <1>2, <2>1 DEF Inspectings, InspectionStages
  <2>3. IsInspecting(f, page.doc)
    BY <1>1, <1>2, <2>1 DEF Inspectings, IsInspecting, Quiet, Unescaped, Unopened, Escaping
  <2> QED BY <1>1, <1>2, <1>4, <2>2, <2>3, PopupGoesOn
<1>5. CASE /\ Popup!Answer("no", "control_not_found")
           /\ \/ Popup!Issue(Popup!Pool(Popup!PopupRoots), doing.asked, Popup!Pool(Popup!PopupRoots) # {})
              \/ UNCHANGED <<retained, decisions, issued>>
  <2>1. doing' = None
    BY <1>5, PopupFails
  <2>2. Popup!Pool(Popup!PopupRoots) \in SUBSET Controls
    BY <1>2, PopupPool
  <2> QED BY <1>1, <1>2, <1>5, <2>1, <2>2, PopupIssues, PopupEnds
<1> QED BY <1>3, <1>4, <1>5 DEF Popup!ResolveTarget

\* An ambiguous popup leaves its candidates, or nothing.
LEMMA PopupAmbiguous ==
    ASSUME PopupConstants, PopupInv, doing # None, doing.asked \in Controls, NEW a, a.pool \in SUBSET Controls,
           NEW told, Popup!Ambiguous(a, told), doing' = None, UNCHANGED <<page, used, calls>>
    PROVE  PopupInv'
<1>1. CASE Popup!Issue(a.pool, doing.asked, a.judge)
  BY <1>1, PopupIssues
<1>2. CASE Popup!Issue({}, doing.asked, FALSE)
  <2>1. {} \in SUBSET Controls
    OBVIOUS
  <2> QED BY <1>2, <2>1, PopupIssues
<1> QED BY <1>1, <1>2 DEF Popup!Ambiguous

LEMMA PopupAssociate == ASSUME PopupConstants, PopupInv, Popup!Associate PROVE PopupInv'
<1>1. /\ doing # None /\ doing.pc = "associate" /\ UNCHANGED <<world, page, used, calls, changes>>
  BY DEF Popup!Associate, Popup!At
<1>2. /\ doing \in Inspectings /\ page \in PopupPages /\ IsInspecting(doing, page.doc)
      /\ doing.asked \in Controls /\ doing.control \in Controls
  BY <1>1, PopupFacts DEF Inspectings
<1> DEFINE a == Popup!Association(doing.control, doing.declared, FALSE)
           proof == IF doing.recovered THEN "agent_declared" ELSE a.proof
           got == [doing EXCEPT !.surfaces = a.surfaces, !.proof = proof]
<1>3. PopupTaken(a, FALSE)
  BY <1>2, PopupAssociated DEF PopupConstants
<1>4. \/ /\ Popup!Fail("no", "ambiguous_control_popup") /\ Popup!Ambiguous(a, "no")
      \/ /\ UNCHANGED <<retained, decisions, issued>>
         /\ \/ Popup!Fail("no", "popup_owner_candidate_surface_changed")
            \/ Popup!Step([got EXCEPT !.pc = "collect"])
            \/ ~Popup!Passive /\ Popup!Step([got EXCEPT !.pc = "prepare"])
  BY DEF Popup!Associate
<1> HIDE DEF a
<1>5. a.surfaces \in SUBSET Surfaces /\ a.pool \in SUBSET Controls
  BY <1>3 DEF PopupTaken
<1>6. proof \in Proofs /\ proof # "post_dispatch_unique"
  BY <1>3 DEF PopupTaken, Proofs
<1> HIDE DEF proof
<1>7. CASE Popup!Fail("no", "ambiguous_control_popup") /\ Popup!Ambiguous(a, "no")
  BY <1>1, <1>2, <1>5, <1>7, PopupFails, PopupAmbiguous
<1>8. ASSUME NEW stage \in {"prepare", "collect"}, stage = "prepare" => ~Popup!Passive,
             Popup!Step([got EXCEPT !.pc = stage]), UNCHANGED <<retained, decisions, issued>>
      PROVE  PopupInv'
  <2> DEFINE f == [got EXCEPT !.pc = stage]
  <2>1. got \in Inspectings
    BY <1>2, <1>5, <1>6 DEF Inspectings
  <2>2. /\ got.inputs = doing.inputs /\ got.opened = doing.opened /\ got.zero = doing.zero /\ got.base = doing.base
        /\ got.doc = doing.doc /\ got.reveal = doing.reveal /\ got.declared = doing.declared /\ got.proof = proof
    BY <1>2 DEF Inspectings
  <2> HIDE DEF got
  <2>3. f \in Inspectings
    BY <2>1 DEF Inspectings, InspectionStages
  <2>4. /\ f.inputs = doing.inputs /\ f.opened = doing.opened /\ f.zero = doing.zero /\ f.base = doing.base /\ f.pc = stage
        /\ f.doc = doing.doc /\ f.reveal = doing.reveal /\ f.declared = doing.declared /\ f.proof = proof
    BY <2>1, <2>2 DEF Inspectings
  <2> HIDE DEF f
  <2>5. stage = "prepare" => f.reveal /\ f.declared = None
    BY <1>8, <2>4 DEF Popup!Passive
  <2>6. IsInspecting(f, page.doc)
    BY <1>1, <1>2, <1>6, <2>4, <2>5 DEF IsInspecting, Quiet, Unescaped, Unopened
  <2> QED BY <1>1, <1>2, <1>8, <2>3, <2>6, PopupGoesOn DEF f
<1>9. CASE UNCHANGED <<retained, decisions, issued>> /\ Popup!Fail("no", "popup_owner_candidate_surface_changed")
  BY <1>1, <1>9, PopupFails, PopupEnds
<1> QED BY <1>4, <1>7, <1>8, <1>9

LEMMA PopupPrepare == ASSUME PopupConstants, PopupInv, Popup!Prepare PROVE PopupInv'
<1>1. /\ doing # None /\ doing.pc = "prepare"
      /\ UNCHANGED <<world, page, retained, decisions, issued, used, calls, changes>>
  BY DEF Popup!Prepare, Popup!At, Popup!Quiet
<1>2. doing \in Inspectings /\ page \in PopupPages /\ IsInspecting(doing, page.doc) /\ doing.control \in Controls
  BY <1>1, PopupFacts DEF Inspectings
<1> DEFINE owners == {Popup!Owner({s}, doing.control) : s \in Popup!PopupRoots}
           source == (CHOOSE o \in owners : TRUE).owner
<1>3. Popup!PopupRoots # {} => source \in Owning
  <2>1. \A o \in owners : o.owner \in Owning
    BY <1>2, PopupOwner DEF PopupConstants
  <2>2. Popup!PopupRoots # {} => owners # {}
    OBVIOUS
  <2> HIDE DEF owners
  <2> QED BY <2>1, <2>2
<1>4. \/ Popup!Step([doing EXCEPT !.pc = "prepared"]) \/ Popup!Step([doing EXCEPT !.pc = "already"])
      \/ Popup!Fail("no", "competing_popup_owners")
      \/ /\ Popup!PopupRoots # {}
         /\ Popup!Step([doing EXCEPT !.pc = "escape", !.escaping = Popup!PopupRoots, !.source = source])
  BY DEF Popup!Prepare
<1> HIDE DEF owners, source
<1>5. Popup!PopupRoots \in SUBSET Surfaces
  BY <1>2 DEF Popup!PopupRoots, PopupPages
<1>6. ASSUME NEW stage \in {"prepared", "already"}, Popup!Step([doing EXCEPT !.pc = stage]) PROVE PopupInv'
  <2> DEFINE f == [doing EXCEPT !.pc = stage]
  <2>1. f \in Inspectings
    BY <1>2 DEF Inspectings, InspectionStages
  <2>2. IsInspecting(f, page.doc)
    BY <1>1, <1>2 DEF Inspectings, IsInspecting, Quiet, Unescaped, Unopened, Escaping
  <2> QED BY <1>1, <1>2, <1>6, <2>1, <2>2, PopupGoesOn
<1>7. CASE /\ Popup!PopupRoots # {}
           /\ Popup!Step([doing EXCEPT !.pc = "escape", !.escaping = Popup!PopupRoots, !.source = source])
  <2> DEFINE f == [doing EXCEPT !.pc = "escape", !.escaping = Popup!PopupRoots, !.source = source]
  <2>1. f \in Inspectings
    BY <1>2, <1>3, <1>5, <1>7 DEF Inspectings, InspectionStages
  <2>2. IsInspecting(f, page.doc)
    BY <1>1, <1>2 DEF Inspectings, IsInspecting, Quiet, Unescaped, Unopened, Escaping
  <2> QED BY <1>1, <1>2, <1>7, <2>1, <2>2, PopupGoesOn
<1>8. CASE Popup!Fail("no", "competing_popup_owners")
  BY <1>1, <1>8, PopupFails, PopupEnds
<1> QED BY <1>4, <1>6, <1>7, <1>8

LEMMA PopupPressEscape == ASSUME PopupConstants, PopupInv, Popup!PressEscape PROVE PopupInv'
<1>1. /\ doing # None /\ doing.pc = "escape" /\ UNCHANGED <<world, retained, decisions, issued, used, calls, changes>>
  BY DEF Popup!PressEscape, Popup!At
<1>2. /\ doing \in Inspectings /\ page \in PopupPages /\ IsInspecting(doing, page.doc)
      /\ doing.inputs = <<>> /\ doing.opened = "no"
  BY <1>1, PopupFacts DEF IsInspecting, Unescaped, Unopened
<1>3. ASSUME NEW f \in Inspectings, f.pc \in {"escaped", "prepared"}, f.inputs \in Escaping, Popup!Step(f),
             /\ f.doc = doing.doc /\ f.reveal = doing.reveal /\ f.declared = doing.declared /\ f.opened = "no"
             /\ f.zero = doing.zero /\ f.base = doing.base,
             page' \in PopupPages, page'.doc = page.doc
      PROVE  PopupInv'
  <2>1. IsInspecting(f, page.doc)
    BY <1>1, <1>2, <1>3 DEF IsInspecting, Quiet, Unescaped, Unopened
  <2> QED BY <1>1, <1>2, <1>3, <2>1, PopupGoesOn
<1>4. CASE Popup!Step([doing EXCEPT !.pc = "prepared"]) /\ UNCHANGED page
  <2> DEFINE f == [doing EXCEPT !.pc = "prepared"]
  <2>1. f \in Inspectings /\ f.pc = "prepared" /\ f.inputs = <<>> /\ f.opened = "no"
    BY <1>2 DEF Inspectings, InspectionStages
  <2>2. /\ f.doc = doing.doc /\ f.reveal = doing.reveal /\ f.declared = doing.declared
        /\ f.zero = doing.zero /\ f.base = doing.base
    BY <1>2 DEF Inspectings
  <2> HIDE DEF f
  <2> QED BY <1>2, <1>3, <1>4, <2>1, <2>2 DEF Escaping, f
<1>5. CASE Popup!Step([doing EXCEPT !.pc = "escaped", !.prepared = "no"]) /\ UNCHANGED page
  <2> DEFINE f == [doing EXCEPT !.pc = "escaped", !.prepared = "no"]
  <2>1. f \in Inspectings /\ f.pc = "escaped" /\ f.inputs = <<>> /\ f.opened = "no"
    BY <1>2 DEF Inspectings, InspectionStages, Verdicts
  <2>2. /\ f.doc = doing.doc /\ f.reveal = doing.reveal /\ f.declared = doing.declared
        /\ f.zero = doing.zero /\ f.base = doing.base
    BY <1>2 DEF Inspectings
  <2> HIDE DEF f
  <2> QED BY <1>2, <1>3, <1>5, <2>1, <2>2 DEF Escaping, f
<1>6. ASSUME NEW told \in {"yes", "unknown"}, NEW closed \in BOOLEAN,
             Popup!Step([doing EXCEPT !.pc = "escaped", !.prepared = told, !.inputs = Append(@, "escape")]),
             page' = [page EXCEPT !.shown = IF closed THEN @ \ doing.escaping ELSE @]
      PROVE  PopupInv'
  <2> DEFINE f == [doing EXCEPT !.pc = "escaped", !.prepared = told, !.inputs = Append(@, "escape")]
  <2>1. page' \in PopupPages /\ page'.doc = page.doc
    BY <1>2, <1>6 DEF PopupPages
  <2>2. Append(doing.inputs, "escape") = <<"escape">> /\ <<"escape">> \in Seq({"escape", "open"})
    BY <1>2
  <2>3. f \in Inspectings /\ f.pc = "escaped" /\ f.inputs = <<"escape">> /\ f.opened = "no"
    BY <1>2, <2>2 DEF Inspectings, InspectionStages, Verdicts
  <2>4. /\ f.doc = doing.doc /\ f.reveal = doing.reveal /\ f.declared = doing.declared
        /\ f.zero = doing.zero /\ f.base = doing.base
    BY <1>2 DEF Inspectings
  <2>5. Popup!Step(f)
    BY <1>6
  <2> HIDE DEF f
  <2> QED BY <1>3, <2>1, <2>3, <2>4, <2>5 DEF Escaping
<1>7. CASE Popup!Fail("no", "competing_popup_owner_not_actionable") /\ UNCHANGED page
  BY <1>1, <1>7, PopupFails, PopupEnds
<1> QED BY <1>4, <1>5, <1>6, <1>7 DEF Popup!PressEscape

LEMMA PopupEscapeReconciled == ASSUME PopupConstants, PopupInv, Popup!EscapeReconciled PROVE PopupInv'
<1>1. /\ doing # None /\ doing.pc = "escaped"
      /\ UNCHANGED <<world, page, retained, decisions, issued, used, calls, changes>>
  BY DEF Popup!EscapeReconciled, Popup!At, Popup!Quiet
<1>2. doing \in Inspectings /\ page \in PopupPages /\ IsInspecting(doing, page.doc)
  BY <1>1, PopupFacts
<1>3. CASE Popup!Step([doing EXCEPT !.pc = "prepared"])
  <2> DEFINE f == [doing EXCEPT !.pc = "prepared"]
  <2>1. f \in Inspectings
    BY <1>2 DEF Inspectings, InspectionStages
  <2>2. IsInspecting(f, page.doc)
    BY <1>1, <1>2 DEF Inspectings, IsInspecting, Quiet, Unescaped, Unopened
  <2> QED BY <1>1, <1>2, <1>3, <2>1, <2>2, PopupGoesOn
<1>4. CASE Popup!Fail(doing.prepared, "competing_popup_remained_open")
  BY <1>1, <1>4, PopupFails, PopupEnds
<1> QED BY <1>3, <1>4 DEF Popup!EscapeReconciled

LEMMA PopupPrepared == ASSUME PopupConstants, PopupInv, Popup!Prepared PROVE PopupInv'
<1>1. /\ doing # None /\ doing.pc \in {"prepared", "already"} /\ UNCHANGED <<world, page, used, calls, changes>>
  BY DEF Popup!Prepared, Popup!At
<1>2. /\ doing \in Inspectings /\ page \in PopupPages /\ IsInspecting(doing, page.doc) /\ doing.asked \in Controls
  BY <1>1, PopupFacts DEF Inspectings
<1> DEFINE a == Popup!Association(doing.asked, doing.declared, FALSE)
<1>3. PopupTaken(a, FALSE)
  BY <1>2, PopupAssociated DEF PopupConstants
<1>4. \/ /\ UNCHANGED <<retained, decisions, issued>>
         /\ \/ Popup!Answer(doing.prepared, "document_changed") \/ Popup!Fail("no", "control_not_found")
            \/ Popup!Fail("no", "control_popup_not_observed")
            \/ doing.pc = "prepared" /\ Popup!Step([doing EXCEPT !.pc = "baseline"])
            \/ /\ doing.pc = "already"
               /\ Popup!Step([doing EXCEPT !.pc = "collect", !.surfaces = a.surfaces, !.proof = a.proof])
      \/ Popup!Fail("no", "ambiguous_control_popup") /\ Popup!Ambiguous(a, "no")
  BY <1>1 DEF Popup!Prepared, Popup!At
<1> HIDE DEF a
<1>5. a.surfaces \in SUBSET Surfaces /\ a.pool \in SUBSET Controls /\ a.proof \in Proofs /\ a.proof # "post_dispatch_unique"
  BY <1>3 DEF PopupTaken
<1>6. CASE /\ UNCHANGED <<retained, decisions, issued>>
           /\ \/ Popup!Answer(doing.prepared, "document_changed") \/ Popup!Fail("no", "control_not_found")
              \/ Popup!Fail("no", "control_popup_not_observed")
  BY <1>1, <1>6, PopupFails, PopupEnds
<1>7. CASE /\ UNCHANGED <<retained, decisions, issued>>
           /\ doing.pc = "prepared" /\ Popup!Step([doing EXCEPT !.pc = "baseline"])
  <2> DEFINE f == [doing EXCEPT !.pc = "baseline"]
  <2>1. f \in Inspectings
    BY <1>2 DEF Inspectings, InspectionStages
  <2>2. IsInspecting(f, page.doc)
    BY <1>2, <1>7 DEF Inspectings, IsInspecting, Quiet, Unescaped, Unopened
  <2> QED BY <1>1, <1>2, <1>7, <2>1, <2>2, PopupGoesOn
<1>8. CASE /\ UNCHANGED <<retained, decisions, issued>> /\ doing.pc = "already"
           /\ Popup!Step([doing EXCEPT !.pc = "collect", !.surfaces = a.surfaces, !.proof = a.proof])
  <2> DEFINE f == [doing EXCEPT !.pc = "collect", !.surfaces = a.surfaces, !.proof = a.proof]
  <2>1. f \in Inspectings
    BY <1>2, <1>5 DEF Inspectings, InspectionStages
  <2>2. IsInspecting(f, page.doc)
    BY <1>2, <1>5, <1>8 DEF Inspectings, IsInspecting, Quiet, Unescaped, Unopened
  <2> QED BY <1>1, <1>2, <1>8, <2>1, <2>2, PopupGoesOn
<1>9. CASE Popup!Fail("no", "ambiguous_control_popup") /\ Popup!Ambiguous(a, "no")
  BY <1>1, <1>2, <1>5, <1>9, PopupFails, PopupAmbiguous
<1> QED BY <1>4, <1>6, <1>7, <1>8, <1>9

LEMMA PopupBaseline == ASSUME PopupConstants, PopupInv, Popup!Baseline PROVE PopupInv'
<1>1. /\ doing # None /\ doing.pc = "baseline"
      /\ UNCHANGED <<world, page, retained, decisions, issued, used, calls, changes>>
  BY DEF Popup!Baseline, Popup!At, Popup!Quiet
<1>2. doing \in Inspectings /\ page \in PopupPages /\ IsInspecting(doing, page.doc)
  BY <1>1, PopupFacts
<1>3. CASE Popup!Step([doing EXCEPT !.pc = "revealed", !.failed = TRUE])
  <2> DEFINE f == [doing EXCEPT !.pc = "revealed", !.failed = TRUE]
  <2>1. f \in Inspectings
    BY <1>2 DEF Inspectings, InspectionStages
  <2>2. IsInspecting(f, page.doc)
    BY <1>1, <1>2 DEF Inspectings, IsInspecting, Quiet, Unescaped, Unopened
  <2> QED BY <1>1, <1>2, <1>3, <2>1, <2>2, PopupGoesOn
<1>4. CASE Popup!Step([doing EXCEPT !.pc = "reveal", !.zero = TRUE, !.base = {}])
  <2> DEFINE f == [doing EXCEPT !.pc = "reveal", !.zero = TRUE, !.base = {}]
  <2>1. f \in Inspectings
    BY <1>2 DEF Inspectings, InspectionStages
  <2>2. IsInspecting(f, page.doc)
    BY <1>1, <1>2 DEF Inspectings, IsInspecting, Quiet, Unescaped, Unopened
  <2> QED BY <1>1, <1>2, <1>4, <2>1, <2>2, PopupGoesOn
<1> QED BY <1>3, <1>4 DEF Popup!Baseline

LEMMA PopupOpenPopup == ASSUME PopupConstants, PopupInv, Popup!OpenPopup PROVE PopupInv'
<1>1. /\ doing # None /\ doing.pc = "reveal" /\ UNCHANGED <<world, retained, decisions, issued, used, calls, changes>>
  BY DEF Popup!OpenPopup, Popup!At
<1>2. /\ doing \in Inspectings /\ page \in PopupPages /\ IsInspecting(doing, page.doc) /\ doing.control \in Controls
  BY <1>1, PopupFacts DEF Inspectings
<1>3. CASE Popup!Step([doing EXCEPT !.pc = "revealed", !.failed = TRUE]) /\ UNCHANGED page
  <2> DEFINE f == [doing EXCEPT !.pc = "revealed", !.failed = TRUE]
  <2>1. f \in Inspectings
    BY <1>2 DEF Inspectings, InspectionStages
  <2>2. IsInspecting(f, page.doc)
    BY <1>1, <1>2 DEF Inspectings, IsInspecting, Quiet, Unescaped, Unopened
  <2> QED BY <1>1, <1>2, <1>3, <2>1, <2>2, PopupGoesOn
<1>4. ASSUME NEW told \in {"yes", "unknown"}, NEW S \in SUBSET Surfaces, NEW focus \in BOOLEAN, NEW expands \in BOOLEAN,
             Popup!Step([doing EXCEPT !.pc = "reconcile", !.opened = told, !.inputs = Append(@, "open")]),
             page' = [page EXCEPT !.shown = @ \cup S,
                                  !.focus = IF focus THEN doing.control ELSE @,
                                  !.expanded = IF expands THEN @ \cup {doing.control} ELSE @]
      PROVE  PopupInv'
  <2> DEFINE f == [doing EXCEPT !.pc = "reconcile", !.opened = told, !.inputs = Append(@, "open")]
             focused == IF focus THEN doing.control ELSE page.focus
             expanded == IF expands THEN page.expanded \cup {doing.control} ELSE page.expanded
  <2>1. page' \in PopupPages /\ page'.doc = page.doc
    <3>1. page.shown \cup S \in SUBSET Surfaces /\ focused \in Owning /\ expanded \in SUBSET Controls
      BY <1>2 DEF PopupPages, Owning
    <3>2. page' = [page EXCEPT !.shown = page.shown \cup S, !.focus = focused, !.expanded = expanded]
      BY <1>2, <1>4 DEF PopupPages
    <3> HIDE DEF focused, expanded
    <3> QED BY <1>2, <3>1, <3>2 DEF PopupPages
  <2>2. doing.inputs \in Escaping
    BY <1>1, <1>2 DEF IsInspecting, Unopened
  <2>3. Append(doing.inputs, "open") \in Opening /\ Append(doing.inputs, "open") \in Seq({"escape", "open"})
    <3>1. CASE doing.inputs = <<>>
      BY <3>1 DEF Opening
    <3>2. CASE doing.inputs = <<"escape">>
      <4> DEFINE e == <<"escape">>
                 both == <<"escape", "open">>
      <4>1. e \in Seq({"escape", "open"}) /\ Len(e) = 1 /\ e[1] = "escape"
        OBVIOUS
      <4>2. both \in Seq({"escape", "open"}) /\ Len(both) = 2 /\ both[1] = "escape" /\ both[2] = "open"
        OBVIOUS
      <4> HIDE DEF e, both
      <4> DEFINE after == Append(e, "open")
                 Inputs == {"escape", "open"}
      <4>3. after \in Seq(Inputs) /\ Len(after) = 2 /\ after[1] = "escape" /\ after[2] = "open"
        <5>1. "open" \in Inputs /\ e \in Seq(Inputs)
          BY <4>1
        <5>2. after \in Seq(Inputs) /\ Len(after) = Len(e) + 1 /\ after[Len(e) + 1] = "open"
              /\ \A i \in 1 .. Len(e) : after[i] = e[i]
          <6> HIDE DEF Inputs
          <6> QED BY <5>1, AppendProperties
        <5> QED BY <4>1, <5>2
      <4> HIDE DEF after
      <4>4. after = both
        <5>1. after \in Seq({"escape", "open"}) /\ Len(after) = Len(both)
          BY <4>2, <4>3 DEF after
        <5>2. \A i \in 1 .. Len(after) : after[i] = both[i]
          BY <4>2, <4>3 DEF after
        <5> QED BY <4>2, <5>1, <5>2, SeqEqual
      <4> QED BY <3>2, <4>4 DEF after, e, both, Opening
    <3>3. doing.inputs \in Seq({"escape", "open"})
      BY <1>2 DEF Inspectings
    <3>4. Append(doing.inputs, "open") \in Seq({"escape", "open"})
      BY <3>3, AppendProperties
    <3> QED BY <2>2, <3>1, <3>2, <3>4 DEF Escaping
  <2>4. f \in Inspectings
    BY <1>2, <2>3 DEF Inspectings, InspectionStages, Verdicts
  <2>5. /\ f.pc = "reconcile" /\ f.inputs \in Opening /\ f.doc = doing.doc /\ f.reveal = doing.reveal
        /\ f.declared = doing.declared /\ f.zero = doing.zero /\ f.base = doing.base
    BY <1>2, <2>3 DEF Inspectings
  <2>6. Popup!Step(f)
    BY <1>4
  <2> HIDE DEF f
  <2>7. IsInspecting(f, page.doc)
    BY <1>1, <1>2, <2>5 DEF IsInspecting, Quiet, Unescaped, Unopened
  <2> QED BY <1>1, <2>1, <2>4, <2>6, <2>7, PopupGoesOn
<1> QED BY <1>3, <1>4 DEF Popup!OpenPopup

LEMMA PopupReconcileReveal == ASSUME PopupConstants, PopupInv, Popup!ReconcileReveal PROVE PopupInv'
<1> DEFINE failed == ~Popup!Stabilized
           f == [doing EXCEPT !.pc = "revealed", !.failed = failed]
<1>1. /\ doing # None /\ doing.pc = "reconcile" /\ Popup!Step(f)
      /\ UNCHANGED <<world, page, retained, decisions, issued, used, calls, changes>>
  BY DEF Popup!ReconcileReveal, Popup!At, Popup!Quiet
<1>2. doing \in Inspectings /\ page \in PopupPages /\ IsInspecting(doing, page.doc) /\ failed \in BOOLEAN
  BY <1>1, PopupFacts DEF Popup!Stabilized
<1> HIDE DEF failed
<1>3. f \in Inspectings
  BY <1>2 DEF Inspectings, InspectionStages
<1>4. IsInspecting(f, page.doc)
  BY <1>1, <1>2 DEF Inspectings, IsInspecting, Quiet, Unescaped, Unopened
<1> QED BY <1>1, <1>2, <1>3, <1>4, PopupGoesOn

LEMMA PopupRevealed == ASSUME PopupConstants, PopupInv, Popup!Revealed PROVE PopupInv'
<1> DEFINE causal == doing.zero /\ doing.opened # "no"
           a == Popup!Association(doing.asked, doing.declared, causal)
           told == Popup!Combined({doing.prepared, doing.opened})
<1>1. /\ doing # None /\ doing.pc = "revealed" /\ UNCHANGED <<world, page, used, calls, changes>>
  BY DEF Popup!Revealed, Popup!At
<1>2. /\ doing \in Inspectings /\ page \in PopupPages /\ IsInspecting(doing, page.doc) /\ doing.asked \in Controls
      /\ doing.zero \in BOOLEAN
  BY <1>1, PopupFacts DEF Inspectings
<1>3. PopupTaken(a, causal)
  BY <1>2, PopupAssociated DEF PopupConstants
<1>4. \/ /\ UNCHANGED <<retained, decisions, issued>>
         /\ \/ Popup!Answer(told, "document_changed") \/ Popup!Fail("no", "control_not_found")
            \/ Popup!Fail(doing.opened, "control_popup_not_observed")
            \/ Popup!Step([doing EXCEPT !.pc = "collect", !.surfaces = a.surfaces, !.proof = a.proof])
      \/ Popup!Fail(told, "ambiguous_control_popup_after_reveal") /\ Popup!Ambiguous(a, told)
  BY DEF Popup!Revealed
<1>5. causal => doing.base = {} /\ doing.inputs \in Opening
  BY <1>2 DEF IsInspecting
<1> HIDE DEF a, causal, told
<1>6. a.surfaces \in SUBSET Surfaces /\ a.pool \in SUBSET Controls /\ a.proof \in Proofs
      /\ (a.proof = "post_dispatch_unique" => causal)
  BY <1>3 DEF PopupTaken
<1>7. CASE /\ UNCHANGED <<retained, decisions, issued>>
           /\ \/ Popup!Answer(told, "document_changed") \/ Popup!Fail("no", "control_not_found")
              \/ Popup!Fail(doing.opened, "control_popup_not_observed")
  BY <1>1, <1>7, PopupFails, PopupEnds
<1>8. CASE /\ UNCHANGED <<retained, decisions, issued>>
           /\ Popup!Step([doing EXCEPT !.pc = "collect", !.surfaces = a.surfaces, !.proof = a.proof])
  <2> DEFINE f == [doing EXCEPT !.pc = "collect", !.surfaces = a.surfaces, !.proof = a.proof]
  <2>1. f \in Inspectings
    BY <1>2, <1>6 DEF Inspectings, InspectionStages
  <2>2. /\ f.inputs = doing.inputs /\ f.opened = doing.opened /\ f.zero = doing.zero /\ f.base = doing.base
        /\ f.pc = "collect" /\ f.doc = doing.doc /\ f.reveal = doing.reveal /\ f.declared = doing.declared
        /\ f.proof = a.proof /\ f.surfaces = a.surfaces
    BY <1>2 DEF Inspectings
  <2> HIDE DEF f
  <2>3. f.proof = "post_dispatch_unique" => ByOpener(f.surfaces, f.base, f.inputs)
    BY <1>5, <1>6, <2>2 DEF ByOpener
  <2>4. IsInspecting(f, page.doc)
    BY <1>1, <1>2, <2>2, <2>3 DEF IsInspecting, Quiet, Unescaped, Unopened
  <2> QED BY <1>1, <1>2, <1>8, <2>1, <2>4, PopupGoesOn DEF f
<1>9. CASE Popup!Fail(told, "ambiguous_control_popup_after_reveal") /\ Popup!Ambiguous(a, told)
  BY <1>1, <1>2, <1>6, <1>9, PopupFails, PopupAmbiguous
<1> QED BY <1>4, <1>7, <1>8, <1>9

LEMMA PopupCollect == ASSUME PopupConstants, PopupInv, Popup!Collect PROVE PopupInv'
<1>1. /\ doing # None /\ doing.pc = "collect" /\ UNCHANGED <<world, page, issued, used, calls, changes>>
  BY DEF Popup!Collect, Popup!At
<1>2. doing \in Inspectings /\ page \in PopupPages /\ IsInspecting(doing, page.doc)
  BY <1>1, PopupFacts
<1> DEFINE left == [doc |-> doing.doc, control |-> doing.control, surfaces |-> doing.surfaces, proof |-> doing.proof,
                    base |-> doing.base, inputs |-> doing.inputs]
<1>3. CASE page.doc # doing.doc
  BY <1>1, <1>3, PopupFails, PopupEnds DEF Popup!Collect, Popup!Left
<1>4. CASE page.doc = doing.doc
  <2>1. retained' = left /\ decisions' = {} /\ doing' = None
    BY <1>4, PopupFails DEF Popup!Collect, Popup!Left
  <2>2. left.proof = "post_dispatch_unique" => ByOpener(left.surfaces, left.base, left.inputs)
    BY <1>1, <1>2 DEF IsInspecting
  <2>3. left.doc = page.doc /\ left.surfaces \in SUBSET Surfaces
    BY <1>2, <1>4 DEF Inspectings
  <2> HIDE DEF left
  <2>4. RetainedIsHere'
    BY <1>1, <2>1, <2>2, <2>3 DEF RetainedIsHere
  <2>5. PopupTyped' /\ CandidatesAreFresh'
    BY <1>1, <2>1 DEF PopupInv, PopupTyped, CandidatesAreFresh
  <2> QED BY <2>1, <2>4, <2>5 DEF PopupInv
<1> QED BY <1>3, <1>4

LEMMA PopupPageChanges == ASSUME PopupConstants, PopupInv, Popup!PageChanges PROVE PopupInv'
<1>1. UNCHANGED <<world, doing, issued, used, report, calls>>
  BY DEF Popup!PageChanges
<1>2. page \in PopupPages
  BY DEF PopupInv, PopupTyped
<1>3. CASE page' \in PopupPages /\ page'.doc = page.doc /\ UNCHANGED <<retained, decisions>>
  BY <1>1, <1>3 DEF PopupInv, PopupTyped, CandidatesAreFresh, RetainedIsHere
<1>4. CASE page' = [page EXCEPT !.doc = @ + 1, !.here = Controls, !.shown = {}, !.focus = None, !.expanded = {}]
           /\ retained' = None /\ decisions' = {}
  <2>1. page' \in PopupPages /\ page'.doc = page.doc + 1 /\ page.doc \in Nat
    <3> DEFINE on == page.doc + 1
    <3>1. page.doc \in Nat /\ on \in Nat /\ page' = [page EXCEPT !.doc = on, !.here = Controls, !.shown = {}, !.focus = None, !.expanded = {}]
      BY <1>2, <1>4 DEF PopupPages
    <3> HIDE DEF on
    <3>2. page' \in PopupPages /\ page'.doc = on
      BY <1>2, <3>1 DEF PopupPages, Owning
    <3> QED BY <3>1, <3>2 DEF on
  <2>2. doing # None => IsInspecting(doing, page'.doc)
    <3>1. doing # None => IsInspecting(doing, page.doc) /\ doing.doc \in Nat
      BY PopupFacts
    <3> QED BY <2>1, <3>1 DEF IsInspecting
  <2> QED BY <1>1, <1>4, <2>1, <2>2 DEF PopupInv, PopupTyped, CandidatesAreFresh, RetainedIsHere
<1>5. ASSUME /\ \/ \E s \in Surfaces \ page.shown : page' = [page EXCEPT !.shown = @ \cup {s}]
                \/ \E s \in page.shown : page' = [page EXCEPT !.shown = @ \ {s}]
                \/ \E c \in page.here : page' = [page EXCEPT !.here = @ \ {c}]
                \/ \E c \in page.here \ {page.focus} : page' = [page EXCEPT !.focus = c]
      PROVE  page' \in PopupPages /\ page'.doc = page.doc
  <2>1. ASSUME NEW s \in Surfaces, page' = [page EXCEPT !.shown = @ \cup {s}] PROVE page' \in PopupPages /\ page'.doc = page.doc
    BY <1>2, <2>1 DEF PopupPages
  <2>2. ASSUME NEW s, page' = [page EXCEPT !.shown = @ \ {s}] PROVE page' \in PopupPages /\ page'.doc = page.doc
    BY <1>2, <2>2 DEF PopupPages
  <2>3. ASSUME NEW c, page' = [page EXCEPT !.here = @ \ {c}] PROVE page' \in PopupPages /\ page'.doc = page.doc
    BY <1>2, <2>3 DEF PopupPages
  <2>4. ASSUME NEW c \in page.here, page' = [page EXCEPT !.focus = c] PROVE page' \in PopupPages /\ page'.doc = page.doc
    BY <1>2, <2>4 DEF PopupPages, Owning
  <2> QED BY <1>5, <2>1, <2>2, <2>3, <2>4
<1> QED BY <1>3, <1>4, <1>5 DEF Popup!PageChanges, Popup!Discarded

LEMMA PopupNext == PopupConstants /\ PopupInv /\ [Popup!Next]_(Popup!vars) => PopupInv'
<1> SUFFICES ASSUME PopupConstants, PopupInv, [Popup!Next]_(Popup!vars) PROVE PopupInv'
  OBVIOUS
<1>1. CASE UNCHANGED Popup!vars
  <2>1. UNCHANGED <<page, doing, retained, decisions, issued, used, calls>>
    BY <1>1 DEF Popup!vars
  <2> QED BY <2>1 DEF PopupInv, PopupTyped, CandidatesAreFresh, RetainedIsHere
<1>2. CASE Popup!Next
  BY <1>2, PopupBegin, PopupResolveTarget, PopupAssociate, PopupPrepare, PopupPressEscape, PopupEscapeReconciled,
     PopupPrepared, PopupBaseline, PopupOpenPopup, PopupReconcileReveal, PopupRevealed, PopupCollect, PopupPageChanges
     DEF Popup!Next
<1> QED BY <1>1, <1>2

LEMMA PopupSafe == PopupConstants /\ PopupInv => Popup!TypeOK /\ Popup!InputsAsAsked /\ Popup!CausedByOpener
<1> SUFFICES ASSUME PopupConstants, PopupInv PROVE Popup!TypeOK /\ Popup!InputsAsAsked /\ Popup!CausedByOpener
  OBVIOUS
<1>1. Popup!TypeOK
  <2>1. page.shown \subseteq Surfaces /\ page.here \subseteq Controls /\ page.focus \in Controls \cup {None}
    BY DEF PopupInv, PopupTyped, PopupPages, Owning
  <2>2. {d.id : d \in decisions} \subseteq 1 .. issued /\ \A d \in decisions : d.doc <= page.doc
    <3>1. \A d \in decisions : d.id \in 1 .. issued /\ d.doc <= page.doc
      BY DEF PopupInv, CandidatesAreFresh
    <3> QED BY <3>1
  <2>3. calls <= Inspections /\ (retained # None => retained.doc = page.doc /\ retained.surfaces \subseteq Surfaces)
    BY DEF PopupInv, PopupTyped, RetainedIsHere
  <2> QED BY <2>1, <2>2, <2>3 DEF Popup!TypeOK
<1>2. Popup!InputsAsAsked
  BY DEF PopupInv, IsInspecting, Escaping, Opening, Popup!InputsAsAsked
<1>3. Popup!CausedByOpener
  <2>1. \A inputs \in Opening : "open" \in Popup!Range(inputs)
    <3>1. 1 \in DOMAIN <<"open">> /\ <<"open">>[1] = "open"
      OBVIOUS
    <3>2. 2 \in DOMAIN <<"escape", "open">> /\ <<"escape", "open">>[2] = "open"
      OBVIOUS
    <3>3. "open" \in Popup!Range(<<"open">>)
      BY <3>1 DEF Popup!Range
    <3>4. "open" \in Popup!Range(<<"escape", "open">>)
      BY <3>2 DEF Popup!Range
    <3> QED BY <3>3, <3>4 DEF Opening
  <2> QED BY <2>1 DEF PopupInv, RetainedIsHere, ByOpener, Popup!CausedByOpener
<1> QED BY <1>1, <1>2, <1>3

LEMMA PopupDecides == PopupConstants /\ PopupInv /\ [Popup!Next]_(Popup!vars) => Popup!DecisionsOnce
<1> SUFFICES ASSUME PopupConstants, PopupInv, [Popup!Next]_(Popup!vars),
                    doing = None, doing' # None, doing'.declared \in Controls
             PROVE  \E d \in decisions : /\ d.doc = page.doc /\ d.control = doing'.asked /\ d.owner = doing'.declared
                                         /\ d.id \notin used /\ used' = used \cup {d.id}
  BY DEF Popup!DecisionsOnce
<1>1. Popup!Begin
  BY DEF Popup!vars, Popup!Next, Popup!ResolveTarget, Popup!Associate, Popup!Prepare, Popup!PressEscape,
     Popup!EscapeReconciled, Popup!Prepared, Popup!Baseline, Popup!OpenPopup, Popup!ReconcileReveal,
     Popup!Revealed, Popup!Collect, Popup!PageChanges, Popup!At
<1> PICK control \in Controls, reveal \in BOOLEAN :
        \/ \E declared \in {None, "requested"} : doing' = Popup!Inspection(control, reveal, declared)
        \/ \E id \in 1 .. issued :
            LET d == {x \in decisions : x.id = id /\ x.doc = page.doc /\ x.control = control} IN
            IF d # {} THEN /\ doing' = Popup!Inspection(control, reveal, (CHOOSE x \in d : TRUE).owner)
                           /\ used' = used \cup {id}
            ELSE UNCHANGED <<doing, used>>
  BY <1>1 DEF Popup!Begin
<1>2. \A declared : /\ Popup!Inspection(control, reveal, declared).declared = declared
                    /\ Popup!Inspection(control, reveal, declared).asked = control
  BY DEF Popup!Inspection
<1>3. PICK id \in 1 .. issued :
            LET d == {x \in decisions : x.id = id /\ x.doc = page.doc /\ x.control = control} IN
            IF d # {} THEN /\ doing' = Popup!Inspection(control, reveal, (CHOOSE x \in d : TRUE).owner)
                           /\ used' = used \cup {id}
            ELSE UNCHANGED <<doing, used>>
  BY <1>2 DEF PopupConstants
<1> DEFINE d == {x \in decisions : x.id = id /\ x.doc = page.doc /\ x.control = control}
           x == CHOOSE y \in d : TRUE
<1>4. d # {} /\ doing' = Popup!Inspection(control, reveal, x.owner) /\ used' = used \cup {id}
  BY <1>3
<1>5. x \in d
  BY <1>4
<1>6. x \in decisions /\ x.id = id /\ x.doc = page.doc /\ x.control = control
  BY <1>5
<1> HIDE DEF x, d
<1>7. doing'.declared = x.owner /\ doing'.asked = control /\ x.id \notin used
  BY <1>2, <1>4, <1>6 DEF PopupInv, CandidatesAreFresh
<1> QED BY <1>4, <1>6, <1>7

-----------------------------------------------------------------------------
\* A selection (ControlSelection).
\* The page, the inspection and the selection, each with what it is made of;
\* None is none of them and no option, of which there are some.
SelectionStages == {"native", "write", "after", "search", "query", "prove", "enter", "committed",
                    "baseline", "plan", "click", "reconcile", "again"}
Controlled == [doc : Nat, node : Nat, popup : Nat, next : Nat, selected : SUBSET Options,
               value : {None} \cup Options, active : {None} \cup Options]
Observations == [doc : Nat, node : Nat, popup : Nat, seen : [Options -> {"yes", "no", "null"}], chips : SUBSET Options]
Selectings ==
    [pc : SelectionStages, todo : Seq(Options), multi : BOOLEAN, desired : BOOLEAN, insp : Observations,
     done : Seq(Options), before : {None} \cup SUBSET Options, rebound : BOOLEAN, clicked : BOOLEAN, closed : BOOLEAN,
     sawClosed : Nat, recovered : BOOLEAN, quiet : BOOLEAN, told : Verdicts, query : Verdicts, inputs : Nat, chip : BOOLEAN]
SelectionConstants ==
    /\ IsFiniteSet(Options) /\ Options # {}
    /\ None \notin Options \cup Observations \cup Selectings

OneSelected == ~world.multiple /\ world.kind # "native" => \E o : page.selected \subseteq {o}
SelectionTyped ==
    /\ page \in Controlled /\ retained \in {None} \cup Observations /\ doing \in {None} \cup Selectings
    /\ report # None => (report.error = "none" => report.done # <<>>)
    /\ OneSelected

\* A selection is not through with its options, and has consumed its inspection.
\* What its stage relies on was read of the page as it is, when that was left alone.
NextOption(f) == f.todo[Len(f.done) + 1]
IsSelecting(f, p, kind) ==
    /\ Len(f.done) < Len(f.todo)
    /\ f.pc \in {"native", "write", "after"} => kind = "native"
    /\ f.pc = "write" =>
        /\ f.before \in SUBSET Options /\ (NextOption(f) \in f.before) # f.desired
        /\ f.quiet /\ p.node = f.insp.node => f.before = p.selected
    /\ f.pc \in {"baseline", "plan", "click"} => ~f.closed
    /\ f.pc = "reconcile" /\ f.closed => f.sawClosed = f.insp.popup
    /\ f.pc = "enter" /\ f.quiet => p.active = NextOption(f)
    /\ f.pc = "committed" /\ f.quiet /\ f.told # "no" => NextOption(f) \in p.selected
SelectionInv ==
    /\ SelectionTyped
    /\ doing # None => retained = None /\ IsSelecting(doing, page, world.kind)

LEMMA SelectionOrders == ASSUME SelectionConstants, NEW todo \in Selection!SetToSeqs(Options)
    PROVE  todo \in Seq(Options) /\ Len(todo) > 0
<1>1. Selection!Cardinality(Options) = Cardinality(Options)
  BY Zenon DEF Selection!Cardinality, Cardinality
<1>2. Cardinality(Options) \in Nat /\ Cardinality(Options) # 0
  BY FS_CardinalityType, FS_EmptySet DEF SelectionConstants
<1>3. todo \in [1 .. Cardinality(Options) -> Options]
  BY <1>1 DEF Selection!SetToSeqs
<1> QED BY <1>2, <1>3

LEMMA SelectionInit == SelectionConstants /\ Selection!Init => SelectionInv
<1> SUFFICES ASSUME SelectionConstants, Selection!Init PROVE SelectionInv
  OBVIOUS
<1>1. page \in Controlled
  BY DEF Selection!Init, Controlled
<1>2. \E o : page.selected \subseteq {o}
  BY DEF Selection!Init
<1> QED BY <1>1, <1>2 DEF Selection!Init, SelectionInv, SelectionTyped, OneSelected

\* The popup opens, and what an inspection observes.
LEMMA SelectionOpens ==
    page \in Controlled => Selection!Opened \in Controlled /\ Selection!Opened.selected = page.selected
<1> SUFFICES ASSUME page \in Controlled PROVE Selection!Opened \in Controlled /\ Selection!Opened.selected = page.selected
  OBVIOUS
<1>1. page.next \in Nat /\ page.next + 1 \in Nat
  BY DEF Controlled
<1>2. [page EXCEPT !.popup = page.next] \in Controlled
  BY <1>1 DEF Controlled
<1>3. [page EXCEPT !.popup = page.next, !.next = @ + 1] \in Controlled
      /\ [page EXCEPT !.popup = page.next, !.next = @ + 1].selected = page.selected
  BY <1>1, <1>2 DEF Controlled
<1> QED BY <1>3 DEF Selection!Opened
LEMMA SelectionObserves ==
    \A p \in Controlled : Selection!Observed(p) \in Observations
BY DEF Controlled, Selection!Observed, Observations, Selection!Shown

\* A selection goes on, or it ends without success.
LEMMA SelectionStep ==
    ASSUME SelectionInv, doing # None, NEW f \in Selectings, doing' = f, IsSelecting(f, page', world.kind), page' \in Controlled,
           OneSelected', UNCHANGED <<world, retained, report>>
    PROVE  SelectionInv'
<1>1. SelectionTyped'
  <2>1. retained \in {None} \cup Observations /\ (report # None => (report.error = "none" => report.done # <<>>))
    BY DEF SelectionInv, SelectionTyped
  <2>2. report' # None => (report'.error = "none" => report'.done # <<>>)
    BY <2>1
  <2> QED BY <2>1, <2>2 DEF SelectionTyped
<1>2. retained' = None /\ IsSelecting(doing', page', world.kind)
  BY DEF SelectionInv
<1> QED BY <1>1, <1>2 DEF SelectionInv
LEMMA SelectionFails ==
    ASSUME SelectionInv, doing # None, NEW told, NEW error, error # "none", Selection!Fail(told, error),
           page' \in Controlled, OneSelected', UNCHANGED <<world, retained>>
    PROVE  SelectionInv'
BY DEF SelectionInv, SelectionTyped, Selection!Fail, Selection!Answer

\* The option that is next is one.
LEMMA SelectionAsked ==
    ASSUME SelectionInv, doing # None
    PROVE  /\ doing \in Selectings /\ Selection!Asked = NextOption(doing) /\ NextOption(doing) \in Options
           /\ retained = None /\ IsSelecting(doing, page, world.kind) /\ page \in Controlled /\ OneSelected
<1>1. doing \in Selectings /\ IsSelecting(doing, page, world.kind) /\ retained = None /\ page \in Controlled /\ OneSelected
  BY DEF SelectionInv, SelectionTyped
<1>2. doing.done \in Seq(Options) /\ doing.todo \in Seq(Options) /\ Len(doing.done) < Len(doing.todo)
  BY <1>1 DEF Selectings, IsSelecting
<1>3. NextOption(doing) \in Options
  BY <1>2 DEF NextOption
<1> QED BY <1>1, <1>3 DEF Selection!Asked, NextOption

\* An option is through: the selection has one more of them done.
LEMMA SelectionGoesThrough ==
    ASSUME SelectionInv, doing # None, NEW f \in Selectings, f.done = Append(doing.done, NextOption(doing)), f.todo = doing.todo,
           Selection!Through(f), UNCHANGED <<world, page, retained>>
    PROVE  SelectionInv'
<1>1. doing \in Selectings /\ Len(doing.done) < Len(doing.todo) /\ doing.done \in Seq(Options) /\ doing.todo \in Seq(Options)
      /\ NextOption(doing) \in Options
  BY SelectionAsked DEF IsSelecting, Selectings
<1>2. Len(f.done) = Len(doing.done) + 1 /\ f.done # <<>> /\ Len(f.done) \in Nat /\ Len(f.todo) \in Nat
  BY <1>1, AppendProperties, LenProperties
<1>3. CASE Len(f.done) = Len(f.todo)
  <2>1. doing' = None /\ report' = [told |-> "yes", error |-> "none", done |-> f.done, multi |-> f.multi, inputs |-> f.inputs]
    BY <1>3 DEF Selection!Through
  <2>2. report'.done # <<>>
    BY <1>2, <2>1
  <2>3. SelectionTyped'
    BY <2>1, <2>2 DEF SelectionInv, SelectionTyped, OneSelected
  <2> QED BY <2>1, <2>3 DEF SelectionInv
<1>4. CASE Len(f.done) # Len(f.todo)
  <2> DEFINE stage == IF world.kind = "native" THEN "native" ELSE "again"
  <2>1. doing' = [f EXCEPT !.pc = stage] /\ report' = report
    BY <1>4 DEF Selection!Through, Selection!Step
  <2>2. stage \in SelectionStages /\ (stage = "native" => world.kind = "native") /\ stage \in {"native", "again"}
    BY DEF SelectionStages
  <2> HIDE DEF stage
  <2>3. [f EXCEPT !.pc = stage] \in Selectings
    BY <2>2 DEF Selectings
  <2>4. /\ [f EXCEPT !.pc = stage].pc = stage /\ [f EXCEPT !.pc = stage].done = f.done
        /\ [f EXCEPT !.pc = stage].todo = f.todo
    BY DEF Selectings
  <2>5. Len(f.done) < Len(f.todo)
    BY <1>1, <1>2, <1>4
  <2>6. IsSelecting([f EXCEPT !.pc = stage], page', world.kind)
    BY <2>2, <2>4, <2>5 DEF IsSelecting
  <2>7. page' \in Controlled /\ OneSelected'
    BY DEF SelectionInv, SelectionTyped, OneSelected
  <2> QED BY <2>1, <2>3, <2>6, <2>7, SelectionStep
<1> QED BY <1>3, <1>4

LEMMA SelectionConfirms ==
    ASSUME SelectionInv, doing # None, Selection!Confirm, UNCHANGED <<world, page, retained>>
    PROVE  SelectionInv'
<1>1. doing \in Selectings /\ Selection!Asked = NextOption(doing) /\ NextOption(doing) \in Options
  BY SelectionAsked
<1>2. Append(doing.done, NextOption(doing)) \in Seq(Options)
  BY <1>1 DEF Selectings
<1> DEFINE f == [doing EXCEPT !.done = Append(doing.done, NextOption(doing))]
<1>3. f \in Selectings /\ f.done = Append(doing.done, NextOption(doing)) /\ f.todo = doing.todo
  BY <1>1, <1>2 DEF Selectings
<1>4. Selection!Through(f)
  BY <1>1 DEF Selection!Confirm
<1> QED BY <1>3, <1>4, SelectionGoesThrough

\* An inspection, and a selection that consumes it.
LEMMA SelectionBegin ==
    SelectionConstants /\ SelectionInv /\ (Selection!Inspect \/ Selection!SelectOption \/ Selection!SelectOptions)
        => SelectionInv'
<1>1. ASSUME SelectionInv, Selection!Inspect PROVE SelectionInv'
  <2>1. page' \in Controlled /\ page'.selected = page.selected /\ UNCHANGED <<world, doing, report>> /\ doing = None
    BY <1>1, SelectionOpens DEF Selection!Inspect, SelectionInv, SelectionTyped
  <2>2. retained' \in Observations
    BY <1>1, <2>1, SelectionObserves DEF Selection!Inspect
  <2> QED BY <1>1, <2>1, <2>2 DEF SelectionInv, SelectionTyped, OneSelected
<1>2. ASSUME SelectionConstants, SelectionInv, retained \in Observations, doing = None, NEW todo \in Seq(Options), Len(todo) > 0,
             NEW multi \in BOOLEAN, NEW desired \in BOOLEAN, doing' = Selection!Selection(todo, multi, desired),
             report' = None, retained' = None, UNCHANGED <<world, page>>
      PROVE  SelectionInv'
  <2> DEFINE stage == IF world.kind = "native" THEN "native" ELSE IF world.kind = "search" THEN "search" ELSE "baseline"
  <2>1. stage \in SelectionStages /\ stage \in {"native", "search", "baseline"} /\ (stage = "native" => world.kind = "native")
    BY DEF SelectionStages
  <2>2. doing' = [pc |-> stage,
     todo |-> todo, multi |-> multi, desired |-> desired, insp |-> retained, done |-> <<>>, before |-> None,
     rebound |-> FALSE, clicked |-> FALSE, closed |-> FALSE, sawClosed |-> 0, recovered |-> FALSE, quiet |-> TRUE,
     told |-> "no", query |-> "no", inputs |-> 0, chip |-> FALSE]
    BY <1>2 DEF Selection!Selection
  <2> HIDE DEF stage
  <2>3. doing' \in Selectings
    BY <1>2, <2>1, <2>2 DEF Selectings, Verdicts
  <2>4. doing'.pc = stage /\ doing'.done = <<>> /\ doing'.todo = todo /\ ~doing'.closed
    BY <2>2
  <2>5. IsSelecting(doing', page', world.kind)
    BY <1>2, <2>1, <2>4 DEF IsSelecting
  <2>6. SelectionTyped'
    BY <1>2, <2>3 DEF SelectionInv, SelectionTyped, OneSelected
  <2> QED BY <1>2, <2>5, <2>6 DEF SelectionInv
<1>3. ASSUME SelectionConstants, SelectionInv, Selection!SelectOption PROVE SelectionInv'
  <2> PICK o \in Options, desired \in BOOLEAN :
        \/ doing' = Selection!Selection(<<o>>, FALSE, desired) /\ report' = None
        \/ report' = [told |-> "no", error |-> "refused", done |-> <<>>, multi |-> FALSE, inputs |-> 0] /\ UNCHANGED doing
    BY <1>3 DEF Selection!SelectOption
  <2>1. doing = None /\ retained \in Observations /\ retained' = None /\ UNCHANGED <<world, page>>
    BY <1>3 DEF Selection!SelectOption, Selection!Consumed, SelectionInv, SelectionTyped
  <2>2. <<o>> \in Seq(Options) /\ Len(<<o>>) > 0
    OBVIOUS
  <2>3. CASE doing' = Selection!Selection(<<o>>, FALSE, desired) /\ report' = None
    BY <1>2, <1>3, <2>1, <2>2, <2>3
  <2>4. CASE report' = [told |-> "no", error |-> "refused", done |-> <<>>, multi |-> FALSE, inputs |-> 0] /\ UNCHANGED doing
    BY <1>3, <2>1, <2>4 DEF SelectionInv, SelectionTyped, OneSelected
  <2> QED BY <2>3, <2>4
<1>4. ASSUME SelectionConstants, SelectionInv, Selection!SelectOptions PROVE SelectionInv'
  <2> PICK todo \in Selection!SetToSeqs(Options) : doing' = Selection!Selection(todo, TRUE, TRUE)
    BY <1>4 DEF Selection!SelectOptions
  <2>1. doing = None /\ retained \in Observations /\ retained' = None /\ report' = None /\ UNCHANGED <<world, page>>
    BY <1>4 DEF Selection!SelectOptions, Selection!Consumed, SelectionInv, SelectionTyped
  <2>2. todo \in Seq(Options) /\ Len(todo) > 0
    BY <1>4, SelectionOrders
  <2> QED BY <1>2, <1>4, <2>1, <2>2
<1> QED BY <1>1, <1>3, <1>4

\* The next of several options is inspected anew.
LEMMA SelectionAgain == SelectionInv /\ Selection!InspectAgain => SelectionInv'
<1> SUFFICES ASSUME SelectionInv, Selection!InspectAgain PROVE SelectionInv'
  OBVIOUS
<1>0. doing # None /\ UNCHANGED <<world, retained>>
  BY DEF Selection!InspectAgain, Selection!At
<1>1. doing \in Selectings /\ IsSelecting(doing, page, world.kind) /\ page \in Controlled /\ OneSelected
  BY <1>0, SelectionAsked
<1>2. CASE Selection!Fail("no", "inspection") /\ UNCHANGED page
  BY <1>0, <1>1, <1>2, SelectionFails DEF OneSelected
<1>3. CASE ~(Selection!Fail("no", "inspection") /\ UNCHANGED page)
  <2>1. page' = Selection!Opened /\ report' = report
        /\ doing' = [doing EXCEPT !.pc = "baseline", !.insp = Selection!Observed(page'), !.clicked = FALSE, !.closed = FALSE,
                       !.recovered = FALSE, !.rebound = FALSE, !.inputs = @ + (IF page.popup = 0 THEN 1 ELSE 0)]
    BY <1>3 DEF Selection!InspectAgain, Selection!Step
  <2>2. page' \in Controlled /\ page'.selected = page.selected
    BY <1>1, <2>1, SelectionOpens
  <2>3. Selection!Observed(page') \in Observations
    BY <2>2, SelectionObserves
  <2> DEFINE seen == Selection!Observed(page')
             more == doing.inputs + (IF page.popup = 0 THEN 1 ELSE 0)
  <2>4. more \in Nat /\ "baseline" \in SelectionStages
    BY <1>1 DEF Selectings, SelectionStages
  <2>5. doing' = [doing EXCEPT !.pc = "baseline", !.insp = seen, !.clicked = FALSE, !.closed = FALSE,
                       !.recovered = FALSE, !.rebound = FALSE, !.inputs = more]
    BY <2>1
  <2> HIDE DEF seen, more
  <2>6. doing' \in Selectings /\ doing'.pc = "baseline" /\ ~doing'.closed /\ doing'.done = doing.done /\ doing'.todo = doing.todo
    BY <1>1, <2>3, <2>4, <2>5 DEF Selectings, seen
  <2>7. IsSelecting(doing', page', world.kind)
    BY <1>1, <2>6 DEF IsSelecting
  <2>8. OneSelected'
    BY <1>0, <1>1, <2>2 DEF OneSelected
  <2> QED BY <1>0, <2>1, <2>2, <2>6, <2>7, <2>8, SelectionStep
<1> QED BY <1>2, <1>3

\* A step that leaves the page alone takes the selection to a stage.
LEMMA SelectionMoves ==
    ASSUME SelectionInv, doing # None, NEW f \in Selectings, doing' = f, IsSelecting(f, page, world.kind),
           UNCHANGED <<world, page, retained, report>>
    PROVE  SelectionInv'
<1>1. page' \in Controlled /\ OneSelected' /\ IsSelecting(f, page', world.kind)
  BY DEF SelectionInv, SelectionTyped, OneSelected
<1> QED BY <1>1, SelectionStep
LEMMA SelectionStops ==
    ASSUME SelectionInv, doing # None, NEW told, NEW error, error # "none", Selection!Fail(told, error),
           UNCHANGED <<world, page, retained>>
    PROVE  SelectionInv'
<1>1. page' \in Controlled /\ OneSelected'
  BY DEF SelectionInv, SelectionTyped, OneSelected
<1> QED BY <1>1, SelectionFails

\* A native select: it is read, its whole set written, and read again.
LEMMA SelectionNative == SelectionInv /\ (Selection!NativeRead \/ Selection!NativeWrite \/ Selection!NativeAfter) => SelectionInv'
<1>1. ASSUME SelectionInv, Selection!NativeRead PROVE SelectionInv'
  <2>0. doing # None /\ doing.pc = "native" /\ UNCHANGED <<world, page, retained>>
    BY <1>1 DEF Selection!NativeRead, Selection!At
  <2>1. /\ doing \in Selectings /\ Selection!Asked = NextOption(doing) /\ NextOption(doing) \in Options
        /\ IsSelecting(doing, page, world.kind) /\ page \in Controlled
    BY <1>1, <2>0, SelectionAsked
  <2> PICK selected \in Selection!Reads :
        IF page.doc # doing.insp.doc THEN Selection!Fail("untold", "plain")
        ELSE IF (Selection!Asked \in selected) = doing.desired THEN Selection!Confirm
        ELSE IF ~doing.desired /\ ~world.multiple THEN Selection!Fail("no", "control_not_multiselect")
        ELSE Selection!Step([doing EXCEPT !.pc = "write", !.before = selected, !.quiet = TRUE])
    BY <1>1 DEF Selection!NativeRead
  <2>2. selected \in SUBSET Options /\ (page.node = doing.insp.node => selected = page.selected)
    BY <2>1 DEF Selection!Reads, Controlled
  <2>3. CASE Selection!Fail("untold", "plain") \/ Selection!Fail("no", "control_not_multiselect")
    BY <1>1, <2>0, <2>3, SelectionStops
  <2>4. CASE Selection!Confirm
    BY <1>1, <2>0, <2>4, SelectionConfirms
  <2>5. CASE (Selection!Asked \in selected) # doing.desired
             /\ Selection!Step([doing EXCEPT !.pc = "write", !.before = selected, !.quiet = TRUE])
    <3> DEFINE f == [doing EXCEPT !.pc = "write", !.before = selected, !.quiet = TRUE]
    <3>1. doing' = f /\ UNCHANGED report
      BY <2>5 DEF Selection!Step
    <3>2. "write" \in SelectionStages /\ selected \in {None} \cup SUBSET Options
      BY <2>2 DEF SelectionStages
    <3>3. f \in Selectings
      BY <2>1, <3>2 DEF Selectings
    <3>4. /\ f.pc = "write" /\ f.before = selected /\ f.desired = doing.desired /\ f.insp = doing.insp /\ f.todo = doing.todo
          /\ f.done = doing.done
      BY <2>1 DEF Selectings
    <3>5. NextOption(f) = NextOption(doing)
      BY <3>4 DEF NextOption
    <3>6. IsSelecting(f, page, world.kind)
      <4> HIDE DEF f
      <4> QED BY <2>0, <2>1, <2>2, <2>5, <3>4, <3>5 DEF IsSelecting
    <3> QED BY <1>1, <2>0, <3>1, <3>3, <3>6, SelectionMoves
  <2> QED BY <2>3, <2>4, <2>5
<1>2. ASSUME SelectionInv, Selection!NativeWrite PROVE SelectionInv'
  <2>0. doing # None /\ doing.pc = "write" /\ UNCHANGED <<world, retained>>
    BY <1>2 DEF Selection!NativeWrite, Selection!At
  <2>1. /\ doing \in Selectings /\ Selection!Asked = NextOption(doing) /\ NextOption(doing) \in Options
        /\ IsSelecting(doing, page, world.kind) /\ page \in Controlled
    BY <1>2, <2>0, SelectionAsked
  <2>2. doing.before \in SUBSET Options /\ world.kind = "native" /\ "after" \in SelectionStages
    BY <2>0, <2>1 DEF IsSelecting, SelectionStages
  <2>3. page' \in Controlled
    <3>1. Selection!Indexes \in SUBSET Options
      BY <2>1, <2>2 DEF Selection!Indexes
    <3> QED BY <1>2, <2>1, <3>1 DEF Selection!NativeWrite, Controlled
  <2>4. OneSelected'
    BY <2>0, <2>2 DEF OneSelected
  <2>5. ASSUME NEW told \in Verdicts, NEW inputs \in Nat, Selection!Step([doing EXCEPT !.pc = "after", !.told = told, !.inputs = inputs])
        PROVE  SelectionInv'
    <3> DEFINE f == [doing EXCEPT !.pc = "after", !.told = told, !.inputs = inputs]
    <3>1. doing' = f /\ UNCHANGED report
      BY <2>5 DEF Selection!Step
    <3>2. f \in Selectings /\ f.pc = "after" /\ f.todo = doing.todo /\ f.done = doing.done
      BY <2>1, <2>2 DEF Selectings
    <3>3. IsSelecting(f, page', world.kind)
      <4> HIDE DEF f
      <4> QED BY <2>1, <2>2, <3>2 DEF IsSelecting
    <3> QED BY <1>2, <2>0, <2>3, <2>4, <3>1, <3>2, <3>3, SelectionStep
  <2>6. CASE \E told \in {"yes", "unknown"} : Selection!Step([doing EXCEPT !.pc = "after", !.told = told, !.inputs = @ + 1])
    <3> PICK told \in {"yes", "unknown"} : Selection!Step([doing EXCEPT !.pc = "after", !.told = told, !.inputs = @ + 1])
      BY <2>6
    <3>1. told \in Verdicts /\ doing.inputs + 1 \in Nat
      BY <2>1 DEF Verdicts, Selectings
    <3> QED BY <2>5, <3>1
  <2>7. CASE Selection!Step([doing EXCEPT !.pc = "after", !.told = "no"])
    <3>1. [doing EXCEPT !.pc = "after", !.told = "no"] = [doing EXCEPT !.pc = "after", !.told = "no", !.inputs = doing.inputs]
      BY <2>1 DEF Selectings
    <3>2. "no" \in Verdicts /\ doing.inputs \in Nat
      BY <2>1 DEF Verdicts, Selectings
    <3> QED BY <2>5, <2>7, <3>1, <3>2
  <2> QED BY <1>2, <2>6, <2>7 DEF Selection!NativeWrite
<1>3. ASSUME SelectionInv, Selection!NativeAfter PROVE SelectionInv'
  <2>0. doing # None /\ UNCHANGED <<world, page, retained>>
    BY <1>3 DEF Selection!NativeAfter, Selection!At
  <2>1. \/ Selection!Confirm
        \/ Selection!Fail("untold", "plain")
        \/ Selection!Fail(doing.told, "native_option_selection_not_observed")
    BY <1>3 DEF Selection!NativeAfter
  <2> QED BY <1>3, <2>0, <2>1, SelectionConfirms, SelectionStops
<1> QED BY <1>1, <1>2, <1>3

\* A popup: it is bound, the decision taken, and the option clicked.
LEMMA SelectionPlans == SelectionInv /\ (Selection!Baseline \/ Selection!Plan) => SelectionInv'
<1>1. ASSUME SelectionInv, Selection!Baseline PROVE SelectionInv'
  <2>0. doing # None /\ doing.pc = "baseline" /\ UNCHANGED <<world, page, retained>>
    BY <1>1 DEF Selection!Baseline, Selection!At
  <2>1. /\ doing \in Selectings /\ Selection!Asked = NextOption(doing) /\ NextOption(doing) \in Options
        /\ IsSelecting(doing, page, world.kind) /\ page \in Controlled
    BY <1>1, <2>0, SelectionAsked
  <2>2. CASE Selection!Fail("no", "control_popup_changed")
    BY <1>1, <2>0, <2>2, SelectionStops
  <2>3. CASE ~Selection!Fail("no", "control_popup_changed")
    <3> DEFINE chip == Selection!Chip(Selection!Asked)
               rebound == page.node # doing.insp.node \/ page.popup # doing.insp.popup
               insp == [doing.insp EXCEPT !.node = page.node, !.popup = page.popup]
    <3>1. doing' = [doing EXCEPT !.pc = "plan", !.insp = insp, !.chip = chip, !.rebound = rebound] /\ UNCHANGED report
      <4>1. doing' = [doing EXCEPT !.pc = "plan", !.insp.node = page.node, !.insp.popup = page.popup, !.chip = chip, !.rebound = rebound]
            /\ UNCHANGED report
        BY <1>1, <2>3 DEF Selection!Baseline, Selection!Step
      <4>2. doing.insp \in Observations
        BY <2>1 DEF Selectings
      <4> QED BY <2>1, <4>1, <4>2 DEF Selectings, Observations
    <3>2. insp \in Observations
      BY <2>1 DEF Selectings, Observations, Controlled
    <3>3. chip \in BOOLEAN /\ rebound \in BOOLEAN /\ "plan" \in SelectionStages
      BY DEF Selection!Chip, SelectionStages
    <3> HIDE DEF chip, rebound, insp
    <3>4. /\ doing' \in Selectings /\ doing'.pc = "plan" /\ doing'.todo = doing.todo /\ doing'.done = doing.done
          /\ doing'.closed = doing.closed
      BY <2>1, <3>1, <3>2, <3>3 DEF Selectings
    <3>5. IsSelecting(doing', page, world.kind)
      BY <2>0, <2>1, <3>4 DEF IsSelecting
    <3> QED BY <1>1, <2>0, <3>1, <3>4, <3>5, SelectionMoves
  <2> QED BY <2>2, <2>3
<1>2. ASSUME SelectionInv, Selection!Plan PROVE SelectionInv'
  <2>0. doing # None /\ doing.pc = "plan" /\ UNCHANGED <<world, page, retained>>
    BY <1>2 DEF Selection!Plan, Selection!At
  <2>1. doing \in Selectings /\ IsSelecting(doing, page, world.kind)
    BY <1>2, <2>0, SelectionAsked
  <2>2. \/ Selection!Confirm
        \/ Selection!Fail("no", "control_popup_changed")
        \/ Selection!Fail("no", "control_not_multiselect")
        \/ Selection!Step([doing EXCEPT !.pc = "click"])
    BY <1>2 DEF Selection!Plan
  <2>3. CASE Selection!Step([doing EXCEPT !.pc = "click"])
    <3>1. doing' = [doing EXCEPT !.pc = "click"] /\ UNCHANGED report
      BY <2>3 DEF Selection!Step
    <3>2. "click" \in SelectionStages
      BY DEF SelectionStages
    <3>3. /\ doing' \in Selectings /\ doing'.pc = "click" /\ doing'.todo = doing.todo /\ doing'.done = doing.done
          /\ doing'.closed = doing.closed
      BY <2>1, <3>1, <3>2 DEF Selectings
    <3>4. IsSelecting(doing', page, world.kind)
      BY <2>0, <2>1, <3>3 DEF IsSelecting
    <3> QED BY <1>2, <2>0, <3>1, <3>3, <3>4, SelectionMoves
  <2> QED BY <1>2, <2>0, <2>2, <2>3, SelectionConfirms, SelectionStops
<1> QED BY <1>1, <1>2

\* A click on an option leaves one selected where one can be.
LEMMA SelectionOne ==
    ASSUME page \in Controlled, NEW o \in Options
    PROVE  /\ Selection!Clicked(o) \in SUBSET Options
           /\ ~world.multiple => Selection!Clicked(o) \subseteq {o}
BY DEF Selection!Clicked, Controlled

LEMMA SelectionClicks == SelectionInv /\ Selection!Click => SelectionInv'
<1> SUFFICES ASSUME SelectionInv, Selection!Click PROVE SelectionInv'
  OBVIOUS
<1>0. doing # None /\ doing.pc = "click" /\ UNCHANGED <<world, retained>>
  BY DEF Selection!Click, Selection!At
<1>1. /\ doing \in Selectings /\ Selection!Asked = NextOption(doing) /\ NextOption(doing) \in Options
      /\ IsSelecting(doing, page, world.kind) /\ page \in Controlled /\ OneSelected
  BY <1>0, SelectionAsked
<1>2. CASE Selection!Fail("no", "before_dispatch") /\ UNCHANGED page
  BY <1>0, <1>2, SelectionStops
<1>3. CASE ~(Selection!Fail("no", "before_dispatch") /\ UNCHANGED page)
  <2> PICK told \in {"yes", "unknown"}, effect \in BOOLEAN, closes \in BOOLEAN, replaces \in BOOLEAN :
        /\ page' = [page EXCEPT !.selected = IF effect THEN Selection!Clicked(Selection!Asked) ELSE @,
                                !.popup = IF closes THEN 0 ELSE @,
                                !.node = IF replaces THEN page.next ELSE @, !.next = IF replaces THEN @ + 1 ELSE @]
        /\ Selection!Step([doing EXCEPT !.pc = "reconcile", !.clicked = TRUE, !.told = told, !.inputs = @ + 1])
    BY <1>3 DEF Selection!Click
  <2> DEFINE selected == IF effect THEN Selection!Clicked(Selection!Asked) ELSE page.selected
             popup == IF closes THEN 0 ELSE page.popup
             node == IF replaces THEN page.next ELSE page.node
             next == IF replaces THEN page.next + 1 ELSE page.next
  <2>1. page' = [page EXCEPT !.selected = selected, !.popup = popup, !.node = node, !.next = next]
    OBVIOUS
  <2>2. selected \in SUBSET Options /\ popup \in Nat /\ node \in Nat /\ next \in Nat
        /\ (~world.multiple => selected = page.selected \/ selected \subseteq {NextOption(doing)})
    BY <1>1, SelectionOne DEF Controlled
  <2> HIDE DEF selected, popup, node, next
  <2>3. page' \in Controlled /\ page'.selected = selected
    BY <1>1, <2>1, <2>2 DEF Controlled
  <2>4. OneSelected'
    BY <1>0, <1>1, <2>2, <2>3 DEF OneSelected
  <2>5. doing' = [doing EXCEPT !.pc = "reconcile", !.clicked = TRUE, !.told = told, !.inputs = @ + 1] /\ UNCHANGED report
    BY DEF Selection!Step
  <2>6. told \in Verdicts /\ doing.inputs + 1 \in Nat /\ "reconcile" \in SelectionStages
    BY <1>1 DEF Verdicts, Selectings, SelectionStages
  <2>7. /\ doing' \in Selectings /\ doing'.pc = "reconcile" /\ doing'.todo = doing.todo /\ doing'.done = doing.done
        /\ doing'.closed = doing.closed
    BY <1>1, <2>5, <2>6 DEF Selectings
  <2>8. IsSelecting(doing', page', world.kind)
    BY <1>0, <1>1, <2>7 DEF IsSelecting
  <2> QED BY <1>0, <2>3, <2>4, <2>5, <2>7, <2>8, SelectionStep
<1> QED BY <1>2, <1>3

\* A selection that recovers is bound to the control and the popup that are there now.
LEMMA SelectionRecovers ==
    ASSUME doing \in Selectings, page \in Controlled, NEW read \in BOOLEAN, NEW saw \in Nat
    PROVE  LET f == [Selection!Recovered(read) EXCEPT !.sawClosed = saw]
           IN f \in Selectings /\ f.pc = doing.pc /\ f.todo = doing.todo /\ f.done = doing.done /\ ~f.closed
<1> DEFINE insp == [doing.insp EXCEPT !.node = page.node, !.popup = page.popup]
           f == [Selection!Recovered(read) EXCEPT !.sawClosed = saw]
<1>1. doing.insp \in Observations
  BY DEF Selectings
<1>2. f = [doing EXCEPT !.recovered = TRUE, !.insp = insp, !.closed = FALSE, !.sawClosed = saw]
  BY <1>1 DEF Selection!Recovered, Selectings, Observations
<1>3. insp \in Observations
  BY <1>1 DEF Observations, Controlled
<1> HIDE DEF insp, f
<1>4. f \in Selectings /\ f.pc = doing.pc /\ f.todo = doing.todo /\ f.done = doing.done /\ ~f.closed
  BY <1>2, <1>3 DEF Selectings
<1> QED BY <1>4 DEF f

\* A popup that closed is noted with the popup that was looked at.
LEMMA SelectionReconciles == SelectionInv /\ Selection!Reconcile => SelectionInv'
<1> SUFFICES ASSUME SelectionInv, Selection!Reconcile PROVE SelectionInv'
  OBVIOUS
<1>0. doing # None /\ doing.pc = "reconcile" /\ UNCHANGED <<world, page, retained>>
  BY DEF Selection!Reconcile, Selection!At
<1>1. /\ doing \in Selectings /\ Selection!Asked = NextOption(doing) /\ NextOption(doing) \in Options
      /\ IsSelecting(doing, page, world.kind) /\ page \in Controlled
  BY <1>0, SelectionAsked
<1>a. doing.insp \in Observations /\ doing.insp.popup \in Nat /\ doing.sawClosed \in Nat /\ doing.closed \in BOOLEAN
  BY <1>1 DEF Selectings, Observations
<1> PICK read \in BOOLEAN, scope \in {Selection!Connected, Selection!Connected \/ page.doc = doing.insp.doc} :
      \/ /\ Selection!Satisfied(read, scope)
         /\ Selection!Through([doing EXCEPT !.done = Append(@, Selection!Asked),
                !.sawClosed = IF read /\ Selection!Closed(TRUE) THEN doing.insp.popup ELSE doing.sawClosed,
                !.closed = Selection!Closed(read)])
      \/ /\ ~Selection!Connected /\ ~doing.recovered /\ page.node # 0 /\ page.popup # 0
         /\ Selection!Step([Selection!Recovered(read) EXCEPT
                !.sawClosed = IF read /\ Selection!Closed(TRUE) THEN doing.insp.popup ELSE doing.sawClosed])
      \/ Selection!Step([doing EXCEPT !.closed = Selection!Closed(read),
                !.sawClosed = IF read /\ Selection!Closed(TRUE) THEN doing.insp.popup ELSE doing.sawClosed])
      \/ Selection!Fail(doing.told, "selection_not_observed")
  BY DEF Selection!Reconcile
<1> DEFINE saw == IF read /\ Selection!Closed(TRUE) THEN doing.insp.popup ELSE doing.sawClosed
           closed == Selection!Closed(read)
<1>2. saw \in Nat /\ closed \in BOOLEAN /\ (closed => saw = doing.insp.popup)
  BY <1>0, <1>1, <1>a DEF Selection!Closed, IsSelecting
<1>3. CASE Selection!Through([doing EXCEPT !.done = Append(@, Selection!Asked), !.sawClosed = saw, !.closed = closed])
  <2> HIDE DEF saw, closed
  <2>1. Append(doing.done, NextOption(doing)) \in Seq(Options)
    BY <1>1, AppendProperties DEF Selectings
  <2> DEFINE f == [doing EXCEPT !.done = Append(doing.done, NextOption(doing)), !.sawClosed = saw, !.closed = closed]
  <2>2. f \in Selectings /\ f.done = Append(doing.done, NextOption(doing)) /\ f.todo = doing.todo
    BY <1>1, <1>2, <2>1 DEF Selectings
  <2>3. Selection!Through(f)
    BY <1>1, <1>3
  <2> QED BY <1>0, <2>2, <2>3, SelectionGoesThrough
<1>4. CASE Selection!Step([Selection!Recovered(read) EXCEPT !.sawClosed = saw])
  <2> HIDE DEF saw, closed
  <2>1. doing' = [Selection!Recovered(read) EXCEPT !.sawClosed = saw] /\ UNCHANGED report
    BY <1>4 DEF Selection!Step
  <2>3. /\ doing' \in Selectings /\ doing'.pc = "reconcile" /\ doing'.todo = doing.todo /\ doing'.done = doing.done
        /\ ~doing'.closed
    BY <1>0, <1>1, <1>2, <2>1, SelectionRecovers
  <2>4. IsSelecting(doing', page, world.kind)
    BY <1>1, <2>3 DEF IsSelecting
  <2> QED BY <1>0, <2>1, <2>3, <2>4, SelectionMoves
<1>5. CASE Selection!Step([doing EXCEPT !.closed = closed, !.sawClosed = saw])
  <2> HIDE DEF saw, closed
  <2>1. doing' = [doing EXCEPT !.closed = closed, !.sawClosed = saw] /\ UNCHANGED report
    BY <1>5 DEF Selection!Step
  <2>2. /\ doing' \in Selectings /\ doing'.pc = "reconcile" /\ doing'.todo = doing.todo /\ doing'.done = doing.done
        /\ doing'.closed = closed /\ doing'.sawClosed = saw /\ doing'.insp = doing.insp
    BY <1>0, <1>1, <1>2, <2>1 DEF Selectings
  <2>3. IsSelecting(doing', page, world.kind)
    BY <1>1, <1>2, <2>2 DEF IsSelecting
  <2> QED BY <1>0, <2>1, <2>2, <2>3, SelectionMoves
<1>6. CASE Selection!Fail(doing.told, "selection_not_observed")
  BY <1>0, <1>6, SelectionStops
<1> QED BY <1>3, <1>4, <1>5, <1>6

\* A search: the text, the option that is active, and Enter.
LEMMA SelectionSearches ==
    SelectionConstants /\ SelectionInv /\ (Selection!SearchInitial \/ Selection!SearchQuery \/ Selection!ProveActive)
        => SelectionInv'
<1>1. ASSUME SelectionInv, Selection!SearchInitial PROVE SelectionInv'
  <2>0. doing # None /\ UNCHANGED <<world, page, retained>>
    BY <1>1 DEF Selection!SearchInitial, Selection!At
  <2>1. doing \in Selectings /\ IsSelecting(doing, page, world.kind)
    BY <1>1, <2>0, SelectionAsked
  <2>2. Selection!Confirm \/ Selection!Step([doing EXCEPT !.pc = "query"])
    BY <1>1 DEF Selection!SearchInitial
  <2>3. CASE Selection!Step([doing EXCEPT !.pc = "query"])
    <3>1. doing' = [doing EXCEPT !.pc = "query"] /\ UNCHANGED report /\ "query" \in SelectionStages
      BY <2>3 DEF Selection!Step, SelectionStages
    <3>2. doing' \in Selectings /\ doing'.pc = "query" /\ doing'.todo = doing.todo /\ doing'.done = doing.done
      BY <2>1, <3>1 DEF Selectings
    <3>3. IsSelecting(doing', page, world.kind)
      BY <2>1, <3>2 DEF IsSelecting
    <3> QED BY <1>1, <2>0, <3>1, <3>2, <3>3, SelectionMoves
  <2> QED BY <1>1, <2>0, <2>2, <2>3, SelectionConfirms
<1>2. ASSUME SelectionInv, Selection!SearchQuery PROVE SelectionInv'
  <2>0. doing # None /\ UNCHANGED <<world, retained>>
    BY <1>2 DEF Selection!SearchQuery, Selection!At
  <2>1. /\ doing \in Selectings /\ Selection!Asked = NextOption(doing) /\ NextOption(doing) \in Options
        /\ IsSelecting(doing, page, world.kind) /\ page \in Controlled /\ OneSelected
    BY <1>2, <2>0, SelectionAsked
  <2>2. CASE Selection!Fail("no", "fill") /\ UNCHANGED page
    BY <1>2, <2>0, <2>2, SelectionStops
  <2>3. CASE ~(Selection!Fail("no", "fill") /\ UNCHANGED page)
    <3> PICK told \in {"yes", "unknown"}, active \in Options \cup {None} :
          /\ page' = [Selection!Opened EXCEPT !.value = Selection!Asked, !.active = active]
          /\ Selection!Step([doing EXCEPT !.pc = "prove", !.query = told, !.inputs = @ + 1])
      BY <1>2, <2>3 DEF Selection!SearchQuery
    <3>1. Selection!Opened \in Controlled /\ Selection!Opened.selected = page.selected
      BY <2>1, SelectionOpens
    <3>2. page' \in Controlled /\ page'.selected = page.selected
      BY <2>1, <3>1 DEF Controlled
    <3>3. doing' = [doing EXCEPT !.pc = "prove", !.query = told, !.inputs = @ + 1] /\ UNCHANGED report
      BY DEF Selection!Step
    <3>4. told \in Verdicts /\ doing.inputs + 1 \in Nat /\ "prove" \in SelectionStages
      BY <2>1 DEF Verdicts, Selectings, SelectionStages
    <3>5. doing' \in Selectings /\ doing'.pc = "prove" /\ doing'.todo = doing.todo /\ doing'.done = doing.done
      BY <2>1, <3>3, <3>4 DEF Selectings
    <3>6. IsSelecting(doing', page', world.kind)
      BY <2>1, <3>5 DEF IsSelecting
    <3>7. OneSelected'
      BY <2>0, <2>1, <3>2 DEF OneSelected
    <3> QED BY <1>2, <2>0, <3>2, <3>3, <3>5, <3>6, <3>7, SelectionStep
  <2> QED BY <2>2, <2>3
<1>3. ASSUME SelectionInv, Selection!ProveActive PROVE SelectionInv'
  <2>0. doing # None /\ UNCHANGED <<world, page, retained>>
    BY <1>3 DEF Selection!ProveActive, Selection!At
  <2>1. doing \in Selectings /\ Selection!Asked = NextOption(doing) /\ IsSelecting(doing, page, world.kind)
    BY <1>3, <2>0, SelectionAsked
  <2>2. CASE Selection!Fail(doing.query, "active_option_unproven")
    BY <1>3, <2>0, <2>2, SelectionStops
  <2>3. CASE ~Selection!Fail(doing.query, "active_option_unproven")
    <3>1. doing' = [doing EXCEPT !.pc = "enter", !.quiet = TRUE] /\ UNCHANGED report /\ page.active = NextOption(doing)
          /\ "enter" \in SelectionStages
      BY <1>3, <2>1, <2>3 DEF Selection!ProveActive, Selection!Step, SelectionStages
    <3>2. doing' \in Selectings /\ doing'.pc = "enter" /\ doing'.todo = doing.todo /\ doing'.done = doing.done
      BY <2>1, <3>1 DEF Selectings
    <3>3. IsSelecting(doing', page, world.kind)
      BY <2>1, <3>1, <3>2 DEF IsSelecting, NextOption
    <3> QED BY <1>3, <2>0, <3>1, <3>2, <3>3, SelectionMoves
  <2> QED BY <2>2, <2>3
<1> QED BY <1>1, <1>2, <1>3

LEMMA SelectionCommits ==
    SelectionConstants /\ SelectionInv /\ (Selection!SearchCommit \/ Selection!SearchReconcile) => SelectionInv'
<1>1. ASSUME SelectionConstants, SelectionInv, Selection!SearchCommit PROVE SelectionInv'
  <2>0. doing # None /\ doing.pc = "enter" /\ UNCHANGED <<world, retained>>
    BY <1>1 DEF Selection!SearchCommit, Selection!At
  <2>1. /\ doing \in Selectings /\ NextOption(doing) \in Options
        /\ IsSelecting(doing, page, world.kind) /\ page \in Controlled /\ OneSelected
    BY <1>1, <2>0, SelectionAsked
  <2>2. "committed" \in SelectionStages
    BY DEF SelectionStages
  <2>3. CASE Selection!Step([doing EXCEPT !.pc = "committed", !.told = "no"]) /\ UNCHANGED page
    <3>1. doing' = [doing EXCEPT !.pc = "committed", !.told = "no"] /\ UNCHANGED report
      BY <2>3 DEF Selection!Step
    <3>2. /\ doing' \in Selectings /\ doing'.pc = "committed" /\ doing'.todo = doing.todo /\ doing'.done = doing.done
          /\ doing'.told = "no"
      BY <2>1, <2>2, <3>1 DEF Selectings, Verdicts
    <3>3. IsSelecting(doing', page, world.kind)
      BY <2>1, <3>2 DEF IsSelecting
    <3> QED BY <1>1, <2>0, <2>3, <3>1, <3>2, <3>3, SelectionMoves
  <2>4. CASE ~(Selection!Step([doing EXCEPT !.pc = "committed", !.told = "no"]) /\ UNCHANGED page)
    <3> PICK told \in {"yes", "unknown"} : Selection!Step([doing EXCEPT !.pc = "committed", !.told = told, !.inputs = @ + 1])
      BY <1>1, <2>4 DEF Selection!SearchCommit
    <3>1. page' \in IF page.active = None THEN {page, [page EXCEPT !.popup = 0]}
                    ELSE {[page EXCEPT !.selected = {page.active}, !.value = page.active, !.popup = 0, !.active = None]}
      BY <1>1, <2>4 DEF Selection!SearchCommit
    <3>2. /\ page' \in Controlled
          /\ IF page.active = None THEN page'.selected = page.selected ELSE page'.selected = {page.active}
      <4>1. CASE page.active = None
        BY <2>1, <3>1, <4>1 DEF Controlled
      <4>2. CASE page.active # None
        <5>1. page.active \in Options
          BY <2>1, <4>2 DEF Controlled
        <5>2. page' = [page EXCEPT !.selected = {page.active}, !.value = page.active, !.popup = 0, !.active = None]
          BY <3>1, <4>2
        <5> QED BY <2>1, <4>2, <5>1, <5>2 DEF Controlled
      <4> QED BY <4>1, <4>2
    <3>3. OneSelected'
      <4>1. (\E o : page.selected \subseteq {o}) => \E o : page'.selected \subseteq {o}
        BY <3>2
      <4> QED BY <2>0, <2>1, <4>1 DEF OneSelected
    <3>4. doing' = [doing EXCEPT !.pc = "committed", !.told = told, !.inputs = @ + 1] /\ UNCHANGED report
      BY DEF Selection!Step
    <3>5. told \in Verdicts /\ doing.inputs + 1 \in Nat
      BY <2>1 DEF Verdicts, Selectings
    <3>6. /\ doing' \in Selectings /\ doing'.pc = "committed" /\ doing'.todo = doing.todo /\ doing'.done = doing.done
          /\ doing'.quiet = doing.quiet
      BY <2>1, <2>2, <3>4, <3>5 DEF Selectings
    <3>7. doing.quiet => page'.selected = {NextOption(doing)}
      <4>1. ASSUME doing.quiet PROVE page.active = NextOption(doing) /\ page.active # None
        BY <1>1, <2>0, <2>1, <4>1 DEF IsSelecting, SelectionConstants
      <4> QED BY <3>2, <4>1
    <3>8. IsSelecting(doing', page', world.kind)
      BY <2>1, <3>6, <3>7 DEF IsSelecting, NextOption
    <3> QED BY <1>1, <2>0, <3>2, <3>3, <3>4, <3>6, <3>8, SelectionStep
  <2> QED BY <2>3, <2>4
<1>2. ASSUME SelectionInv, Selection!SearchReconcile PROVE SelectionInv'
  <2>0. doing # None /\ UNCHANGED <<world, page, retained>>
    BY <1>2 DEF Selection!SearchReconcile, Selection!At
  <2>1. Selection!Confirm \/ Selection!Fail(Selection!AggregateDispatch, "effect_unconfirmed")
    BY <1>2 DEF Selection!SearchReconcile
  <2> QED BY <1>2, <2>0, <2>1, SelectionConfirms, SelectionStops
<1> QED BY <1>1, <1>2

\* What the page does on its own is no longer left alone.
LEMMA SelectionPage == SelectionConstants /\ SelectionInv /\ Selection!PageChanges => SelectionInv'
<1> SUFFICES ASSUME SelectionConstants, SelectionInv, Selection!PageChanges PROVE SelectionInv'
  OBVIOUS
<1>0. page \in Controlled /\ OneSelected /\ world' = world /\ report' = report
  BY DEF SelectionInv, SelectionTyped, Selection!PageChanges
<1>1. page' \in Controlled /\ OneSelected'
  <2>1. ASSUME page' \in Controlled, page'.selected = page.selected PROVE page' \in Controlled /\ OneSelected'
    BY <1>0, <2>1 DEF OneSelected
  <2>2. page.next \in Nat /\ page.next + 1 \in Nat /\ page.doc + 1 \in Nat
    BY <1>0 DEF Controlled
  <2>3. CASE page' = [page EXCEPT !.node = page.next, !.next = @ + 1]
    BY <1>0, <2>1, <2>2, <2>3 DEF Controlled
  <2>4. CASE page' = [page EXCEPT !.node = 0] \/ page' = [page EXCEPT !.popup = 0]
    BY <1>0, <2>1, <2>4 DEF Controlled
  <2>5. CASE page' = Selection!Opened
    BY <1>0, <2>1, <2>5, SelectionOpens
  <2>6. CASE \E o \in Options : page' = [page EXCEPT !.selected = Selection!Clicked(o)]
    <3> PICK o \in Options : page' = [page EXCEPT !.selected = Selection!Clicked(o)]
      BY <2>6
    <3>1. Selection!Clicked(o) \in SUBSET Options /\ (~world.multiple => Selection!Clicked(o) \subseteq {o})
      BY <1>0, SelectionOne
    <3>2. page' \in Controlled /\ page'.selected = Selection!Clicked(o)
      BY <1>0, <3>1 DEF Controlled
    <3> QED BY <1>0, <3>1, <3>2 DEF OneSelected
  <2>7. CASE \E o \in Options : page' = [page EXCEPT !.active = o]
    BY <1>0, <2>1, <2>7 DEF Controlled
  <2>8. CASE page' = [page EXCEPT !.doc = @ + 1, !.node = page.next, !.next = @ + 1, !.popup = 0, !.selected = {},
                                   !.value = None, !.active = None]
    <3>1. page' \in Controlled /\ page'.selected = {}
      BY <1>0, <2>2, <2>8 DEF Controlled
    <3> QED BY <3>1 DEF OneSelected
  <2> QED BY <2>3, <2>4, <2>5, <2>6, <2>7, <2>8 DEF Selection!PageChanges
<1>2. retained' \in {None, retained}
  BY DEF Selection!PageChanges
<1>3. CASE doing = None
  <2>1. doing' = None
    BY <1>3 DEF Selection!PageChanges
  <2> QED BY <1>0, <1>1, <1>2, <2>1 DEF SelectionInv, SelectionTyped
<1>4. CASE doing # None
  <2>1. doing' = [doing EXCEPT !.quiet = FALSE]
    BY <1>4 DEF Selection!PageChanges
  <2>2. doing \in Selectings /\ retained = None /\ IsSelecting(doing, page, world.kind)
    BY <1>4, SelectionAsked
  <2>3. /\ doing' \in Selectings /\ ~doing'.quiet /\ doing'.pc = doing.pc /\ doing'.todo = doing.todo /\ doing'.done = doing.done
        /\ doing'.before = doing.before /\ doing'.desired = doing.desired /\ doing'.closed = doing.closed
        /\ doing'.sawClosed = doing.sawClosed /\ doing'.insp = doing.insp
    BY <2>1, <2>2 DEF Selectings
  <2>4. NextOption(doing') = NextOption(doing)
    BY <2>3 DEF NextOption
  <2>5. IsSelecting(doing', page', world.kind)
    BY <2>2, <2>3, <2>4 DEF IsSelecting
  <2>6. UNCHANGED <<world, retained, report>>
    BY <1>0, <1>2, <2>2
  <2> QED BY <1>1, <1>4, <2>3, <2>5, <2>6, SelectionStep
<1> QED BY <1>3, <1>4

LEMMA SelectionNext == SelectionConstants /\ SelectionInv /\ [Selection!Next]_(Selection!vars) => SelectionInv'
<1> SUFFICES ASSUME SelectionConstants, SelectionInv, [Selection!Next]_(Selection!vars) PROVE SelectionInv'
  OBVIOUS
<1>1. CASE UNCHANGED Selection!vars
  BY <1>1 DEF Selection!vars, SelectionInv, SelectionTyped, OneSelected
<1>2. CASE Selection!Next
  BY <1>2, SelectionBegin, SelectionAgain, SelectionNative, SelectionPlans, SelectionClicks, SelectionReconciles,
     SelectionSearches, SelectionCommits, SelectionPage DEF Selection!Next
<1> QED BY <1>1, <1>2

LEMMA SelectionSafe == SelectionInv => Selection!TypeOK /\ Selection!ClosedIsObserved
<1> SUFFICES ASSUME SelectionInv PROVE Selection!TypeOK /\ Selection!ClosedIsObserved
  OBVIOUS
<1>1. \A S : S # {} /\ (\E o : S \subseteq {o}) => Selection!Cardinality(S) = 1
  <2>1. \A o : Selection!Cardinality({o}) = Cardinality({o})
    BY Zenon DEF Selection!Cardinality, Cardinality
  <2>2. ASSUME NEW S, NEW o, S # {}, S \subseteq {o} PROVE Selection!Cardinality(S) = 1
    <3>1. S = {o}
      BY <2>2
    <3>2. Cardinality({o}) = 1
      BY FS_Singleton
    <3> QED BY <2>1, <3>1, <3>2
  <2> QED BY <2>2
<1>2. Selection!Cardinality({}) = 0
  <2>1. Selection!Cardinality({}) = Cardinality({})
    BY Zenon DEF Selection!Cardinality, Cardinality
  <2> QED BY <2>1, FS_EmptySet
<1>3. OneSelected => (~world.multiple /\ world.kind # "native" => Selection!Cardinality(page.selected) <= 1)
  BY <1>1, <1>2 DEF OneSelected
<1>4. Selection!TypeOK
  BY <1>3 DEF SelectionInv, SelectionTyped, IsSelecting, Controlled, Selection!TypeOK
<1>5. Selection!ClosedIsObserved
  BY DEF SelectionInv, IsSelecting, Selection!ClosedIsObserved, Selection!At
<1> QED BY <1>4, <1>5

\* Each operation has its stage.
LEMMA SelectionPlaces == Selection!Next /\ doing # None =>
    \/ Selection!PageChanges
    \/ doing.pc = "write" /\ Selection!NativeWrite
    \/ doing.pc = "reconcile" /\ Selection!Reconcile
    \/ doing.pc \notin {"write", "reconcile"}
<1>1. Selection!Inspect \/ Selection!SelectOption \/ Selection!SelectOptions => doing = None
  BY DEF Selection!Inspect, Selection!SelectOption, Selection!SelectOptions
<1>2. /\ Selection!InspectAgain => doing.pc = "again"
      /\ Selection!NativeRead => doing.pc = "native"
      /\ Selection!NativeWrite => doing.pc = "write"
      /\ Selection!NativeAfter => doing.pc = "after"
  BY Zenon DEF Selection!InspectAgain, Selection!NativeRead, Selection!NativeWrite, Selection!NativeAfter, Selection!At
<1>3. /\ Selection!Baseline => doing.pc = "baseline"
      /\ Selection!Plan => doing.pc = "plan"
      /\ Selection!Click => doing.pc = "click"
      /\ Selection!Reconcile => doing.pc = "reconcile"
  BY Zenon DEF Selection!Baseline, Selection!Plan, Selection!Click, Selection!Reconcile, Selection!At
<1>4. /\ Selection!SearchInitial => doing.pc = "search"
      /\ Selection!SearchQuery => doing.pc \in {"query", "search"}
      /\ Selection!ProveActive => doing.pc = "prove"
      /\ Selection!SearchCommit => doing.pc = "enter"
      /\ Selection!SearchReconcile => doing.pc = "committed"
  BY DEF Selection!SearchInitial, Selection!SearchQuery, Selection!ProveActive, Selection!SearchCommit,
     Selection!SearchReconcile, Selection!At
<1> QED BY <1>1, <1>2, <1>3, <1>4 DEF Selection!Next

LEMMA SelectionWrites == SelectionInv /\ [Selection!Next]_(Selection!vars) => Selection!NativeKeepsOthers
<1> SUFFICES ASSUME SelectionInv, [Selection!Next]_(Selection!vars), doing # None, doing.pc = "write", doing.quiet, world.multiple,
                    doing'.inputs # doing.inputs
             PROVE  {o \in Options : (o \in page.selected) # (o \in page'.selected)} = {Selection!Asked}
  BY DEF Selection!NativeKeepsOthers, Selection!At
<1>1. /\ doing \in Selectings /\ Selection!Asked = NextOption(doing) /\ NextOption(doing) \in Options
      /\ IsSelecting(doing, page, world.kind) /\ page \in Controlled
  BY SelectionAsked
<1>2. ~UNCHANGED Selection!vars
  BY DEF Selection!vars
<1>3. ~Selection!PageChanges
  <2>1. [doing EXCEPT !.quiet = FALSE].inputs = doing.inputs
    BY <1>1 DEF Selectings
  <2> QED BY <2>1 DEF Selection!PageChanges
<1>4. Selection!NativeWrite
  BY <1>2, <1>3, SelectionPlaces
<1>5. page.node = doing.insp.node /\ page' = [page EXCEPT !.selected = Selection!Indexes]
  <2>1. [doing EXCEPT !.pc = "after", !.told = "no"].inputs = doing.inputs
    BY <1>1 DEF Selectings
  <2> QED BY <1>4, <2>1 DEF Selection!NativeWrite, Selection!Step
<1>6. page'.selected = Selection!Indexes
  BY <1>1, <1>5 DEF Controlled
<1>7. doing.before = page.selected /\ (NextOption(doing) \in doing.before) # doing.desired /\ doing.desired \in BOOLEAN
  BY <1>1, <1>5 DEF IsSelecting, Selectings
<1>8. page'.selected = IF doing.desired THEN page.selected \cup {NextOption(doing)} ELSE page.selected \ {NextOption(doing)}
  BY <1>1, <1>6, <1>7 DEF Selection!Indexes
<1> QED BY <1>1, <1>7, <1>8

LEMMA SelectionProven ==
    SelectionConstants /\ SelectionInv /\ [Selection!Next]_(Selection!vars) => Selection!ConfirmedIsSelected
<1> SUFFICES ASSUME SelectionConstants, SelectionInv, [Selection!Next]_(Selection!vars),
                    doing # None, doing.pc = "reconcile", Selection!Required,
                    doing' = None => report'.error = "none", doing' # None => doing'.done # doing.done
             PROVE  (Selection!Asked \in page.selected) = doing.desired
  BY DEF Selection!ConfirmedIsSelected, Selection!At
<1>1. doing \in Selectings
  BY SelectionAsked
<1>2. ASSUME NEW f, f.done = doing.done, doing' = f, f \in Selectings PROVE FALSE
  BY <1>2 DEF SelectionConstants
<1>3. ~UNCHANGED Selection!vars
  BY <1>1, <1>2 DEF Selection!vars
<1>4. ~Selection!PageChanges
  <2>1. [doing EXCEPT !.quiet = FALSE].done = doing.done /\ [doing EXCEPT !.quiet = FALSE] \in Selectings
    BY <1>1 DEF Selectings
  <2> QED BY <1>2, <2>1 DEF Selection!PageChanges
<1>5. Selection!Reconcile
  BY <1>3, <1>4, SelectionPlaces
<1> PICK read \in BOOLEAN, scope \in {Selection!Connected, Selection!Connected \/ page.doc = doing.insp.doc} :
      \/ Selection!Satisfied(read, scope)
      \/ Selection!Step([Selection!Recovered(read) EXCEPT
                !.sawClosed = IF read /\ Selection!Closed(TRUE) THEN doing.insp.popup ELSE doing.sawClosed])
      \/ Selection!Step([doing EXCEPT !.closed = Selection!Closed(read),
                !.sawClosed = IF read /\ Selection!Closed(TRUE) THEN doing.insp.popup ELSE doing.sawClosed])
      \/ Selection!Fail(doing.told, "selection_not_observed")
  BY <1>5 DEF Selection!Reconcile
<1> DEFINE saw == IF read /\ Selection!Closed(TRUE) THEN doing.insp.popup ELSE doing.sawClosed
           closed == Selection!Closed(read)
<1>a. page \in Controlled /\ saw \in Nat /\ closed \in BOOLEAN
  <2>1. doing.insp.popup \in Nat /\ doing.sawClosed \in Nat /\ doing.closed \in BOOLEAN
    BY <1>1 DEF Selectings, Observations
  <2>2. page \in Controlled
    BY SelectionAsked
  <2> QED BY <2>1, <2>2 DEF Selection!Closed
<1>8. CASE Selection!Satisfied(read, scope)
  <2>1. doing.desired \in BOOLEAN
    BY <1>1 DEF Selectings
  <2>2. ~Selection!ClosureCounts(read)
    BY DEF Selection!ClosureCounts
  <2>3. Selection!Shown(Selection!Asked) = (IF doing.desired THEN "yes" ELSE "no") => (Selection!Asked \in page.selected) = doing.desired
    BY <2>1 DEF Selection!Shown
  <2>4. world.shows = "chip" /\ Selection!Chip(Selection!Asked) = doing.desired => (Selection!Asked \in page.selected) = doing.desired
    BY <2>1 DEF Selection!Chip
  <2> QED BY <1>8, <2>2, <2>3, <2>4 DEF Selection!Satisfied
<1>9. CASE Selection!Step([Selection!Recovered(read) EXCEPT !.sawClosed = saw])
  <2> HIDE DEF saw, closed
  <2>1. doing' = [Selection!Recovered(read) EXCEPT !.sawClosed = saw]
    BY <1>9 DEF Selection!Step
  <2>2. doing' \in Selectings /\ doing'.done = doing.done
    BY <1>1, <1>a, <2>1, SelectionRecovers
  <2> QED BY <1>2, <2>2
<1>10. CASE Selection!Step([doing EXCEPT !.closed = closed, !.sawClosed = saw])
  <2> HIDE DEF saw, closed
  <2>1. doing' = [doing EXCEPT !.closed = closed, !.sawClosed = saw]
    BY <1>10 DEF Selection!Step
  <2>2. doing' \in Selectings /\ doing'.done = doing.done
    BY <1>1, <1>a, <2>1 DEF Selectings
  <2> QED BY <1>2, <2>2
<1>11. CASE Selection!Fail(doing.told, "selection_not_observed")
  BY <1>11 DEF Selection!Fail, Selection!Answer
<1> QED BY <1>8, <1>9, <1>10, <1>11

LEMMA SelectionCommitted == SelectionInv => Selection!CommitsWhatWasAsked
BY SelectionAsked DEF SelectionInv, IsSelecting, Selection!CommitsWhatWasAsked, Selection!At

-----------------------------------------------------------------------------
\* A behaviour begins with one of the parts, and that part goes on.
LEMMA PartsBegin == TargetsInit =>
    /\ part = "click" => Click!Init
    /\ part = "popup" => Popup!Init
    /\ part = "selection" => Selection!Init
    /\ Init
BY DEF TargetsInit, CaptureBegins, ClickBegins, PopupBegins, SelectionBegins

LEMMA PartsGoOn == [TargetsNext]_targets =>
    /\ part' = part
    /\ part = "click" => [Click!Next]_(Click!vars)
    /\ part = "popup" => [Popup!Next]_(Popup!vars)
    /\ part = "selection" => [Selection!Next]_(Selection!vars)
    /\ [Next]_vars
<1>1. CASE UNCHANGED targets
  BY <1>1 DEF targets, vars, Click!vars, Popup!vars, Selection!vars
<1>2. CASE TargetsNext
  BY <1>2 DEF TargetsNext, CaptureSteps, ClickSteps, PopupSteps, SelectionSteps,
     AloneClickAction, AloneControlPopup, AloneControlSelection
<1> QED BY <1>1, <1>2

\* Whichever part it is, snapshots are captured as SnapshotCapture says: what is
\* proved of them above holds of the parts together.
LEMMA TargetsCapture == TargetsSpec => Spec
<1>1. TargetsInit => Init
  BY PartsBegin
<1>2. [TargetsNext]_targets => [Next]_vars
  BY PartsGoOn
<1> QED BY <1>1, <1>2, PTL DEF TargetsSpec, Spec

\* However a click falls back, recovers or loses its evidence, no input follows
\* one that has put an event on the target, and a click that is reported did
\* reach it, once (click-executor.ts, click-dispatch.ts).
THEOREM ClicksReachOnce == TargetsSpec => ClicksOnce
<1> DEFINE Sound == part = "click" => ClickInv
           Safe == part = "click" => Click!TypeOK /\ Click!ReportedClickIsReal
           NoneTwice == part = "click" => Click!NoReplay
<1>1. TargetsInit => Sound
  BY ClickInit, PartsBegin
<1>2. Sound /\ [TargetsNext]_targets => Sound'
  BY ClickNext, PartsGoOn
<1>3. Sound => Safe
  BY ClickSafe
<1>4. Sound => [NoneTwice]_targets
  BY ClickSafe
<1> HIDE DEF Sound, Safe, NoneTwice
<1>5. TargetsSpec => []Safe /\ [][NoneTwice]_targets
  BY <1>1, <1>2, <1>3, <1>4, PTL DEF TargetsSpec
<1> QED BY <1>5 DEF ClicksOnce, Safe, NoneTwice

\* An inspection makes no input but those it was asked for, takes a popup for
\* the opener's doing only when it was not there before, and accepts a decision
\* on its owner once (inspection.ts, popup-association.ts).
THEOREM PopupsBelongToTheirControl == ASSUME PopupConstants PROVE TargetsSpec => PopupsBelong
<1> DEFINE Sound == part = "popup" => PopupInv
           Safe == part = "popup" => Popup!TypeOK /\ Popup!InputsAsAsked /\ Popup!CausedByOpener
           Once == part = "popup" => Popup!DecisionsOnce
<1>1. TargetsInit => Sound
  BY PopupInit, PartsBegin
<1>2. Sound /\ [TargetsNext]_targets => Sound'
  BY PopupNext, PartsGoOn
<1>3. Sound => Safe
  BY PopupSafe
<1>4. Sound /\ [TargetsNext]_targets => [Once]_targets
  BY PopupDecides, PartsGoOn
<1> HIDE DEF Sound, Safe, Once
<1>5. TargetsSpec => []Safe /\ [][Once]_targets
  BY <1>1, <1>2, <1>3, <1>4, PTL DEF TargetsSpec
<1> QED BY <1>5 DEF PopupsBelong, Safe, Once

\* A selection leaves the other options of a native select alone, is confirmed
\* by the option itself or by the very popup that closed, and a search that is
\* confirmed selected the option asked for (selection.ts).
THEOREM SelectionsSelectWhatWasAsked == ASSUME SelectionConstants PROVE TargetsSpec => SelectsWhatWasAsked
<1> DEFINE Sound == part = "selection" => SelectionInv
           Safe == part = "selection" => Selection!TypeOK /\ Selection!ClosedIsObserved
           AsAsked == part = "selection" =>
               /\ Selection!NativeKeepsOthers /\ Selection!ConfirmedIsSelected /\ Selection!CommitsWhatWasAsked
<1>1. TargetsInit => Sound
  BY SelectionInit, PartsBegin
<1>2. Sound /\ [TargetsNext]_targets => Sound'
  BY SelectionNext, PartsGoOn
<1>3. Sound => Safe
  BY SelectionSafe
<1>4. Sound /\ [TargetsNext]_targets => [AsAsked]_targets
  BY SelectionWrites, SelectionProven, SelectionCommitted, PartsGoOn
<1> HIDE DEF Sound, Safe, AsAsked
<1>5. TargetsSpec => []Safe /\ [][AsAsked]_targets
  BY <1>1, <1>2, <1>3, <1>4, PTL DEF TargetsSpec
<1> QED BY <1>5 DEF SelectsWhatWasAsked, Safe, AsAsked
=============================================================================
