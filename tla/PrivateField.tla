----------------------------- MODULE PrivateField -----------------------------
(* The handoff of one field (controller/handoff/private-field.ts): the agent   *)
(* asks for it, the person fills the highlighted element, and the worker, which *)
(* keeps the handoff in its memory, compares that element's state with the one  *)
(* before. The page renders the field anew, writes into it, navigates or is     *)
(* closed; the worker may be replaced.                                          *)
EXTENDS Naturals
CONSTANTS None, MaxVersion, MaxNodes, MaxWorkers
VARIABLES page,   \* open or closed, its document, the element of the field (0: none), how many there were and those with a value
          docOf,  \* the document of each element
          known,  \* the document the controller knows of (frameDocumentVersions)
          held,   \* None or the handoff (privateFieldHandoff)
          lined,  \* of each element, 0 or the worker that highlighted it
          op,     \* None or the command at work
          worker, \* the number of the worker
          turn,   \* None or the element whose field the person was asked to fill
          typed,  \* the elements the person wrote into since
          changed,\* the elements that got or lost a value since the state before was read
          report  \* None or the answer of the latest request or resume
vars == <<page, docOf, known, held, lined, op, worker, turn, typed, changed, report>>
Nodes == 1..MaxNodes

Init ==
    /\ page \in [open : {TRUE}, version : {0}, field : {1}, made : {1}, filled : SUBSET {1}]
    /\ docOf = [n \in Nodes |-> 0] /\ known = 0 /\ held = None /\ lined = [n \in Nodes |-> 0] /\ op = None
    /\ worker = 1 /\ turn = None /\ typed = {} /\ changed = {} /\ report = None

-----------------------------------------------------------------------------
\* The page and the person.
Rest == <<known, held, lined, op, worker, turn, report>>
\* Another element takes the field's place, with a value or without, or none does.
Renders ==
    /\ page.open
    /\ \/ /\ page.made < MaxNodes
          /\ \E with \in SUBSET {page.made + 1} :
                page' = [page EXCEPT !.field = page.made + 1, !.made = @ + 1, !.filled = @ \cup with]
          /\ docOf' = [docOf EXCEPT ![page.made + 1] = page.version]
       \/ page.field # 0 /\ page' = [page EXCEPT !.field = 0] /\ UNCHANGED docOf
    /\ UNCHANGED <<typed, changed, Rest>>
Navigates ==
    /\ page.open /\ page.version < MaxVersion
    /\ page' = [page EXCEPT !.version = @ + 1, !.field = 0]
    /\ UNCHANGED <<docOf, typed, changed, Rest>>
Closes == page.open /\ page' = [page EXCEPT !.open = FALSE, !.field = 0] /\ UNCHANGED <<docOf, typed, changed, Rest>>
\* Somebody writes into the field or empties it.
Written ==
    /\ page.field # 0 /\ changed' = changed \cup {page.field}
    /\ page' = [page EXCEPT !.filled = IF page.field \in @ THEN @ \ {page.field} ELSE @ \cup {page.field}]
PageWrites == Written /\ UNCHANGED <<docOf, typed, Rest>>
PersonWrites == turn # None /\ Written /\ typed' = typed \cup {page.field} /\ UNCHANGED <<docOf, Rest>>
FrameNavigated ==
    /\ known < page.version /\ known' = known + 1
    /\ UNCHANGED <<page, docOf, held, lined, op, worker, turn, typed, changed, report>>

-----------------------------------------------------------------------------
At(where) == op # None /\ op.at = where
World == <<page, docOf, known, worker, typed>>
\* A handle answers as long as its document is there, also when its element is out of the page.
Answers(node) == page.open /\ docOf[node] = page.version
Step(next) == op' = next /\ UNCHANGED <<World, held, lined, turn, changed, report>>
Begins(next) == op = None /\ op' = next /\ report' = None /\ UNCHANGED <<World, held, lined, changed>>
Fails == op' = None /\ report' = [kind |-> "failed"] /\ UNCHANGED <<World, held, lined, turn, changed>>

\* While a field is private no other command is let in (authorizeBrowserCommand).
Authorized == held = None
Look == Authorized /\ Begins([at |-> "look", node |-> 0]) /\ UNCHANGED turn
LookEnds == At("look") /\ Step(None)

\* The element is retained by a form summary, or found by its role and name.
Request ==
    /\ Authorized /\ page.open /\ known = page.version /\ page.field # 0
    /\ Begins([at |-> "inspect", node |-> page.field]) /\ UNCHANGED turn
InspectPrivateField ==
    /\ At("inspect")
    /\ \/ Answers(op.node) /\ op.node = page.field /\ Step([op EXCEPT !.at = "before"])
       \/ Fails
\* The page is activated, the element scrolled to and its state read.
Before ==
    /\ At("before")
    /\ \/ /\ Answers(op.node)
          /\ op' = [at |-> "highlight", node |-> op.node, before |-> op.node \in page.filled] /\ changed' = {}
          /\ UNCHANGED <<World, held, lined, turn, report>>
       \/ Fails
Highlight ==
    /\ At("highlight")
    /\ \/ /\ Answers(op.node) /\ lined' = [lined EXCEPT ![op.node] = worker]
          /\ held' = [node |-> op.node, version |-> known, before |-> op.before] /\ op' = [at |-> "told", node |-> op.node]
          /\ UNCHANGED <<World, turn, changed, report>>
       \/ ~Answers(op.node) /\ Fails
\* The summary of the page may fail, and so the request, with the handoff retained.
Requested ==
    /\ At("told") /\ op' = None
    /\ \/ report' = [kind |-> "requested"] /\ turn' = op.node /\ typed' = {}
       \/ report' = [kind |-> "failed"] /\ UNCHANGED <<turn, typed>>
    /\ UNCHANGED <<page, docOf, known, worker, held, lined, changed>>

\* The person says that the field is done; its document must still be there.
SameDocument == page.open /\ held.version = known
Resume ==
    /\ held # None /\ turn' = None
    /\ Begins([at |-> IF SameDocument THEN "observe" ELSE "restore", node |-> held.node, observed |-> None])
FieldNow(node) == page.field
Retained(node) == node
\* The element's value, and whether the page has it for a valid one.
States(node) == [filled : {node \in page.filled}, wrong : BOOLEAN]
\* The state is read, or not in time; when the document went, the handoff is over.
ObservePrivateFieldState ==
    /\ At("observe")
    /\ \/ Answers(op.node) /\ \E state \in States(Retained(op.node)) : Step([op EXCEPT !.at = "restore", !.observed = state])
       \/ Step([op EXCEPT !.at = "restore"])
       \/ ~Answers(op.node) /\ op' = None /\ held' = None /\ report' = [kind |-> "failed"] /\ UNCHANGED <<World, lined, turn, changed>>
\* An element that does not answer keeps nothing to restore.
Restore ==
    /\ At("restore") /\ held' = None /\ op' = [at |-> "end", node |-> op.node, observed |-> op.observed, before |-> held.before]
    /\ lined' = IF Answers(op.node) THEN [lined EXCEPT ![op.node] = 0] ELSE lined
    /\ UNCHANGED <<World, turn, changed, report>>
Outcome(observed, before) ==
    IF observed = None THEN "target_changed" ELSE IF observed.wrong THEN "validation_error"
    ELSE IF observed.filled # before THEN "completed" ELSE IF before THEN "unverifiable_change" ELSE "unchanged"
Resumed ==
    /\ At("end") /\ op' = None
    /\ report' = [kind |-> "resumed", node |-> op.node, outcome |-> Outcome(op.observed, op.before), changed |-> changed, typed |-> typed \cap page.filled]
    /\ changed' = {} /\ typed' = {} /\ UNCHANGED <<page, docOf, known, worker, held, lined, turn>>

\* Stopped, recovered or reloaded: the handoff was in the worker's memory only.
Replaced ==
    /\ worker < MaxWorkers /\ worker' = worker + 1 /\ held' = None /\ op' = None
    /\ UNCHANGED <<page, docOf, known, lined, turn, typed, changed, report>>

Next == Renders \/ Navigates \/ Closes \/ PageWrites \/ PersonWrites \/ FrameNavigated \/ Look \/ LookEnds
        \/ Request \/ InspectPrivateField \/ Before \/ Highlight \/ Requested
        \/ Resume \/ ObservePrivateFieldState \/ Restore \/ Resumed \/ Replaced
Spec == Init /\ [][Next]_vars

-----------------------------------------------------------------------------
\* A handoff under way is of the element its command is at.
TypeOK ==
    /\ known <= page.version /\ page.field <= page.made /\ lined \in [Nodes -> 0..worker]
    /\ held # None => held.version <= known /\ docOf[held.node] = held.version
    /\ At("restore") \/ At("observe") => held # None /\ op.node = held.node

\* "completed" is said of the very element that was highlighted, and it did get
\* or lose a value meanwhile (resumePrivateFieldHandoff).
CompletedIsAChange == report # None /\ report.kind = "resumed" /\ report.outcome = "completed" => report.node \in report.changed

\* A worker without a handoff has left no element of the page highlighted.
OutlineGone == op = None /\ held = None => \A n \in Nodes : lined[n] = worker => ~Answers(n)

\* README.md:124, "return only completed/unchanged/validation-error evidence for
\* that field": when a field is said to be unchanged there is no element with
\* what the person wrote. The code does not keep it: the one the page had put in
\* the field's place is not looked at.
UnchangedIsUntouched == report # None /\ report.kind = "resumed" /\ report.outcome = "unchanged" => report.typed = {}

\* README.md:123, "while agent page access is blocked". The code does not keep
\* it: a worker that replaces this one knows of no handoff.
AccessIsBlocked == At("look") => turn = None
=============================================================================
