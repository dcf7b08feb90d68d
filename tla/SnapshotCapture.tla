---------------------------- MODULE SnapshotCapture ----------------------------
(* One semantic snapshot (observation/page.ts) and the capabilities it retains *)
(* with its text: the root of its scope and an editor for each textbox         *)
(* reference (observation/snapshot-inputs.ts). Each part is asked of the page  *)
(* in a call of its own, between which the page renders and navigates; the     *)
(* controller learns of a navigation by an event (lifecycle/context.ts).       *)
EXTENDS Naturals, Sequences, FiniteSets
CONSTANTS None, Editors, Roots, MaxVersion, Snapshots
ASSUME SnapshotAssumption == MaxVersion \in Nat /\ Snapshots \in Nat
VARIABLES version, \* the document of the frame
          known,   \* the document the controller knows of (frameDocumentVersions)
          root,    \* the element the scope's locator finds: a modal or the body
          list,    \* the editors in it, in the order of the page
          op,      \* None or the snapshot under way
          kept,    \* None or the latest snapshot (observedSnapshots)
          taken    \* how many snapshots there were
vars == <<version, known, root, list, op, kept, taken>>

\* An element of a document; its reference is its own as long as it exists.
In(e) == [element |-> e, version |-> version]
Shown == {list[i] : i \in DOMAIN list}
Lists == UNION {{l \in [1..n -> Editors] : \A i, j \in 1..n : i # j => l[i] # l[j]} : n \in 0..Cardinality(Editors)}

Init == version = 0 /\ known = 0 /\ root \in Roots /\ list \in Lists /\ op = None /\ kept = None /\ taken = 0

-----------------------------------------------------------------------------
\* The page: its editors come, go and are ordered anew, another modal opens.
Renders == root' \in Roots /\ list' \in Lists /\ UNCHANGED <<version, known, op, kept, taken>>
Navigates ==
    /\ version < MaxVersion /\ version' = version + 1 /\ root' \in Roots /\ list' \in Lists
    /\ UNCHANGED <<known, op, kept, taken>>

\* framenavigated: the snapshot of the document that went is discarded. No call
\* is answered by a document before its event was.
FrameNavigated ==
    /\ known < version /\ known' = known + 1 /\ kept' = None
    /\ UNCHANGED <<version, root, list, op, taken>>

-----------------------------------------------------------------------------
At(where) == op # None /\ op.at = where
Asks(where) == At(where) /\ known = version
Page == <<version, known, root, list, taken>>
\* A snapshot that fails leaves the one before it.
Fails == op' = None /\ UNCHANGED kept

Begin ==
    /\ op = None /\ taken < Snapshots /\ taken' = taken + 1
    /\ op' = [at |-> "text", version |-> known, root |-> None, text |-> {}, scope |-> None,
              total |-> 0, index |-> 1, handle |-> None, editors |-> {}]
    /\ UNCHANGED <<version, known, root, list, kept>>

\* The text of the root, without the popups that are not rendered.
AriaSnapshot ==
    /\ Asks("text")
    /\ \E shown \in SUBSET Shown :
        op' = [op EXCEPT !.at = "scope", !.root = In(root), !.text = {In(e) : e \in shown}]
    /\ UNCHANGED <<kept, Page>>
\* The root's handle is found by its locator once more.
ScopeHandle ==
    /\ Asks("scope") /\ op' = [op EXCEPT !.at = "count", !.scope = In(root)] /\ UNCHANGED <<kept, Page>>
CountEditors ==
    /\ Asks("count") /\ op' = [op EXCEPT !.at = "editor", !.total = Len(list)] /\ UNCHANGED <<kept, Page>>
\* The next editor by its place, and by its place again the reference it has.
\* A reference the text does not have is dropped, one bound before is an error.
EditorHandle ==
    /\ Asks("editor")
    /\ IF op.index > op.total THEN op' = [op EXCEPT !.at = "view"] /\ UNCHANGED kept
       ELSE IF op.index \in DOMAIN list THEN op' = [op EXCEPT !.at = "bind", !.handle = In(list[op.index])] /\ UNCHANGED kept
       ELSE Fails
    /\ UNCHANGED Page
NeverBound(ref) == FALSE
Bound(ref) == \E b \in op.editors : b.ref = ref
Bind ==
    /\ Asks("bind")
    /\ IF op.index \notin DOMAIN list THEN Fails
       ELSE LET ref == In(list[op.index]) IN
            /\ UNCHANGED kept
            /\ op' = [op EXCEPT !.at = "editor", !.index = @ + 1,
                                !.editors = IF ref \in op.text THEN @ \cup {[ref |-> ref, handle |-> op.handle]} ELSE @]
            /\ ~(ref \in op.text /\ Bound(ref))
    /\ UNCHANGED Page
AlreadyBound ==
    /\ Asks("bind") /\ op.index \in DOMAIN list /\ In(list[op.index]) \in op.text /\ Bound(In(list[op.index])) /\ Fails
    /\ UNCHANGED Page

\* The details of scroll surfaces add references, the view leaves some out, and
\* with them their editors (discardOmittedSnapshotCapabilities).
KeepsAll(text) == op.editors
Retained(text) == {b \in op.editors : b.ref \in text}
View ==
    /\ Asks("view")
    /\ \E text \in SUBSET (op.text \cup {In(e) : e \in Shown}) :
        op' = [op EXCEPT !.at = "retain", !.text = text, !.editors = Retained(text)]
    /\ UNCHANGED <<kept, Page>>
\* The comparison of the document and the snapshot's retention are one step.
AnyDocument == TRUE
SameDocument == known = op.version
Retain ==
    /\ At("retain") /\ op' = None
    /\ kept' = IF SameDocument THEN [version |-> known, root |-> op.root, text |-> op.text, scope |-> op.scope, editors |-> op.editors] ELSE kept
    /\ UNCHANGED Page
\* A call is not answered in time.
TimesOut == op # None /\ Fails /\ UNCHANGED Page

Next == Renders \/ Navigates \/ FrameNavigated \/ Begin \/ AriaSnapshot \/ ScopeHandle \/ CountEditors
        \/ EditorHandle \/ Bind \/ AlreadyBound \/ View \/ Retain \/ TimesOut
Spec == Init /\ [][Next]_vars

-----------------------------------------------------------------------------
\* The controller is never ahead of the page, and each reference is bound once.
TypeOK ==
    /\ known <= version /\ version <= MaxVersion
    /\ op # None => \A a, b \in op.editors : a.ref = b.ref => a = b

\* What is retained with a snapshot is of one document, the one the controller
\* knows (snapshot, framenavigated).
OneDocument == kept # None =>
    \A e \in {kept.root, kept.scope} \cup kept.text \cup UNION {{b.ref, b.handle} : b \in kept.editors} : e.version = known

\* No editor can be filled by a reference that is not in the text the agent got
\* (discardOmittedSnapshotCapabilities).
OnlyWhatIsShown == kept # None => \A b \in kept.editors : b.ref \in kept.text

\* docs/architecture.md:211, "The semantic snapshot captures both the exact
\* eligible editor handle and the exact modal/document root handle": the editor
\* retained for a reference is the element that has it.
EditorIsExact == kept # None => \A b \in kept.editors : b.handle = b.ref

\* And the root retained is the one the text is of.
RootIsExact == kept # None => kept.scope = kept.root
=============================================================================
