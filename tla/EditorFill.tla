------------------------------ MODULE EditorFill ------------------------------
(* Text entered into one editor: by a reference of the latest snapshot        *)
(* (input/fill-ref.ts) or by its role and name (input/fill-role.ts), and the   *)
(* dispatch with its evidence that both share (input/fill-evidence.ts). The    *)
(* page renders other editors, moves and rewrites them, keeps its input events *)
(* to itself or not, and navigates.                                            *)
EXTENDS Naturals, FiniteSets
CONSTANTS None, Editors, MaxVersion, Runs
VARIABLES version,  \* the document of the frame
          match,    \* the editors with the role and name asked for
          inside,   \* the editors within the root of the latest snapshot
          value,    \* of each editor, its text compared with the value asked for
          muted,    \* whether the page stops its input events before the listener
          snapshot, \* None or the document of the latest snapshot
          op,       \* None or the fill under way
          unique,   \* the editors that were the only match at some moment since the page was activated
          runs,     \* how many fills there were
          answer    \* None or how the last fill ended
vars == <<version, match, inside, value, muted, snapshot, op, unique, runs, answer>>
Values == {"before", "partial", "asked"}

Init ==
    /\ version = 0 /\ match \in SUBSET Editors /\ inside \in SUBSET Editors /\ value \in [Editors -> {"before", "asked"}]
    /\ muted \in BOOLEAN /\ snapshot = None /\ op = None /\ unique = {} /\ runs = 0 /\ answer = None

-----------------------------------------------------------------------------
\* The page.
Renders ==
    /\ \/ \E e \in Editors : match' = (match \cup {e}) \ (match \cap {e}) /\ UNCHANGED <<inside, value>>
       \/ \E e \in Editors : inside' = (inside \cup {e}) \ (inside \cap {e}) /\ UNCHANGED <<match, value>>
       \/ \E e \in Editors, v \in Values : value' = [value EXCEPT ![e] = v] /\ UNCHANGED <<match, inside>>
    /\ UNCHANGED <<version, muted, snapshot, op, runs, answer>>
Navigates ==
    /\ version < MaxVersion /\ version' = version + 1
    /\ match' \in SUBSET Editors /\ inside' = {} /\ value' = [e \in Editors |-> "before"]
    /\ UNCHANGED <<muted, snapshot, op, runs, answer>>

-----------------------------------------------------------------------------
At(where) == op # None /\ op.at = where
Goes(where) == op' = [op EXCEPT !.at = where]
Alive == op.version = version
Page == <<version, match, inside, value, muted, runs>>

\* Every end uses the frame's snapshot up, also when another one was asked for.
Ends(kind, told) ==
    /\ op' = None /\ snapshot' = None
    /\ answer' = [kind |-> kind, told |-> told, how |-> op.how, reached |-> op.reached, unique |-> unique]
Refuses == Ends("blocked", "no")
\* A check passes when its condition holds, and anything may fail at its deadline.
Passes(condition, where) ==
    \/ condition /\ Goes(where) /\ UNCHANGED <<snapshot, answer>>
    \/ Refuses

TakeSnapshot == op = None /\ snapshot' = version /\ UNCHANGED <<op, answer, Page>>
New(how, at, e, v) == [how |-> how, at |-> at, target |-> e, version |-> v, reached |-> {}, landed |-> FALSE,
                       before |-> None, heard |-> FALSE, error |-> FALSE]
BeginRef ==
    /\ op = None /\ snapshot # None /\ runs < Runs /\ runs' = runs + 1 /\ answer' = None
    /\ \E e \in Editors : op' = New("ref", "scope", e, snapshot)
    /\ UNCHANGED <<version, match, inside, value, muted, snapshot>>
BeginRole ==
    /\ op = None /\ runs < Runs /\ runs' = runs + 1 /\ answer' = None
    /\ op' = New("role", "resolve", None, version)
    /\ UNCHANGED <<version, match, inside, value, muted, snapshot>>

\* The document of the snapshot, and the editor still in its root; the snapshot
\* is used up before anything else is looked at.
Scope ==
    /\ At("scope")
    /\ \/ Alive /\ op.target \in inside /\ Goes("inspect") /\ snapshot' = None /\ UNCHANGED answer
       \/ Refuses
    /\ UNCHANGED Page

\* resolveUniqueFillTarget, before and after the page is activated: the second
\* time whatever is the only match then.
Bound == [op EXCEPT !.target = CHOOSE e \in match : TRUE, !.version = version]
Resolve ==
    /\ At("resolve")
    /\ \/ Cardinality(match) = 1 /\ op' = [Bound EXCEPT !.at = "activate"] /\ UNCHANGED <<snapshot, answer>>
       \/ Refuses
    /\ UNCHANGED Page
Rebound == Bound
ResolveAgain ==
    /\ At("resolve again")
    /\ \/ Cardinality(match) = 1 /\ op' = [Rebound EXCEPT !.at = "inspect"] /\ UNCHANGED <<snapshot, answer>>
       \/ Refuses
    /\ UNCHANGED Page

\* An enabled text editor, a valid date; visible, scrolled into view, actionable.
InspectFillTarget == At("inspect") /\ Passes(Alive, "viewport") /\ UNCHANGED Page
Viewport == At("viewport") /\ Passes(Alive, IF op.how = "ref" THEN "activate" ELSE "observe") /\ UNCHANGED Page
Activate == At("activate") /\ Passes(TRUE, IF op.how = "ref" THEN "observe" ELSE "resolve again") /\ UNCHANGED Page

\* dispatchPreparedFill: the listeners, with the text that was there before.
Observe ==
    /\ At("observe")
    /\ \/ Alive /\ op' = [op EXCEPT !.at = "fill", !.before = value[op.target]] /\ UNCHANGED <<snapshot, answer>>
       \/ Refuses
    /\ UNCHANGED Page
\* The input arrives, in one part or in several, while the call is under way.
Lands ==
    /\ At("fill") /\ Alive
    /\ \E v \in {"partial", "asked"} : value' = [value EXCEPT ![op.target] = v] /\ op' = [op EXCEPT !.landed = @ \/ v = "asked", !.heard = @ \/ ~muted,
                                                                                                   !.reached = @ \cup {op.target}]
    /\ UNCHANGED <<version, match, inside, muted, snapshot, runs, answer>>
Returns ==
    /\ At("fill")
    /\ \E error \in BOOLEAN : (error \/ op.landed) /\ op' = [op EXCEPT !.at = "finish", !.error = error]
    /\ UNCHANGED <<snapshot, answer, Page>>

\* What the evidence says of the dispatch: events, then the text before, then
\* the text after, and only then the error of the call.
TextBeforeEvents(matches) ==
    IF op.before = "asked" THEN "no"
    ELSE IF op.heard \/ matches THEN "yes" ELSE IF op.error THEN "no" ELSE "unknown"
ActionDispatched(matches) ==
    IF op.heard THEN "yes"
    ELSE IF op.before = "asked" THEN "no"
    ELSE IF matches THEN "yes"
    ELSE IF op.error THEN "no" ELSE "unknown"
Finish ==
    /\ At("finish")
    /\ \/ Alive /\ LET matches == value[op.target] = "asked" IN
              Ends(IF matches THEN "succeeded" ELSE "failed", ActionDispatched(matches))
       \/ Ends("failed", "unknown")
    /\ UNCHANGED Page

Next ==
    /\ \/ Renders \/ Navigates \/ TakeSnapshot \/ BeginRef \/ BeginRole \/ Scope \/ Resolve \/ ResolveAgain
       \/ InspectFillTarget \/ Viewport \/ Activate \/ Observe \/ Lands \/ Returns \/ Finish
    /\ unique' = IF op' = None \/ At("resolve") \/ At("activate") THEN {}
                 ELSE IF Cardinality(match') = 1 THEN unique \cup match' ELSE unique
Spec == Init /\ [][Next]_vars

-----------------------------------------------------------------------------
\* A fill by reference has a target from the start, one by role once it is
\* resolved, and the text before is known when the dispatch begins.
TypeOK ==
    /\ version \in 0..MaxVersion /\ match \subseteq Editors /\ inside \subseteq Editors
    /\ op # None => /\ op.at # "resolve" => op.target \in Editors
                    /\ op.at \in {"fill", "finish"} <=> op.before # None

\* Text goes into one editor only, and by its role into one that was the only
\* match after the page was activated (resolveUniqueFillTarget).
OneEditor == answer # None =>
    /\ Cardinality(answer.reached) <= 1
    /\ answer.how = "role" => answer.reached \subseteq answer.unique

\* A fill said not to be dispatched entered nothing, unless the page stopped its
\* own events before the listener (dispatchPreparedFill).
FalseIsUntouched == answer # None /\ answer.told = "no" => answer.reached = {} \/ muted

\* input/fill-evidence.ts:261, "Stage5 Browser confirmed that no input event
\* occurred": a fill that failed and was said not to be dispatched entered nothing.
FalseIsConfirmed == answer # None /\ answer.kind = "failed" /\ answer.told = "no" => answer.reached = {}
=============================================================================
