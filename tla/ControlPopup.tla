---------------------------- MODULE ControlPopup ----------------------------
(* Inspection of a custom control (controller/controls): whose popup is on  *)
(* screen, one Escape to a competing popup, one opener input, and the       *)
(* capabilities that are left behind - against a page that opens, closes    *)
(* and replaces things between any two reads.                               *)
EXTENDS Naturals, FiniteSets, Sequences, SequencesExt
CONSTANTS None, Controls, Surfaces,
          Worlds,      \* layouts: links, near : Surfaces -> SUBSET Controls; closest : Surfaces -> Controls or None; joined
          MaxChanges, MaxCalls, MaxIssued
VARIABLES world,
          page,      \* document, controls present, surfaces rendered, focused control, expanded controls
          op,        \* None or the inspection under way
          retained,  \* None or the control inspection of the frame
          decisions, \* owner candidates issued: [id, doc, control, owner]
          issued, used,
          report,    \* None or the answer of the last inspection, and the inputs it really made
          calls, changes
vars == <<world, page, op, retained, decisions, issued, used, report, calls, changes>>

Init ==
    /\ world \in Worlds
    /\ page \in [doc : {1}, here : {Controls}, shown : SUBSET Surfaces, focus : {None}, expanded : {{}}]
    /\ op = None /\ retained = None /\ decisions = {} /\ issued = 0 /\ used = {}
    /\ report = None /\ calls = 0 /\ changes = 0

-----------------------------------------------------------------------------
(* Whose popup: relations of a set of surfaces to the controls (resolveControlPopupOwner). *)

Structural(S) == (UNION {world.links[s] : s \in S}) \cap page.here
Near(S) == (UNION {world.near[s] : s \in S}) \cap page.here
Closest(S) == LET c == {world.closest[s] : s \in S} IN IF Cardinality(c) = 1 THEN CHOOSE x \in c : TRUE ELSE None
Focused(S) == {page.focus} \cap Near(S)
Expanded(S) == page.expanded \cap Near(S)

\* The retained target is looked at first; focus or expansion give way to
\* another control that owns the surface structurally.
Proven(S, t) == t \in Focused(S) \cup Expanded(S) /\ t \notin Structural(S)
Competing(S, t) == Structural(S) \ {t} # {}
TargetFirst(S, t) == t \in Structural(S) \/ (Proven(S, t) /\ ~Competing(S, t))

\* The strongest tier that has anybody in it, and the one of it that is meant.
Pool(S) ==
    IF Structural(S) # {} THEN Structural(S) ELSE IF Focused(S) # {} THEN Focused(S)
    ELSE IF Expanded(S) # {} THEN Expanded(S) ELSE Near(S)
Positional(pool, structural, closest) ==
    IF Cardinality(pool) = 1 THEN CHOOSE c \in pool : TRUE
    ELSE IF ~structural /\ closest \in pool THEN closest ELSE None

Ownership(kind, owner, pool, veto) == [kind |-> kind, owner |-> owner, pool |-> pool, veto |-> veto]
Judged(t, first, pool, chosen, contested) ==
    LET judge == Cardinality(pool) > 1 /\ (t = None \/ (chosen # t /\ t \in pool))
        veto == contested /\ chosen # t
    IN IF first THEN Ownership("resolved", t, {t}, FALSE)
       ELSE IF chosen # None /\ ~judge THEN Ownership("resolved", chosen, {chosen}, veto)
       ELSE IF Cardinality(pool) > 1 THEN Ownership("ambiguous", None, pool, veto)
       ELSE Ownership("missing", None, {}, veto)
Owner(S, t) ==
    Judged(t, t # None /\ TargetFirst(S, t), Pool(S), Positional(Pool(S), Structural(S) # {}, Closest(S)),
           t # None /\ Proven(S, t) /\ Competing(S, t))

PopupRoots == page.shown
OneSet == Cardinality(PopupRoots) = 1 \/ (PopupRoots # {} /\ world.joined)

\* declaredOwnerMatches: the requested control or the named one is in the pool.
Declared(declared, t, pool) == declared # None /\ (IF declared = "requested" THEN t \in pool ELSE declared \in pool)

Resolved(S, proof) == [kind |-> "resolved", surfaces |-> S, proof |-> proof, pool |-> {}, judge |-> FALSE]
Unresolved(kind, pool, judge) == [kind |-> kind, surfaces |-> {}, proof |-> "none", pool |-> pool, judge |-> judge]

\* associatedControlPopup: direct relation, declared owner, proven owner, and
\* after an input the one new logical surface.
Associated(t, declared, causal, owner, set, direct) ==
    LET own == {s \in PopupRoots : owner[s].kind = "resolved" /\ owner[s].owner = t}
        whole == Cardinality(PopupRoots) > 1 /\ world.joined /\ (own = {} \/ declared # None)
        single == Cardinality(PopupRoots) = 1 /\ set.kind = "ambiguous"
        bindable == (whole /\ (set.kind = "ambiguous" \/ (set.kind = "resolved" /\ declared # None))) \/ single
        mine == IF whole /\ set.kind = "resolved" /\ set.owner = t THEN PopupRoots ELSE own
        veto == (whole /\ set.veto) \/ \E s \in PopupRoots : owner[s].veto
        unsure == (\E s \in PopupRoots : owner[s].kind = "ambiguous") \/ (whole /\ set.kind = "ambiguous")
    IN IF t \notin page.here THEN Unresolved("missing", {}, FALSE)
       ELSE IF direct # {} THEN Resolved(direct, "structural")
       ELSE IF bindable /\ Declared(declared, t, set.pool) THEN Resolved(PopupRoots, "agent_declared")
       ELSE IF mine # {} THEN Resolved(mine, "owner")
       ELSE IF causal /\ ~veto /\ OneSet THEN Resolved(PopupRoots, "post_dispatch_unique")
       ELSE IF unsure THEN Unresolved("ambiguous", IF bindable THEN set.pool ELSE {}, bindable)
       ELSE Unresolved("missing", {}, FALSE)
Association(t, declared, causal) ==
    Associated(t, declared, causal, [s \in PopupRoots |-> Owner({s}, t)], Owner(PopupRoots, t),
               {s \in PopupRoots : t \in Structural({s})})

-----------------------------------------------------------------------------
(* Capabilities: one inspection of a frame, owner decisions for one use.    *)

\* issuePopupOwnerDecision discards what the frame had, then issues anew.
Issue(pool, control, eligible) ==
    /\ retained' = None
    /\ IF eligible /\ issued + Cardinality(pool) <= MaxIssued
       THEN LET order == SetToSeq(pool) IN
            /\ decisions' = {[id |-> issued + i, doc |-> op.doc, control |-> control, owner |-> order[i]] : i \in 1 .. Len(order)}
            /\ issued' = issued + Len(order)
       ELSE decisions' = {} /\ UNCHANGED issued

Kept(id) == decisions
Spent(id) == {}

Combined(values) == IF "yes" \in values THEN "yes" ELSE IF "unknown" \in values THEN "unknown" ELSE "no"
At(pc) == op # None /\ op.pc = pc
Left == page.doc # op.doc
Answer(told, error) ==
    /\ op' = None
    /\ report' = [told |-> told, error |-> error, inputs |-> op.inputs]
\* Every failure after the document was left becomes a document change.
Fail(told, error) ==
    IF Left THEN Answer(Combined({op.prepared, op.opened, told}), "document_changed") ELSE Answer(told, error)
Quiet == UNCHANGED <<world, page, retained, decisions, issued, used, calls, changes>>
Step(f) == op' = f /\ UNCHANGED report

-----------------------------------------------------------------------------
(* inspectControl. *)

\* resolveUniqueControl: one visible, enabled control of that role and name.
Unique(c) == c \in page.here

Inspection(control, reveal, declared) ==
    [pc |-> "resolve", doc |-> page.doc, control |-> control, asked |-> control, reveal |-> reveal, declared |-> declared,
     prepared |-> "no", opened |-> "no", base |-> Surfaces, zero |-> FALSE, failed |-> FALSE,
     surfaces |-> {}, proof |-> "none", recovered |-> FALSE, escaping |-> {}, source |-> None, inputs |-> <<>>]

\* consumeAgentDeclaredPopupOwner is the first step of an inspection.
Begin ==
    /\ op = None /\ calls < MaxCalls /\ calls' = calls + 1 /\ report' = None
    /\ \E control \in Controls, reveal \in BOOLEAN :
        \/ /\ \E declared \in {None, "requested"} : op' = Inspection(control, reveal, declared)
           /\ UNCHANGED <<decisions, used>>
        \/ \E id \in 1 .. issued :
            LET d == {x \in decisions : x.id = id /\ x.doc = page.doc /\ x.control = control} IN
            /\ decisions' = Spent(id)
            /\ IF d # {} THEN /\ op' = Inspection(control, reveal, (CHOOSE x \in d : TRUE).owner)
                              /\ used' = used \cup {id}
               ELSE UNCHANGED <<op, used>>
    /\ UNCHANGED <<world, page, retained, issued, changes>>

\* resolveInspectionTarget: a missing control is recovered through the declared
\* owner, or answered with the owners of whatever is open.
ResolveTarget ==
    /\ At("resolve")
    /\ \/ /\ Unique(op.control) /\ Step([op EXCEPT !.pc = "associate"])
          /\ UNCHANGED <<retained, decisions, issued>>
       \/ /\ ~Unique(op.control)
          /\ IF op.declared \in page.here
             THEN /\ Step([op EXCEPT !.pc = "associate", !.control = op.declared, !.recovered = TRUE])
                  /\ UNCHANGED <<retained, decisions, issued>>
             ELSE /\ Answer("no", "control_not_found")
                  /\ IF op.declared = None /\ OneSet
                     THEN Issue(Pool(PopupRoots), op.asked, Pool(PopupRoots) # {})
                     ELSE UNCHANGED <<retained, decisions, issued>>
    /\ UNCHANGED <<world, page, used, calls, changes>>

Ambiguous(a, told) ==
    IF told = "no" THEN Issue(a.pool, op.asked, a.judge) ELSE Issue({}, op.asked, FALSE)

Passive == op.declared # None \/ ~op.reveal
Associate ==
    /\ At("associate")
    /\ \E a \in {Association(op.control, op.declared, FALSE)} :
       LET got == [op EXCEPT !.surfaces = a.surfaces, !.proof = IF op.recovered THEN "agent_declared" ELSE a.proof]
       IN IF a.kind = "ambiguous" THEN Fail("no", "ambiguous_control_popup") /\ Ambiguous(a, "no")
          ELSE /\ UNCHANGED <<retained, decisions, issued>>
               /\ IF a.surfaces # {} THEN Step([got EXCEPT !.pc = "collect"])
                  ELSE IF op.declared # None /\ Passive THEN Fail("no", "popup_owner_candidate_surface_changed")
                  ELSE IF Passive THEN Step([got EXCEPT !.pc = "collect"])
                  ELSE Step([got EXCEPT !.pc = "prepare"])
    /\ UNCHANGED <<world, page, used, calls, changes>>

\* dismissCompetingControlPopup: every rendered popup has one owner, the same
\* for all and not the target.
Prepare ==
    /\ At("prepare")
    /\ \E owners \in {{Owner({s}, op.control) : s \in PopupRoots}} :
       IF PopupRoots = {} THEN Step([op EXCEPT !.pc = "prepared"])
       ELSE IF \E o \in owners : o.kind = "resolved" /\ o.owner = op.control THEN Step([op EXCEPT !.pc = "already"])
       ELSE IF (\E o \in owners : o.kind # "resolved") \/ Cardinality({o.owner : o \in owners}) > 1
       THEN Fail("no", "competing_popup_owners")
       ELSE Step([op EXCEPT !.pc = "escape", !.escaping = PopupRoots, !.source = (CHOOSE o \in owners : TRUE).owner])
    /\ Quiet

\* dispatchPopupEscape, up to the key: told yes, unknown or no by the probe.
PressEscape ==
    /\ At("escape")
    /\ IF PopupRoots \cap op.escaping = {} THEN Step([op EXCEPT !.pc = "prepared"]) /\ UNCHANGED page
       ELSE IF op.source \notin page.here \/ Left THEN Fail("no", "competing_popup_owner_not_actionable") /\ UNCHANGED page
       ELSE \/ /\ Step([op EXCEPT !.pc = "escaped", !.prepared = "no"]) /\ UNCHANGED page
            \/ \E told \in {"yes", "unknown"}, closed \in BOOLEAN :
                /\ Step([op EXCEPT !.pc = "escaped", !.prepared = told, !.inputs = Append(@, "escape")])
                /\ page' = [page EXCEPT !.shown = IF closed THEN @ \ op.escaping ELSE @]
    /\ UNCHANGED <<world, retained, decisions, issued, used, calls, changes>>
EscapeReconciled ==
    /\ At("escaped")
    /\ IF PopupRoots \cap op.escaping = {} THEN Step([op EXCEPT !.pc = "prepared"])
       ELSE Fail(op.prepared, "competing_popup_remained_open")
    /\ Quiet

\* The control is resolved anew; its failure says that nothing was dispatched.
Prepared ==
    /\ At("prepared") \/ At("already")
    /\ \E a \in {Association(op.asked, op.declared, FALSE)} :
       IF Left THEN Answer(op.prepared, "document_changed") /\ UNCHANGED <<retained, decisions, issued>>
       ELSE IF ~Unique(op.asked) THEN Fail("no", "control_not_found") /\ UNCHANGED <<retained, decisions, issued>>
       ELSE IF At("prepared") THEN Step([op EXCEPT !.pc = "baseline"]) /\ UNCHANGED <<retained, decisions, issued>>
       ELSE IF a.kind = "ambiguous" THEN Fail("no", "ambiguous_control_popup") /\ Ambiguous(a, "no")
       ELSE /\ UNCHANGED <<retained, decisions, issued>>
            /\ IF a.kind # "resolved" THEN Fail("no", "control_popup_not_observed")
               ELSE Step([op EXCEPT !.pc = "collect", !.surfaces = a.surfaces, !.proof = a.proof])
    /\ UNCHANGED <<world, page, used, calls, changes>>

\* revealControlPopup, up to the input: same document, same control, nothing rendered.
Baseline ==
    /\ At("baseline")
    /\ IF Left \/ op.control \notin page.here \/ PopupRoots # {}
       THEN Step([op EXCEPT !.pc = "revealed", !.failed = TRUE])
       ELSE Step([op EXCEPT !.pc = "reveal", !.zero = TRUE, !.base = {}])
    /\ Quiet

\* One click or one Enter; what it opens is the page's business.
OpenPopup ==
    /\ At("reveal")
    /\ \/ Step([op EXCEPT !.pc = "revealed", !.failed = TRUE]) /\ UNCHANGED page
       \/ /\ op.control \in page.here /\ ~Left
          /\ \E told \in {"yes", "unknown"}, S \in SUBSET Surfaces, focus, expands \in BOOLEAN :
              /\ Step([op EXCEPT !.pc = "reconcile", !.opened = told, !.inputs = Append(@, "open")])
              /\ page' = [page EXCEPT !.shown = @ \cup S,
                                      !.focus = IF focus THEN op.control ELSE @,
                                      !.expanded = IF expands THEN @ \cup {op.control} ELSE @]
    /\ UNCHANGED <<world, retained, decisions, issued, used, calls, changes>>

\* reconcileControlPopupReveal: within the deadline the popup is associated, or the reveal failed.
Stabilized == Association(op.control, None, op.zero).kind = "resolved"
ReconcileReveal ==
    /\ At("reconcile") /\ Step([op EXCEPT !.pc = "revealed", !.failed = ~Stabilized])
    /\ Quiet

\* After the input the control is resolved anew, and its popup associated.
Revealed ==
    /\ At("revealed")
    /\ \E a \in {Association(op.asked, op.declared, op.zero /\ op.opened # "no")},
          told \in {Combined({op.prepared, op.opened})} :
          IF Left THEN Answer(told, "document_changed") /\ UNCHANGED <<retained, decisions, issued>>
          ELSE IF ~Unique(op.asked) THEN Fail("no", "control_not_found") /\ UNCHANGED <<retained, decisions, issued>>
          ELSE IF a.kind = "ambiguous" THEN Fail(told, "ambiguous_control_popup_after_reveal") /\ Ambiguous(a, told)
          ELSE /\ UNCHANGED <<retained, decisions, issued>>
               /\ IF a.surfaces = {} THEN Fail(op.opened, "control_popup_not_observed")
                  ELSE Step([op EXCEPT !.pc = "collect", !.surfaces = a.surfaces, !.proof = a.proof])
    /\ UNCHANGED <<world, page, used, calls, changes>>

\* Options are read (that may fail with no input of its own), the document is
\* compared and the inspection retained in one step.
Collect ==
    /\ At("collect")
    /\ IF Left THEN Answer(Combined({op.prepared, op.opened}), "document_changed") /\ UNCHANGED <<retained, decisions>>
       ELSE /\ Answer(Combined({op.prepared, op.opened}), "none")
            /\ retained' = [doc |-> op.doc, control |-> op.control, surfaces |-> op.surfaces, proof |-> op.proof,
                            base |-> op.base, inputs |-> op.inputs]
            /\ decisions' = {}
    /\ UNCHANGED <<world, page, issued, used, calls, changes>>

-----------------------------------------------------------------------------
(* The page on its own; a navigation discards the frame's capabilities.     *)
\* discardControlInspectionsForFrame.
Discarded == retained' = None /\ decisions' = {}
PageChanges ==
    /\ changes < MaxChanges /\ changes' = changes + 1
    /\ \/ /\ \/ \E s \in Surfaces \ page.shown : page' = [page EXCEPT !.shown = @ \cup {s}]
             \/ \E s \in page.shown : page' = [page EXCEPT !.shown = @ \ {s}]
             \/ \E c \in page.here : page' = [page EXCEPT !.here = @ \ {c}]
             \/ \E c \in page.here \ {page.focus} : page' = [page EXCEPT !.focus = c]
          /\ UNCHANGED <<retained, decisions>>
       \/ /\ page' = [page EXCEPT !.doc = @ + 1, !.here = Controls, !.shown = {}, !.focus = None, !.expanded = {}]
          /\ Discarded
    /\ UNCHANGED <<world, op, issued, used, report, calls>>

Next ==
    \/ Begin \/ ResolveTarget \/ Associate \/ Prepare \/ PressEscape \/ EscapeReconciled \/ Prepared
    \/ Baseline \/ OpenPopup \/ ReconcileReveal \/ Revealed \/ Collect \/ PageChanges
Spec == Init /\ [][Next]_vars

-----------------------------------------------------------------------------
\* What is on screen, asked for and left behind is of this page, and what the
\* frame holds was observed in the document it shows.
TypeOK ==
    /\ page.shown \subseteq Surfaces /\ page.here \subseteq Controls /\ page.focus \in Controls \cup {None}
    /\ {d.id : d \in decisions} \subseteq 1 .. issued /\ calls <= MaxCalls
    /\ \A d \in decisions : d.doc <= page.doc
    /\ retained # None => retained.doc = page.doc /\ retained.surfaces \subseteq Surfaces

\* An inspection that was not asked to reveal, or that declares an owner, makes
\* no input at all; any other one presses Escape at most once and then opens at
\* most once, whatever the page does in between (inspectControl).
InputsAsAsked ==
    LET fine(inputs, passive) == inputs \in (IF passive THEN {<<>>} ELSE {<<>>, <<"escape">>, <<"open">>, <<"escape", "open">>})
    IN op # None => fine(op.inputs, ~op.reveal \/ op.declared # None)

\* A popup that is a control's only because it came after the opener was not on
\* screen before the input, and there was an input (revealControlPopup,
\* associatedControlPopup).
CausedByOpener ==
    retained # None /\ retained.proof = "post_dispatch_unique" =>
        retained.surfaces \cap retained.base = {} /\ "open" \in Range(retained.inputs)

\* An owner candidate is accepted once, for the control and the document it was
\* issued for (consumeAgentDeclaredPopupOwner).
DecisionsOnce ==
    op = None /\ op' # None /\ op'.declared \in Controls =>
        \E d \in decisions : /\ d.doc = page.doc /\ d.control = op'.asked /\ d.owner = op'.declared
                            /\ d.id \notin used /\ used' = used \cup {d.id}

\* resolution.ts: "Stage5 Browser confirmed that no control input was
\* dispatched", an answer that says so followed no input of the inspection.
FailureIsTold == report # None /\ report.told = "no" => report.inputs = <<>>

\* docs/action-system-acceptance-2026-08-26.md:56: "A different structural owner
\* also disables `post_dispatch_unique` causal fallback."
StructuralOwnerVetoes ==
    At("collect") /\ op.proof = "post_dispatch_unique" =>
        UNION {world.links[s] : s \in op.surfaces} \subseteq {op.control}
=============================================================================
