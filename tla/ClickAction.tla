---------------------------- MODULE ClickAction ----------------------------
(* One click from its observation to its report: the phase session          *)
(* (controller/action), the preparation of the exact target and the guarded *)
(* input attempts with what is read of them (controller/input), against a   *)
(* page that changes in between.                                            *)
EXTENDS Naturals, FiniteSets
CONSTANTS None,
          MaxChanges   \* changes the page makes on its own
VARIABLES asked,    \* how the target is named, the activation policy, a postcondition
          page,     \* the target's node and how many match it, its state, activation
          clock,    \* 0 in time, 1 no time to settle, 2 past the action's deadline, 3 past all
          pc, phases,
          held,     \* the prepared target: None or node, state and means of input
          probe,    \* what the guard in the page has seen of the current dispatch
          dispatch, \* the current dispatch: activation last seen, error, attempts
          real,     \* what input did to the target over the whole action
          report,   \* None or what the caller is told
          changes
vars == <<asked, page, clock, pc, phases, held, probe, dispatch, real, report, changes>>

TargetStates == {"ready", "offscreen", "covered", "disabled"}
Input == {"keyboard", "normal", "forced", "mouse"}
Seen == [trusted : BOOLEAN, touched : BOOLEAN, clicked : BOOLEAN, expired : BOOLEAN]
NothingSeen == [trusted |-> FALSE, touched |-> FALSE, clicked |-> FALSE, expired |-> FALSE]
FreshDispatch == [active |-> TRUE, error |-> "none", tried |-> {}]
Order == <<"observe", "plan", "preflight", "prepare", "dispatch", "reconcile", "finalize">>

Init ==
    /\ asked \in [by : {"role", "ref"}, post : BOOLEAN, native : BOOLEAN,
                  policy : {"pointer_only", "keyboard", "keyboard_fallback"}]
    /\ asked.policy # "pointer_only" => asked.post
    /\ page \in [node : {0}, matches : {1}, state : TargetStates, active : BOOLEAN]
    /\ clock = 0 /\ pc = "observe" /\ changes = 0
    /\ phases = [at |-> "observe", state |-> "not_attempted", attempts |-> 0, recovered |-> FALSE]
    /\ held = None /\ probe = NothingSeen /\ dispatch = FreshDispatch
    /\ real = [touched |-> FALSE, clicks |-> 0, late |-> FALSE] /\ report = None

At(l) == pc = l
Enter(phase) == phases' = [phases EXCEPT !.at = phase]
Connected(n) == page.matches > 0 /\ page.node = n

\* The caller's answer: was the action, was the click dispatched, and which error.
Answer(action, click, error) == [action |-> action, click |-> click, error |-> error]
Finish(answer) == pc' = "done" /\ report' = answer
NoDispatch(error) == Answer("no", "no", error)

-----------------------------------------------------------------------------
(* Observe, plan and preflight; a set or select may find nothing to do, or  *)
(* have used its recovery while it observed.                                *)

Plan ==
    /\ At("observe")
    /\ \/ /\ \E missed \in BOOLEAN :
                phases' = [phases EXCEPT !.at = "preflight", !.recovered = missed]
          /\ pc' = "prime" /\ UNCHANGED report
       \/ Enter("finalize") /\ \E e \in {"none", "stale_snapshot"} : Finish(NoDispatch(e))
    /\ UNCHANGED <<asked, page, clock, held, probe, dispatch, real, changes>>

\* primeSelectedPageForTargetPreparation: a visible page is left alone, a
\* hidden one is brought forward and must then settle.
BringForward == ~page.active /\ page' = [page EXCEPT !.active = TRUE]
Prime ==
    /\ At("prime") /\ Enter("prepare")
    /\ \/ page.active /\ pc' = "resolve" /\ UNCHANGED <<page, report>>
       \/ BringForward /\ clock = 0 /\ pc' = "settle" /\ UNCHANGED report
       \/ ~page.active /\ UNCHANGED page /\ Finish(NoDispatch("page_not_active"))
    /\ UNCHANGED <<asked, clock, held, probe, dispatch, real, changes>>

Settle ==
    /\ At("settle")
    /\ IF page.active /\ clock < 2 THEN pc' = "resolve" /\ UNCHANGED report
       ELSE Finish(NoDispatch("page_not_active"))
    /\ UNCHANGED <<asked, page, clock, phases, held, probe, dispatch, real, changes>>

\* A role must match one node; a reference is its exact node, retained before
\* the activation, or else its only semantic replacement.
Retained == asked.by = "ref" /\ Connected(0)
Unique == page.matches = 1
Resolve ==
    /\ At("resolve")
    /\ IF clock < 2 /\ (Retained \/ Unique)
       THEN held' = [node |-> page.node, state |-> page.state, keyboard |-> FALSE]
            /\ pc' = "reach" /\ UNCHANGED report
       ELSE Finish(NoDispatch("unresolved")) /\ UNCHANGED held
    /\ UNCHANGED <<asked, page, clock, phases, probe, dispatch, real, changes>>

Keyboard(state) ==
    /\ asked.policy # "pointer_only" /\ asked.native
    /\ asked.policy = "keyboard_fallback" => state = "covered"
Actionable(state) == state = "ready" \/ (state \in {"offscreen", "covered"} /\ Keyboard(state))

\* Steps of scrolling reveal or uncover the target; a detached one is rebound
\* when its replacement is unique.
Scrolled == {page.state} \cup (IF page.state \in {"offscreen", "covered"} THEN {"ready"} ELSE {})
Rebound == page.matches = 1
Reach ==
    /\ At("reach")
    /\ \E state \in Scrolled :
        /\ page' = [page EXCEPT !.state = state]
        /\ IF (Connected(held.node) \/ Rebound) /\ Actionable(state)
           THEN /\ held' = [node |-> page.node, state |-> state, keyboard |-> Keyboard(state)]
                /\ pc' = "install" /\ UNCHANGED report
           ELSE Finish(NoDispatch("not_actionable")) /\ UNCHANGED held
    /\ UNCHANGED <<asked, clock, phases, probe, dispatch, real, changes>>

-----------------------------------------------------------------------------
(* Guarded dispatch.  An attempt either fails before any event, is blocked  *)
(* by the guard, leaves part of its events on the target, or clicks it.     *)

Install ==
    /\ At("install")
    /\ phases' = [phases EXCEPT !.at = "dispatch", !.attempts = @ + 1]
    /\ probe' = NothingSeen /\ dispatch' = FreshDispatch
    /\ \/ pc' = "check" /\ UNCHANGED <<page, report>>
       \/ pc' = "failed" /\ report' = NoDispatch("probe") /\ UNCHANGED page
    /\ UNCHANGED <<asked, clock, held, page, real, changes>>

\* What can be read of the probe: all it saw, or nothing.  The in-page answer
\* and the events it reported to the worker are merged.
Readings == {None, probe}
Observed == page.state

\* actionDiagnosticForFailure: some target states and some errors count as
\* proof that nothing was dispatched.
Blocked(error) == Observed \in {"covered", "disabled"} \/ error = "blocked"

\* observedClickDispatchFailureDiagnostic; the keyboard brings its own conclusion.
Failure(seen, error, active) ==
    IF seen = None
    THEN IF held.keyboard \/ ~Blocked(error) THEN Answer("unknown", "unknown", "input")
         ELSE NoDispatch("input")
    ELSE LET unsure == seen.expired /\ ~seen.trusted
         IN Answer(IF unsure THEN "unknown" ELSE IF seen.touched \/ seen.clicked THEN "yes" ELSE "no",
                   IF held.keyboard THEN "no"
                   ELSE IF unsure THEN "unknown" ELSE IF seen.clicked THEN "yes" ELSE "no",
                   IF active THEN "input" ELSE "page_not_active")

Fail(seen, error, active) == pc' = "failed" /\ report' = Failure(seen, error, active)

\* The last look at the selected page before an attempt.
Check ==
    /\ At("check")
    /\ dispatch' = [dispatch EXCEPT !.active = page.active]
    /\ IF page.active /\ clock < 2
       THEN pc' = (IF held.keyboard THEN "keyboard" ELSE "normal") /\ UNCHANGED report
       ELSE \E seen \in Readings : Fail(seen, "none", page.active)
    /\ UNCHANGED <<asked, page, clock, phases, held, probe, real, changes>>

Effects(n) ==
    IF Connected(n) /\ (page.state = "ready" \/ held.keyboard) THEN {"none", "touched", "clicked"}
    ELSE {"none", "guarded"}
After(effect) == [probe EXCEPT !.trusted = @ \/ (effect # "none" /\ ~probe.expired),
                               !.touched = @ \/ (effect \in {"touched", "clicked"} /\ ~probe.expired),
                               !.clicked = @ \/ (effect = "clicked" /\ ~probe.expired)]

\* One attempt; a page-level click that outlives its deadline is given up but
\* not taken back.
Attempt(kind) ==
    /\ At(kind) /\ pc' = "read"
    /\ \E effect \in Effects(held.node), error \in {"none", "timeout", "blocked"}, late \in BOOLEAN :
        /\ error = "none" => effect # "none"
        /\ error = "blocked" => effect \in {"none", "guarded"}
        /\ late => kind = "mouse" /\ effect = "none" /\ error = "timeout" /\ clock >= 2
        /\ probe' = After(effect)
        /\ real' = [touched |-> real.touched \/ effect \in {"touched", "clicked"},
                    clicks |-> real.clicks + (IF effect = "clicked" THEN 1 ELSE 0), late |-> late]
        /\ dispatch' = [dispatch EXCEPT !.error = error, !.tried = @ \cup {kind}]
    /\ UNCHANGED <<asked, page, clock, phases, held, report, changes>>

\* canUseForcedClickFallback and canUsePageMouseFallback.
UnlessClicked(seen) == seen # None /\ ~seen.expired /\ ~seen.clicked
Untouched(seen) == seen # None /\ ~seen.expired /\ ~seen.trusted
MayFallBack(seen) ==
    /\ Untouched(seen) /\ Observed = "ready" /\ clock < 2
    /\ IF "forced" \in dispatch.tried THEN "mouse" \notin dispatch.tried
       ELSE dispatch.tried = {"normal"} /\ dispatch.error = "timeout"

Confirmed(seen) == seen # None /\ seen.clicked
Read ==
    /\ At("read")
    /\ \E seen \in Readings :
        \/ /\ Confirmed(seen) /\ pc' = "verify" /\ report' = Answer("yes", "yes", "none")
           /\ UNCHANGED dispatch
        \/ \* the click was seen, but the last reading of it is lost
           /\ Confirmed(seen) /\ dispatch.error # "none" /\ ~held.keyboard
           /\ Fail(None, "none", dispatch.active) /\ UNCHANGED dispatch
        \/ /\ ~Confirmed(seen) /\ ~MayFallBack(seen)
           /\ Fail(seen, dispatch.error, dispatch.active) /\ UNCHANGED dispatch
        \/ /\ ~Confirmed(seen) /\ MayFallBack(seen)
           /\ dispatch' = [dispatch EXCEPT !.active = page.active]
           /\ IF page.active
              THEN pc' = (IF "forced" \in dispatch.tried THEN "mouse" ELSE "forced") /\ UNCHANGED report
              ELSE \E last \in Readings : Fail(last, "none", FALSE)
    /\ UNCHANGED <<asked, page, clock, phases, held, probe, real, changes>>

-----------------------------------------------------------------------------
(* The executor concludes, recovers once from a lost activation, or          *)
(* reconciles with the requested effect.                                     *)

Concluded == CASE report.action = "yes" -> "dispatched"
               [] report.action = "no" -> "not_dispatched"
               [] OTHER -> "possibly_dispatched"

\* canRecoverDispatchTimeActivationLoss
LostActivation ==
    /\ clock = 0 /\ report.error = "page_not_active" /\ report.action = "no" /\ report.click = "no"
    /\ ~probe.trusted /\ ~probe.expired

Recover ==
    /\ At("failed") /\ LostActivation
    /\ IF phases.recovered
       THEN /\ phases' = [phases EXCEPT !.at = "finalize", !.state = Concluded]
            /\ Finish(Answer("untold", "untold", "ActionPhaseInvariantError")) /\ UNCHANGED held
       ELSE /\ phases' = [phases EXCEPT !.at = "preflight", !.recovered = TRUE]
            /\ held' = None
            /\ \/ pc' = "prime" /\ report' = None
               \/ Finish(NoDispatch("stale_snapshot"))
    /\ UNCHANGED <<asked, page, clock, probe, dispatch, real, changes>>

\* reconcilePartialClickEffect: the effect may be there although the click is not proven.
Partial == asked.post /\ report.action \in {"yes", "unknown"} /\ report.click \in {"no", "unknown"}
Reconcile ==
    /\ At("failed") /\ ~LostActivation
    /\ phases' = [phases EXCEPT !.at = "finalize", !.state = Concluded]
    /\ \/ Finish(report)
       \/ Partial /\ Finish([report EXCEPT !.error = "none",
                                           !.click = IF @ = "no" THEN "unknown" ELSE @])
    /\ UNCHANGED <<asked, page, clock, held, probe, dispatch, real, changes>>

Verify ==
    /\ At("verify")
    /\ phases' = [phases EXCEPT !.at = "finalize", !.state = "dispatched"]
    /\ \/ Finish(report)
       \/ asked.post /\ Finish([report EXCEPT !.error = "postcondition"])
    /\ UNCHANGED <<asked, page, clock, held, probe, dispatch, real, changes>>

-----------------------------------------------------------------------------
(* The page and the clock. *)

PageChanges ==
    /\ ~At("done") /\ changes < MaxChanges /\ changes' = changes + 1
    /\ \/ \E state \in TargetStates : page' = [page EXCEPT !.state = state]
       \/ page' = [page EXCEPT !.active = ~@]
       \/ \E n \in 0 .. 2 : page' = [page EXCEPT !.matches = n]
       \/ page' = [page EXCEPT !.node = 1, !.matches = 1]
    /\ page' # page
    /\ UNCHANGED <<asked, clock, pc, phases, held, probe, dispatch, real, report>>

TimePasses ==
    /\ ~At("done") /\ clock < 3 /\ clock' = clock + 1
    /\ probe' = [probe EXCEPT !.expired = @ \/ (clock' = 3 /\ ~probe.clicked)]
    /\ UNCHANGED <<asked, page, pc, phases, held, dispatch, real, report, changes>>

LateClick ==
    /\ real.late
    /\ real' = [touched |-> TRUE, clicks |-> real.clicks + 1, late |-> FALSE]
    /\ UNCHANGED <<asked, page, clock, pc, phases, held, probe, dispatch, report, changes>>

Next ==
    \/ Plan \/ Prime \/ Settle \/ Resolve \/ Reach
    \/ Install \/ Check \/ Read \/ \E kind \in Input : Attempt(kind)
    \/ Recover \/ Reconcile \/ Verify
    \/ PageChanges \/ TimePasses \/ LateClick
Spec == Init /\ [][Next]_vars

-----------------------------------------------------------------------------
\* The executor's place, its session and what it holds.
TypeOK ==
    /\ phases \in [at : {Order[i] : i \in DOMAIN Order}, attempts : 0 .. 2, recovered : BOOLEAN,
                   state : {"not_attempted", "not_dispatched", "possibly_dispatched", "dispatched"}]
    /\ held = None \/ held \in [node : 0 .. 1, state : TargetStates, keyboard : BOOLEAN]
    /\ probe \in Seen /\ dispatch.tried \subseteq Input
    /\ real \in [touched : BOOLEAN, clicks : 0 .. 2, late : BOOLEAN]
    /\ report = None \/ At("done") \/ At("failed") \/ At("verify")

\* No fallback and no recovery sends input after an earlier attempt of the
\* same action has put an event on the target.
NoReplay == \A kind \in Input : Attempt(kind) => ~real.touched /\ ~real.late

\* A click that is reported as dispatched did reach the target, exactly once.
ReportedClickIsReal == At("done") /\ report.click = "yes" => real.clicks = 1

\* docs/dogfooding-2026-08-24-facebook-offscreen-click.md:23: a click attempted
\* after preparation "retains the existing outcome-unknown protection when
\* Playwright cannot prove whether dispatch occurred".
NotDispatchedIsProven == At("done") /\ report.action = "no" => ~real.touched /\ ~real.late

\* docs/dogfooding-2026-08-25-facebook-native-window-activation.md:27: input is
\* dispatched when visible; "otherwise retain `page_not_active` with
\* `actionDispatched: false`".
FailureIsTold == At("done") => report.error # "ActionPhaseInvariantError"
=============================================================================
