------------------------------- MODULE Dialogs -------------------------------
(* JavaScript dialogs (dialogs/manager.ts). A command runs in a scope, with  *)
(* at most one dialog the agent expects; whatever dialog comes up meanwhile  *)
(* is answered and counted to the scope. When the operation ends, the        *)
(* answers under way are given a second, the scope is closed, and the answer *)
(* of the command says what came up in it.                                   *)
EXTENDS Naturals, FiniteSets
CONSTANTS None, Dialogs, Types, Calls, Last
VARIABLES dialog,  \* of each dialog, None or its type, its cause, and what the manager noted of it
          scope,   \* None or the command under way
          call,    \* the last command
          settled, \* None or the dialogs whose answers the end of the operation waits for
          answers  \* of each ended command, its outcome and what it said of its dialogs
vars == <<dialog, scope, call, settled, answers>>

Raised == {d \in Dialogs : dialog[d] # None}
\* pending: those the browser has not taken the answer of.
Pending == {d \in Raised : dialog[d].pc = "asked"}
In(c) == {d \in Raised : dialog[d].scope = c}

Init ==
    /\ dialog = [d \in Dialogs |-> None] /\ scope = None /\ call = 0 /\ settled = None
    /\ answers = [c \in Calls |-> None]

-----------------------------------------------------------------------------
\* run
Expectations == {None} \cup [type : Types, response : {"accept", "dismiss"}]
Begin ==
    /\ scope = None /\ call < Last /\ call' = call + 1
    /\ \E e \in Expectations : scope' = [expect |-> e, matched |-> FALSE, failed |-> FALSE]
    /\ UNCHANGED <<dialog, settled, answers>>

AnyOfType(type) == scope # None /\ scope.expect # None /\ scope.expect.type = type
IsExpected(type) == AnyOfType(type) /\ ~scope.matched
Marked(s) == [s EXCEPT !.matched = TRUE]

\* handle, respond: a page raises a dialog because of a command, which may be
\* over, or by itself; other pages may have dialogs that are not answered yet.
Raise ==
    /\ \E d \in Dialogs \ Raised, type \in Types, cause \in 0..call :
        /\ dialog' = [dialog EXCEPT ![d] =
              [type |-> type, cause |-> cause, scope |-> IF scope = None THEN 0 ELSE call, expected |-> IsExpected(type),
               response |-> IF IsExpected(type) THEN scope.expect.response ELSE "dismiss", pc |-> "asked"]]
        /\ scope' = IF IsExpected(type) THEN Marked(scope) ELSE scope
    /\ UNCHANGED <<call, settled, answers>>
Respond ==
    /\ \E d \in Pending, failed \in BOOLEAN :
        dialog' = [dialog EXCEPT ![d].pc = "answered", ![d].response = IF failed THEN "response_failed" ELSE @]
    /\ UNCHANGED <<scope, call, settled, answers>>

OperationEnds ==
    /\ scope # None /\ settled = None /\ settled' = Pending
    /\ \E failed \in BOOLEAN : scope' = [scope EXCEPT !.failed = failed]
    /\ UNCHANGED <<dialog, call, answers>>

Unexpected == \E d \in In(call) : ~dialog[d].expected
ResponseFailed == \E d \in In(call) : dialog[d].response = "response_failed"
MatchedIsEnough == (scope.expect # None => scope.matched) /\ (scope.expect # None \/ ~Unexpected) /\ ~ResponseFailed
Satisfied == (scope.expect # None => scope.matched) /\ ~Unexpected /\ ~ResponseFailed
\* withDialogEvidence
Evidence(c) == {[type |-> dialog[d].type, response |-> dialog[d].response] : d \in In(c)}
\* settlePending: the answers that were under way, or a second; then the answer of the command.
Settled == scope # None /\ settled # None
Closes ==
    /\ Settled
    /\ scope' = None /\ settled' = None
    /\ answers' = [answers EXCEPT ![call] =
          [ok |-> ~scope.failed /\ Satisfied, expect |-> scope.expect,
           said |-> Evidence(call)]]
    /\ UNCHANGED <<dialog, call>>

Next == Begin \/ Raise \/ Respond \/ OperationEnds \/ Closes
\* Operations have deadlines and the timer of the settling runs out; a dialog
\* may stay without an answer for ever.
Spec == Init /\ [][Next]_vars /\ WF_vars(OperationEnds) /\ WF_vars(Closes)

-----------------------------------------------------------------------------
\* What a command is said to have been answered is what its dialogs were.
TypeOK ==
    /\ settled # None => scope # None /\ settled \subseteq Raised
    /\ scope # None => (scope.matched <=> \E d \in In(call) : dialog[d].expected)

\* The response the agent asked for is given to one dialog of a command at most
\* (respond).
OneAccepted == \A c \in Calls : Cardinality({d \in In(c) : dialog[d].expected}) <= 1

\* A command that succeeds had the dialog it expected and no other, or none
\* (actionResult, assertSatisfied).
SuccessIsExact == \A c \in Calls : answers[c] # None /\ answers[c].ok =>
    {dialog[d].type : d \in In(c)} = (IF answers[c].expect = None THEN {} ELSE {answers[c].expect.type})
    /\ Cardinality(In(c)) <= 1

\* A command ends whether or not the browser takes the answer to its dialog:
\* nothing waits for ever (settlePending).
Runs(c) == call = c /\ scope # None
CommandEnds == \A c \in Calls : Runs(c) ~> (answers[c] # None)

\* docs/failure-taxonomy.md:33, "accept/dismiss only the exact expectation": an
\* accepted dialog is one of the action the expectation is about.
AcceptsOwn == \A d \in Raised : dialog[d].expected => dialog[d].cause = dialog[d].scope

\* docs/failure-taxonomy.md:33, "one action-scoped expected type/response": a
\* command that succeeds has had its expected dialog answered that way.
SuccessIsAnswered == \A c \in Calls : answers[c] # None /\ answers[c].ok =>
    \A d \in In(c) : dialog[d].response # "response_failed"
=============================================================================
