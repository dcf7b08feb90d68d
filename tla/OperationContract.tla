-------------------------- MODULE OperationContract --------------------------
(***************************************************************************)
(* What the browser supervisor promises the agent that issues browser      *)
(* operations, without its registry, its queue, its worker processes or    *)
(* its journal:                                                            *)
(*                                                                         *)
(*   - operations are carried out in the order in which they were issued;  *)
(*   - an operation is carried out at most once, and never after its       *)
(*     terminal outcome is known;                                          *)
(*   - an operation reported as succeeded was carried out;                 *)
(*   - a terminal outcome is never replaced by another one.                *)
(*                                                                         *)
(* README.md:42 says it in words: after a hard deadline the supervisor     *)
(* "reports the recovery outcome, and does not replay the timed-out        *)
(* action".  Supervisor.tla implements this specification.                 *)
(***************************************************************************)
EXTENDS Naturals

CONSTANT Ops    \* operation ids

VARIABLES
    state,      \* [Ops -> what the agent can be told about the operation]
    ahead,      \* [Ops -> operations issued before it that must be terminal first]
    effects     \* [Ops -> how often the operation was carried out]

vars == <<state, ahead, effects>>

Outcomes == {"succeeded", "failed", "timed_out", "lost"}

States == {"unknown", "reserved", "expired", "issued"} \cup Outcomes

Init ==
    /\ state = [o \in Ops |-> "unknown"]
    /\ ahead = [o \in Ops |-> {}]
    /\ effects = [o \in Ops |-> 0]

\* An id is reserved before a consequential action is issued; a reservation may
\* lapse.  Whatever looks at the records may notice that some did.
Lapsed(S, changed) ==
    [o \in Ops |-> IF o \in S /\ state[o] = "reserved" THEN "expired" ELSE changed[o]]

Reserve(o, S) ==
    /\ state[o] = "unknown"
    /\ state' = Lapsed(S, [state EXCEPT ![o] = "reserved"])
    /\ UNCHANGED <<ahead, effects>>

Lapse(S) ==
    /\ state' = Lapsed(S, state)
    /\ UNCHANGED <<ahead, effects>>

Issue(o, S) ==
    /\ o \notin S
    /\ state[o] \in {"unknown", "reserved"}
    /\ state' = Lapsed(S, [state EXCEPT ![o] = "issued"])
    /\ ahead' = [ahead EXCEPT ![o] = {p \in Ops : state[p] = "issued"}]
    /\ UNCHANGED effects

\* The oldest operation that is not yet terminal.
Oldest(o) == state[o] = "issued" /\ ahead[o] = {}

\* Only that one is carried out, and only once.
CarryOut(o) ==
    /\ Oldest(o)
    /\ effects[o] = 0
    /\ effects' = [effects EXCEPT ![o] = 1]
    /\ UNCHANGED <<state, ahead>>

\* "lost" is the operation whose record was dropped: the agent gets an error
\* without an outcome.
Finish(o, r) ==
    /\ Oldest(o)
    /\ r = "succeeded" => effects[o] = 1
    /\ state' = [state EXCEPT ![o] = r]
    /\ ahead' = [p \in Ops |-> ahead[p] \ {o}]
    /\ UNCHANGED effects

Next ==
    \/ \E S \in SUBSET Ops :
        \/ Lapse(S)
        \/ \E o \in Ops : Reserve(o, S) \/ Issue(o, S)
    \/ \E o \in Ops :
        \/ CarryOut(o)
        \/ \E r \in Outcomes : Finish(o, r)

Spec == Init /\ [][Next]_vars
==============================================================================
