----------------------------- MODULE LoungeStore -----------------------------
(***************************************************************************)
(* One room of the Agent Lounge, in the database that the MCP processes of *)
(* one machine share (lounge/store/*.ts).  Every connection has a process  *)
(* and a store worker of its own, which handles one request at a time.     *)
(*                                                                         *)
(* A request is carried out in two steps: requireSession reads the session *)
(* row, and then one BEGIN IMMEDIATE transaction does the work (schema.ts, *)
(* transaction).  The second step is atomic among all processes, but other *)
(* processes commit between the two.  What a request answers is lost when  *)
(* its client has timed out or its caller has gone.                        *)
(*                                                                         *)
(* Left out: the clock (leases, time stamps), status and history, which    *)
(* only read (history also appends an audit row that nothing reads back),  *)
(* and delivery_attempts, which is only reported.                          *)
(***************************************************************************)
EXTENDS Naturals, Sequences, FiniteSets

CONSTANTS
    Agents,        \* agent ids
    Managers,      \* STAGE5_LOUNGE_MANAGER_AGENT_IDS
    Sessions,      \* session ids, one for each connection that joins
    Keys,          \* idempotency keys
    Bodies,        \* what messages, notes and notices say
    Operations,    \* bound: the operations that are called
    MaxClaim,      \* MAX_INBOX_CLAIM
    MaxReceipts,   \* MAX_WORK_NOTE_MUTATIONS_PER_IDENTITY
    MaxMessages,   \* bound: messages sent
    MaxRevisions,  \* bound: revisions of a note or of the notice
    Everyone,      \* no toAgentIds: a broadcast
    Board,         \* the pinned notice, beside the agents' work notes
    None

DeliveryStates == {"pending", "delivered", "seen", "acted"}

ASSUME LoungeAssumption ==
    /\ Managers \subseteq Agents
    /\ IsFiniteSet(Agents)
    /\ MaxClaim \in Nat \ {0}
    /\ MaxReceipts \in Nat \ {0}
    /\ MaxMessages \in Nat
    /\ MaxRevisions \in Nat
    /\ Operations \subseteq {"heartbeat", "send", "claim", "ack", "note", "pin"}
    /\ Board \notin Agents
    /\ None \notin Agents \cup DeliveryStates

Presence == {"connected", "listening", "processing", "offline"}

Documents == Agents \cup {Board}

Messages == [sender : Agents, key : Keys, body : Bodies]

Mutations == [actor : Agents, key : Keys, expected : Nat, body : Bodies]

Requests ==
    [op : {"heartbeat"}, state : Presence]
    \cup [op : {"send"}, key : Keys, body : Bodies, to : {Everyone} \cup SUBSET Agents]
    \cup [op : {"claim"}, limit : 1 .. MaxClaim]
    \cup [op : {"ack"}, ids : SUBSET Nat, state : {"seen", "acted"}]
    \cup [op : {"note", "pin"}, key : Keys, expected : Nat, body : Bodies]

VARIABLES
    owner,      \* [Sessions -> agent of the session row; None: no row]
    open,       \* sessions with closed_at_ms NULL
    presence,   \* [Sessions -> state of the row]
    messages,   \* rows of messages, by sequence
    delivery,   \* by sequence: [Agents -> state of the delivery row; None: no row]
    log,        \* [Documents -> mutations applied; the last is the current row]
    receipts,   \* [Documents -> revisions whose mutation row is kept]
    asked,      \* [Sessions -> request past requireSession, not yet carried out]
    received    \* [Agents -> messages that a claim's answer has brought to the agent]

sessionVars == <<owner, open, presence>>
mailVars == <<messages, delivery>>
documentVars == <<log, receipts>>
vars == <<sessionVars, mailVars, documentVars, asked, received>>

Init ==
    /\ owner = [s \in Sessions |-> None]
    /\ open = {}
    /\ presence = [s \in Sessions |-> "offline"]
    /\ messages = <<>>
    /\ delivery = <<>>
    /\ log = [d \in Documents |-> <<>>]
    /\ receipts = [d \in Documents |-> {}]
    /\ asked = [s \in Sessions |-> None]
    /\ received = [a \in Agents |-> {}]

-------------------------------------------------------------------------------
(* Sessions *)

\* left_at_ms is never set: who has ever joined is a member.
Members == {owner[s] : s \in Sessions} \ {None}

SessionsOf(a) == {s \in open : owner[s] = a}

\* Variant: the sessions that the new one replaces are left open.
JoinBeside(s, a) ==
    /\ owner[s] = None
    /\ owner' = [owner EXCEPT ![s] = a]
    /\ open' = open \cup {s}
    /\ presence' = [presence EXCEPT ![s] = "connected"]
    /\ UNCHANGED <<mailVars, documentVars, asked, received>>

\* join: one transaction closes the agent's open sessions and opens a new one.
Join(s, a) ==
    /\ owner[s] = None
    /\ owner' = [owner EXCEPT ![s] = a]
    /\ open' = (open \ SessionsOf(a)) \cup {s}
    /\ presence' = [t \in Sessions |-> IF t = s THEN "connected"
                                       ELSE IF t \in SessionsOf(a) THEN "offline"
                                       ELSE presence[t]]
    /\ UNCHANGED <<mailVars, documentVars, asked, received>>

\* closeSession: a single UPDATE, without requireSession.
CloseSession(s) ==
    /\ owner[s] # None
    /\ asked[s] = None
    /\ s \in open
    /\ open' = open \ {s}
    /\ presence' = [presence EXCEPT ![s] = "offline"]
    /\ UNCHANGED <<owner, mailVars, documentVars, asked, received>>

-------------------------------------------------------------------------------
(* The first step of a request *)

\* Recipients the sender names; it is dropped from them itself.  A reply names a
\* row that exists, since rows are never deleted.
Addressees(a) == {Everyone} \cup (SUBSET (Agents \ {a}) \ {{}})

\* Agents acknowledge messages that were handed to them.
RequestsOf(a) ==
    [op : {"heartbeat"}, state : {"connected", "listening", "processing"}]
    \cup [op : {"send"}, key : Keys, body : Bodies, to : Addressees(a)]
    \cup [op : {"claim"}, limit : 1 .. MaxClaim]
    \cup [op : {"ack"}, ids : SUBSET received[a] \ {{}}, state : {"seen", "acted"}]
    \cup [op : {"note"}, key : Keys, expected : 0 .. MaxRevisions, body : Bodies]
    \cup (IF a \in Managers
          THEN [op : {"pin"}, key : Keys, expected : 0 .. MaxRevisions, body : Bodies]
          ELSE {})

\* requireSession and requireManagerSession: a closed session is refused, as is
\* a pin by an agent that is no manager.
Ask(s) ==
    /\ s \in open
    /\ asked[s] = None
    /\ \E r \in RequestsOf(owner[s]) :
          /\ r.op \in Operations
          /\ asked' = [asked EXCEPT ![s] = r]
    /\ UNCHANGED <<sessionVars, mailVars, documentVars, received>>

\* The transaction cannot begin: another process holds the database too long.
Busy(s) ==
    /\ asked[s] # None
    /\ asked' = [asked EXCEPT ![s] = None]
    /\ UNCHANGED <<sessionVars, mailVars, documentVars, received>>

\* The request that s now carries out.
Due(s, op) ==
    /\ asked[s] # None
    /\ asked[s].op = op
    /\ asked' = [asked EXCEPT ![s] = None]

-------------------------------------------------------------------------------
(* Heartbeats *)

\* Variant: the row is updated whether it is closed or not.
HeartbeatOfAny(s) ==
    /\ Due(s, "heartbeat")
    /\ presence' = [presence EXCEPT ![s] = asked[s].state]
    /\ UNCHANGED <<owner, open, mailVars, documentVars, received>>

\* heartbeat: UPDATE ... WHERE closed_at_ms IS NULL.
Heartbeat(s) ==
    /\ Due(s, "heartbeat")
    /\ presence' = IF s \in open THEN [presence EXCEPT ![s] = asked[s].state] ELSE presence
    /\ UNCHANGED <<owner, open, mailVars, documentVars, received>>

-------------------------------------------------------------------------------
(* Messages *)

\* Variant: a broadcast goes to its sender, too.
RecipientsWithSender(a, to) == IF to = Everyone THEN Members ELSE to

\* A broadcast goes to whoever is a member when it is committed.
Recipients(a, to) == IF to = Everyone THEN Members \ {a} ELSE to

RecipientsOf(n) == {a \in Agents : delivery[n][a] # None}

\* Variant: the earlier message is looked up by its recipients as well.
SameSendToSame(a, key, to) ==
    {n \in DOMAIN messages : /\ messages[n].sender = a /\ messages[n].key = key
                             /\ RecipientsOf(n) = to}

\* The messages that the same sender has sent under the same key.
SameSend(a, key, to) ==
    {n \in DOMAIN messages : messages[n].sender = a /\ messages[n].key = key}

\* send: a key that was used answers with the original message, or with
\* IDEMPOTENCY_CONFLICT; every direct recipient must be a member.
Send(s) ==
    /\ Due(s, "send")
    /\ LET a  == owner[s]
           r  == asked[s]
           to == Recipients(a, r.to)
       IN \/ /\ to \subseteq Members
             /\ SameSend(a, r.key, to) = {}
             /\ Len(messages) < MaxMessages
             /\ messages' = Append(messages, [sender |-> a, key |-> r.key, body |-> r.body])
             /\ delivery' = Append(delivery,
                                   [b \in Agents |-> IF b \in to THEN "pending" ELSE None])
          \/ /\ ~(to \subseteq Members) \/ SameSend(a, r.key, to) # {}
             /\ UNCHANGED mailVars
    /\ UNCHANGED <<sessionVars, documentVars, received>>

Claimable(a) == {n \in DOMAIN delivery : delivery[n][a] \in {"pending", "delivered"}}

\* Variant: the newest come first.
NewestFirst(S, limit) == {n \in S : Cardinality({m \in S : m > n}) < limit}

\* ORDER BY sequence LIMIT limit
Oldest(S, limit) == {n \in S : Cardinality({m \in S : m < n}) < limit}

Mark(a, S, state) ==
    [n \in DOMAIN delivery |-> IF n \in S THEN [delivery[n] EXCEPT ![a] = state] ELSE delivery[n]]

\* Variant: what is claimed counts as seen.
ClaimAsSeen(s) ==
    /\ Due(s, "claim")
    /\ LET a == owner[s]
           claimed == Oldest(Claimable(a), asked[s].limit)
       IN /\ delivery' = Mark(a, claimed, "seen")
          /\ received' \in {received, [received EXCEPT ![a] = @ \cup claimed]}
    /\ UNCHANGED <<sessionVars, messages, documentVars>>

\* claimInbox: what is claimed stays claimable until it is acknowledged; the
\* answer may be lost.
Claim(s) ==
    /\ Due(s, "claim")
    /\ LET a == owner[s]
           claimed == Oldest(Claimable(a), asked[s].limit)
       IN /\ delivery' = Mark(a, claimed, "delivered")
          /\ received' \in {received, [received EXCEPT ![a] = @ \cup claimed]}
    /\ UNCHANGED <<sessionVars, messages, documentVars>>

Rank(state) ==
    CASE state = "pending" -> 0 [] state = "delivered" -> 1
      [] state = "seen" -> 2    [] state = "acted" -> 3

\* Variant: an acknowledgement simply overwrites the state.
AckOverwrites(s) ==
    /\ Due(s, "ack")
    /\ delivery' = Mark(owner[s], asked[s].ids, asked[s].state)
    /\ UNCHANGED <<sessionVars, messages, documentVars, received>>

\* ack: every delivery moves forward or stays.
Ack(s) ==
    /\ Due(s, "ack")
    /\ LET a == owner[s]
           behind == {n \in asked[s].ids : Rank(delivery[n][a]) < Rank(asked[s].state)}
       IN delivery' = Mark(a, behind, asked[s].state)
    /\ UNCHANGED <<sessionVars, messages, documentVars, received>>

-------------------------------------------------------------------------------
(* Work notes and the pinned notice *)

\* setWorkNote writes the caller's note, pin the room's notice.
DocumentOf(s) == IF asked[s].op = "pin" THEN Board ELSE owner[s]

\* Variants: an outdated observation will do; a receipt is forgotten too early.
CurrentOrOlder(d, expected) == expected <= Len(log[d])

KeptTooFew(d, revision) ==
    {i \in receipts[d] \cup {revision} :
        d # Board /\ revision > MaxReceipts => i > revision + 1 - MaxReceipts}

Current(d, expected) == expected = Len(log[d])

\* The newest MaxReceipts mutations of a note are kept, and all of the notice.
Kept(d, revision) ==
    {i \in receipts[d] \cup {revision} :
        d # Board /\ revision > MaxReceipts => i > revision - MaxReceipts}

\* The mutations by the same agent under the same key that are still known.
SameMutation(d, a, key) ==
    {i \in receipts[d] : log[d][i].actor = a /\ log[d][i].key = key}

\* setWorkNote and pin: a known key answers with the original revision, or with
\* IDEMPOTENCY_CONFLICT; otherwise compare and set.
SetDocument(s, op) ==
    /\ Due(s, op)
    /\ LET a == owner[s]
           d == DocumentOf(s)
           r == asked[s]
           revision == Len(log[d]) + 1
       IN \/ /\ SameMutation(d, a, r.key) = {}
             /\ Current(d, r.expected)
             /\ revision <= MaxRevisions
             /\ log' = [log EXCEPT ![d] = Append(@, [actor |-> a, key |-> r.key,
                                          expected |-> r.expected, body |-> r.body])]
             /\ receipts' = [receipts EXCEPT ![d] = Kept(d, revision)]
          \/ /\ SameMutation(d, a, r.key) # {} \/ ~Current(d, r.expected)
             /\ UNCHANGED documentVars
    /\ UNCHANGED <<sessionVars, mailVars, received>>

SetWorkNote(s) == SetDocument(s, "note")

Pin(s) == SetDocument(s, "pin")

-------------------------------------------------------------------------------
Next ==
    \E s \in Sessions :
        \/ \E a \in Agents : Join(s, a)
        \/ CloseSession(s)
        \/ Ask(s)
        \/ Busy(s)
        \/ Heartbeat(s)
        \/ Send(s) \/ Claim(s) \/ Ack(s)
        \/ SetWorkNote(s) \/ Pin(s)

Spec == Init /\ [][Next]_vars

-------------------------------------------------------------------------------
(* Properties *)

\* The type of every variable; the deliveries go with the messages, and nobody is
\* a recipient of a message of its own.
TypeOK ==
    /\ owner \in [Sessions -> Agents \cup {None}]
    /\ open \subseteq Sessions
    /\ presence \in [Sessions -> Presence]
    /\ messages \in Seq(Messages)
    /\ delivery \in Seq([Agents -> DeliveryStates \cup {None}])
    /\ Len(delivery) = Len(messages)
    /\ \A n \in DOMAIN messages : delivery[n][messages[n].sender] = None
    /\ log \in [Documents -> Seq(Mutations)]
    /\ \A d \in Documents : receipts[d] \subseteq DOMAIN log[d]
    /\ asked \in [Sessions -> Requests \cup {None}]
    /\ received \in [Agents -> SUBSET (DOMAIN messages)]

\* A session is replaced and not joined by another: whatever connections race to
\* join as the same agent, at most one of its sessions is open.
OneOpenSession == \A s, t \in open : owner[s] = owner[t] => s = t

\* A closed session never appears online again, although its connection may still
\* be in the middle of a heartbeat when another process closes it.
ClosedStaysOffline == \A s \in Sessions \ open : presence[s] = "offline"

\* "Delivery is at least once until the recipient acknowledges" (docs/agent-lounge.md:8):
\* a message whose claim was answered to nobody can be claimed again.
AtLeastOnce ==
    \A n \in DOMAIN messages : \A a \in RecipientsOf(n) \ {b \in Agents : n \in received[b]} :
        n \in Claimable(a)

\* Messages reach an agent in the order in which they were committed: none is
\* handed out while an earlier one has never been.
DeliveredInOrder ==
    \A m, n \in DOMAIN messages : \A a \in Agents :
        m < n /\ delivery[n][a] = "delivered" => delivery[m][a] # "pending"

\* "A required idempotency key prevents a sender retry from creating a duplicate
\* message" (docs/agent-lounge.md:10), even if the room has grown between the two.
OneMessagePerKey ==
    \A m, n \in DOMAIN messages :
        messages[m].sender = messages[n].sender /\ messages[m].key = messages[n].key => m = n

\* "monotonic states" (docs/agent-lounge.md:9): no claim, late duplicate or other
\* session of the agent takes a delivery back.
NeverTakenBack ==
    [][\A n \in DOMAIN delivery : \A a \in RecipientsOf(n) :
            Rank(delivery'[n][a]) >= Rank(delivery[n][a])]_vars

\* A mutation is applied at most once, however late it is retried: also when its
\* receipt has been pruned.
AppliedOnce ==
    \A d \in Documents : \A i, j \in DOMAIN log[d] : log[d][i] = log[d][j] => i = j

\* "retrying the same mutation returns its original revision" (docs/agent-lounge.md:46):
\* the receipts of the last MaxReceipts revisions, and of every notice, are there.
RetryIsRecognized ==
    \A d \in Documents : \A i \in DOMAIN log[d] :
        d = Board \/ i + MaxReceipts > Len(log[d]) => i \in receipts[d]

\* "a replacement session fences the superseded writer" (docs/agent-lounge.md:12): no
\* note is written by a session that has been closed.
SupersededWriterIsFenced ==
    [][\A s \in Sessions : SetWorkNote(s) /\ log' # log => s \in open]_vars
===============================================================================
