--------------------------- MODULE LoungeStoreProofs ---------------------------
(* For any agents, sessions, keys and bounds: what a room promises about its   *)
(* sessions, messages and documents. The invariant has a part for each group   *)
(* of tables and one for the requests that have passed requireSession: these   *)
(* were checked against rows that other processes have changed since, and what *)
(* is still true of them when they are carried out is all that the             *)
(* transactions may build on.                                                  *)
EXTENDS LoungeStore, SequenceTheorems, FiniteSetTheorems, TLAPS

Deliveries == [Agents -> DeliveryStates \cup {None}]

\* Who is in a room: one open session for each agent, and a row for each session.
SessionInv ==
    /\ owner \in [Sessions -> Agents \cup {None}]
    /\ open \subseteq {s \in Sessions : owner[s] # None}
    /\ presence \in [Sessions -> Presence]
    /\ OneOpenSession
    /\ ClosedStaysOffline

\* An agent has received only what was delivered to it.
HandedOut == \A a \in Agents : \A n \in received[a] : delivery[n][a] \notin {None, "pending"}

NotToSelf == \A n \in DOMAIN messages : delivery[n][messages[n].sender] = None

MailType ==
    /\ messages \in Seq(Messages)
    /\ delivery \in Seq(Deliveries)
    /\ Len(delivery) = Len(messages)
    /\ received \in [Agents -> SUBSET (DOMAIN messages)]

MailInv ==
    /\ MailType
    /\ NotToSelf
    /\ HandedOut
    /\ AtLeastOnce
    /\ DeliveredInOrder
    /\ OneMessagePerKey

\* A mutation bears the revision that it followed.
Stamped == \A d \in Documents : \A i \in DOMAIN log[d] : log[d][i].expected + 1 = i

DocumentType ==
    /\ log \in [Documents -> Seq(Mutations)]
    /\ receipts \in [Documents -> SUBSET Nat]
    /\ \A d \in Documents : receipts[d] \subseteq DOMAIN log[d]

DocumentInv ==
    /\ DocumentType
    /\ Stamped
    /\ RetryIsRecognized

\* What requireSession has established, and no other process can undo.
RequestInv ==
    /\ asked \in [Sessions -> Requests \cup {None}]
    /\ \A s \in Sessions :
          asked[s] # None => owner[s] \in Agents /\ asked[s] \in RequestsOf(owner[s])

IInv == SessionInv /\ MailInv /\ DocumentInv /\ RequestInv

-------------------------------------------------------------------------------
(* Requests *)

\* The rows of messages are numbered from one.
LEMMA MessageNumbers ==
    ASSUME MailType
    PROVE  /\ Len(messages) \in Nat
           /\ DOMAIN messages = 1 .. Len(messages)
           /\ DOMAIN delivery = 1 .. Len(messages)
           /\ \A n \in 1 .. Len(messages) : messages[n] \in Messages /\ delivery[n] \in Deliveries
  BY LenProperties, ElementOfSeq DEF MailType

\* Every request that is let through is a request.
LEMMA RequestsAreTyped ==
    ASSUME MailType, NEW a \in Agents
    PROVE  RequestsOf(a) \subseteq Requests
<1> SUFFICES ASSUME NEW r \in RequestsOf(a) PROVE r \in Requests
  OBVIOUS
<1>0. received[a] \subseteq Nat
  BY MessageNumbers DEF MailType
<1>1. CASE r \in [op : {"heartbeat"}, state : {"connected", "listening", "processing"}]
  BY <1>1 DEF Requests, Presence
<1>2. CASE r \in [op : {"send"}, key : Keys, body : Bodies, to : Addressees(a)]
  BY <1>2 DEF Requests, Addressees
<1>3. CASE r \in [op : {"claim"}, limit : 1 .. MaxClaim]
  BY <1>3 DEF Requests
<1>4. CASE r \in [op : {"ack"}, ids : SUBSET received[a] \ {{}}, state : {"seen", "acted"}]
  <2>1. r.ids \in SUBSET Nat /\ r = [op |-> "ack", ids |-> r.ids, state |-> r.state] /\ r.state \in {"seen", "acted"}
    BY <1>0, <1>4
  <2> QED BY <2>1 DEF Requests
<1>5. CASE r \in [op : {"note", "pin"}, key : Keys, expected : 0 .. MaxRevisions, body : Bodies]
  BY <1>5, LoungeAssumption DEF Requests
<1> QED BY <1>1, <1>2, <1>3, <1>4, <1>5 DEF RequestsOf

\* What the transactions build on.
LEMMA HeartbeatRequest ==
    ASSUME RequestInv, NEW s \in Sessions, Due(s, "heartbeat")
    PROVE  asked[s].state \in Presence
  BY DEF RequestInv, Due, RequestsOf, Presence

LEMMA SendRequest ==
    ASSUME RequestInv, SessionInv, NEW s \in Sessions, Due(s, "send")
    PROVE  /\ owner[s] \in Agents
           /\ asked[s].key \in Keys
           /\ asked[s].body \in Bodies
           /\ Recipients(owner[s], asked[s].to) \subseteq Agents \ {owner[s]}
<1>1. owner[s] \in Agents /\ asked[s] \in [op : {"send"}, key : Keys, body : Bodies, to : Addressees(owner[s])]
  BY DEF RequestInv, Due, RequestsOf
<1>2. Members \subseteq Agents
  BY DEF Members, SessionInv
<1> QED BY <1>1, <1>2 DEF Recipients, Addressees

LEMMA ClaimRequest ==
    ASSUME RequestInv, NEW s \in Sessions, Due(s, "claim")
    PROVE  owner[s] \in Agents /\ asked[s].limit \in Nat
  BY LoungeAssumption DEF RequestInv, Due, RequestsOf

LEMMA AckRequest ==
    ASSUME RequestInv, NEW s \in Sessions, Due(s, "ack")
    PROVE  /\ owner[s] \in Agents
           /\ asked[s].ids \subseteq received[owner[s]]
           /\ asked[s].state \in {"seen", "acted"}
  BY DEF RequestInv, Due, RequestsOf

LEMMA DocumentRequest ==
    ASSUME RequestInv, NEW s \in Sessions, Due(s, "note") \/ Due(s, "pin")
    PROVE  /\ owner[s] \in Agents
           /\ asked[s].key \in Keys
           /\ asked[s].expected \in Nat
           /\ asked[s].body \in Bodies
           /\ DocumentOf(s) \in Documents
  BY LoungeAssumption DEF RequestInv, Due, RequestsOf, DocumentOf, Documents

-------------------------------------------------------------------------------
(* Steps that keep a group as it is *)

LEMMA SessionsKept == ASSUME SessionInv, UNCHANGED sessionVars PROVE SessionInv'
  BY DEF SessionInv, sessionVars, OneOpenSession, ClosedStaysOffline

LEMMA MailKept == ASSUME MailInv, UNCHANGED <<mailVars, received>> PROVE MailInv'
  BY DEF MailInv, MailType, NotToSelf, HandedOut, AtLeastOnce, RecipientsOf, Claimable, DeliveredInOrder,
         OneMessagePerKey, mailVars

LEMMA DocumentsKept == ASSUME DocumentInv, UNCHANGED documentVars PROVE DocumentInv'
  BY DEF DocumentInv, DocumentType, Stamped, RetryIsRecognized, documentVars

\* A request that has been let through stays what it is: its session keeps its
\* agent, and the agent what it has received.
LEMMA RequestsKept ==
    ASSUME RequestInv,
           \A s \in Sessions : owner[s] # None => owner'[s] = owner[s],
           \A a \in Agents : received[a] \subseteq received'[a],
           asked' = asked \/ \E s \in Sessions : asked' = [asked EXCEPT ![s] = None]
    PROVE  RequestInv'
<1>1. asked' \in [Sessions -> Requests \cup {None}]
  BY DEF RequestInv
<1>2. ASSUME NEW s \in Sessions, asked'[s] # None
      PROVE  (owner[s] \in Agents /\ asked[s] \in RequestsOf(owner[s]))'
  <2>1. asked'[s] = asked[s]
    BY <1>2 DEF RequestInv
  <2>2. owner[s] \in Agents /\ asked[s] \in RequestsOf(owner[s])
    BY <1>2, <2>1 DEF RequestInv
  <2>3. owner'[s] = owner[s]
    BY <2>2, LoungeAssumption
  <2>4. CASE asked[s] \in [op : {"ack"}, ids : SUBSET received[owner[s]] \ {{}}, state : {"seen", "acted"}]
    <3>1. asked[s] \in [op : {"ack"}, ids : SUBSET received'[owner[s]] \ {{}}, state : {"seen", "acted"}]
      BY <2>2, <2>4
    <3> QED BY <2>1, <2>2, <2>3, <3>1 DEF RequestsOf
  <2>5. CASE asked[s] \notin [op : {"ack"}, ids : SUBSET received[owner[s]] \ {{}}, state : {"seen", "acted"}]
    BY <2>1, <2>2, <2>3, <2>5 DEF RequestsOf, Addressees
  <2> QED BY <2>4, <2>5
<1> QED BY <1>1, <1>2 DEF RequestInv

LEMMA DueIsDone == ASSUME NEW s \in Sessions, NEW op, Due(s, op) PROVE asked' = [asked EXCEPT ![s] = None]
  BY DEF Due

-------------------------------------------------------------------------------
(* Sessions *)

\* A new session takes the place of the agent's others.
LEMMA JoinStep ==
    ASSUME IInv, NEW s \in Sessions, NEW a \in Agents, Join(s, a)
    PROVE  IInv'
<1>1. SessionInv'
  <2>1. owner' \in [Sessions -> Agents \cup {None}] /\ presence' \in [Sessions -> Presence]
    BY DEF IInv, SessionInv, Join, Presence
  <2>2. open' \subseteq {t \in Sessions : owner'[t] # None}
    BY LoungeAssumption DEF IInv, SessionInv, Join
  <2>3. OneOpenSession'
    BY DEF IInv, SessionInv, Join, OneOpenSession, SessionsOf
  <2>4. ClosedStaysOffline'
    BY DEF IInv, SessionInv, Join, ClosedStaysOffline, SessionsOf
  <2> QED BY <2>1, <2>2, <2>3, <2>4 DEF SessionInv
<1>2. RequestInv'
  BY RequestsKept DEF IInv, SessionInv, Join
<1> QED BY <1>1, <1>2, MailKept, DocumentsKept DEF IInv, Join

LEMMA CloseSessionStep == ASSUME IInv, NEW s \in Sessions, CloseSession(s) PROVE IInv'
<1>1. SessionInv'
  BY DEF IInv, SessionInv, CloseSession, OneOpenSession, ClosedStaysOffline, Presence
<1>2. RequestInv'
  BY RequestsKept DEF IInv, CloseSession
<1> QED BY <1>1, <1>2, MailKept, DocumentsKept DEF IInv, CloseSession

LEMMA AskStep == ASSUME IInv, NEW s \in Sessions, Ask(s) PROVE IInv'
<1>1. PICK r \in RequestsOf(owner[s]) : asked' = [asked EXCEPT ![s] = r]
  BY DEF Ask
<1>2. owner[s] \in Agents
  BY DEF Ask, IInv, SessionInv
<1>3. r \in Requests
  BY <1>1, <1>2, RequestsAreTyped DEF IInv, MailInv
<1>4. RequestInv'
  BY <1>1, <1>2, <1>3 DEF IInv, RequestInv, Ask, sessionVars, RequestsOf, Addressees
<1> QED BY <1>4, SessionsKept, MailKept, DocumentsKept DEF IInv, Ask

LEMMA BusyStep == ASSUME IInv, NEW s \in Sessions, Busy(s) PROVE IInv'
<1>1. RequestInv'
  BY RequestsKept DEF IInv, Busy, sessionVars
<1> QED BY <1>1, SessionsKept, MailKept, DocumentsKept DEF IInv, Busy

\* The row of a session that was closed in the meantime is left alone.
LEMMA HeartbeatStep == ASSUME IInv, NEW s \in Sessions, Heartbeat(s) PROVE IInv'
<1>1. asked[s].state \in Presence
  BY HeartbeatRequest DEF IInv, Heartbeat
<1>2. SessionInv'
  BY <1>1 DEF IInv, SessionInv, Heartbeat, OneOpenSession, ClosedStaysOffline
<1>3. RequestInv'
  BY RequestsKept, DueIsDone DEF IInv, Heartbeat
<1> QED BY <1>2, <1>3, MailKept, DocumentsKept DEF IInv, Heartbeat

-------------------------------------------------------------------------------
(* Messages *)

\* A message is committed with its deliveries.
LEMMA AppendedMail ==
    ASSUME MailInv, NEW m \in Messages, NEW d \in [Agents -> {None, "pending"}], d[m.sender] = None,
           \A n \in DOMAIN messages : ~(messages[n].sender = m.sender /\ messages[n].key = m.key),
           messages' = Append(messages, m), delivery' = Append(delivery, d), received' = received
    PROVE  MailInv'
<1> DEFINE last == Len(messages) + 1
<1>1. d \in Deliveries
  BY DEF Deliveries, DeliveryStates
<1>2. /\ Len(messages) \in Nat /\ DOMAIN messages = 1 .. Len(messages) /\ Len(delivery) = Len(messages)
      /\ messages \in Seq(Messages) /\ delivery \in Seq(Deliveries)
  BY MessageNumbers DEF MailInv, MailType
<1>3. /\ messages' \in Seq(Messages) /\ delivery' \in Seq(Deliveries)
      /\ Len(messages') = last /\ Len(delivery') = last
      /\ messages'[last] = m /\ delivery'[last] = d
      /\ \A n \in 1 .. Len(messages) : messages'[n] = messages[n] /\ delivery'[n] = delivery[n]
  BY <1>1, <1>2, AppendProperties
<1>4. DOMAIN messages' = 1 .. last /\ DOMAIN delivery' = 1 .. last
  BY <1>3, LenProperties
<1>5. MailType'
  BY <1>2, <1>3, <1>4 DEF MailInv, MailType
<1>6. NotToSelf'
  BY <1>2, <1>3, <1>4 DEF MailInv, NotToSelf
<1>7. HandedOut'
  BY <1>2, <1>3 DEF MailInv, MailType, HandedOut
<1>8. AtLeastOnce'
  <2> SUFFICES ASSUME NEW n \in 1 .. last, NEW a \in Agents, delivery'[n][a] # None, n \notin received[a]
               PROVE  delivery'[n][a] \in {"pending", "delivered"}
    BY <1>4 DEF AtLeastOnce, RecipientsOf, Claimable
  <2>1. CASE n = last
    BY <1>3, <2>1
  <2>2. CASE n # last
    BY <1>2, <1>3, <2>2 DEF MailInv, AtLeastOnce, RecipientsOf, Claimable
  <2> QED BY <2>1, <2>2
<1>9. DeliveredInOrder'
  <2> SUFFICES ASSUME NEW k \in 1 .. last, NEW n \in 1 .. last, NEW a \in Agents,
                      k < n, delivery'[n][a] = "delivered"
               PROVE  delivery'[k][a] # "pending"
    BY <1>4 DEF DeliveredInOrder
  <2>1. n # last
    BY <1>3, LoungeAssumption DEF DeliveryStates
  <2>2. n \in 1 .. Len(messages) /\ k \in 1 .. Len(messages)
    BY <1>2, <2>1
  <2> QED BY <1>2, <1>3, <2>2 DEF MailInv, DeliveredInOrder
<1>10. OneMessagePerKey'
  <2> SUFFICES ASSUME NEW k \in 1 .. last, NEW n \in 1 .. last,
                      messages'[k].sender = messages'[n].sender, messages'[k].key = messages'[n].key
               PROVE  k = n
    BY <1>4 DEF OneMessagePerKey
  <2>1. CASE k # last /\ n # last
    BY <1>2, <1>3, <2>1 DEF MailInv, OneMessagePerKey
  <2>2. CASE k = last \/ n = last
    BY <1>2, <1>3, <2>2
  <2> QED BY <2>1, <2>2
<1> QED BY <1>5, <1>6, <1>7, <1>8, <1>9, <1>10 DEF MailInv

\* A message is sent once for a key, to others than its sender.
LEMMA SendStep == ASSUME IInv, NEW s \in Sessions, Send(s) PROVE IInv'
<1> DEFINE a == owner[s]
           to == Recipients(a, asked[s].to)
           m == [sender |-> a, key |-> asked[s].key, body |-> asked[s].body]
           d == [b \in Agents |-> IF b \in to THEN "pending" ELSE None]
<1>1. Due(s, "send") /\ UNCHANGED <<sessionVars, documentVars, received>>
  BY DEF Send
<1>2. a \in Agents /\ m \in Messages /\ to \subseteq Agents \ {a}
  BY <1>1, SendRequest DEF IInv, Messages
<1>3. MailInv'
  <2>1. CASE UNCHANGED mailVars
    BY <1>1, <2>1, MailKept DEF IInv
  <2>2. CASE SameSend(a, asked[s].key, to) = {} /\ messages' = Append(messages, m) /\ delivery' = Append(delivery, d)
    <3>1. d \in [Agents -> {None, "pending"}] /\ d[m.sender] = None
      BY <1>2
    <3>2. \A n \in DOMAIN messages : ~(messages[n].sender = m.sender /\ messages[n].key = m.key)
      BY <2>2 DEF SameSend
    <3>3. messages' = Append(messages, m) /\ delivery' = Append(delivery, d) /\ received' = received
      BY <1>1, <2>2
    <3> HIDE DEF d, m
    <3> QED BY <1>2, <3>1, <3>2, <3>3, AppendedMail DEF IInv
  <2> QED BY <2>1, <2>2 DEF Send
<1>4. RequestInv'
  BY <1>1, RequestsKept, DueIsDone DEF IInv, sessionVars
<1> QED BY <1>1, <1>3, <1>4, SessionsKept, DocumentsKept DEF IInv

\* What marking deliveries does.
LEMMA MarkedDeliveries ==
    ASSUME MailType, NEW a \in Agents, NEW S, NEW state \in DeliveryStates
    PROVE  /\ Mark(a, S, state) \in Seq(Deliveries)
           /\ Len(Mark(a, S, state)) = Len(messages)
           /\ \A n \in 1 .. Len(messages) : \A b \in Agents :
                 Mark(a, S, state)[n][b] = IF n \in S /\ b = a THEN state ELSE delivery[n][b]
<1> DEFINE marked == Mark(a, S, state)
<1>1. /\ Len(messages) \in Nat /\ DOMAIN delivery = 1 .. Len(messages)
      /\ \A n \in 1 .. Len(messages) : delivery[n] \in Deliveries
  BY MessageNumbers
<1>2. \A n \in 1 .. Len(messages) : marked[n] = IF n \in S THEN [delivery[n] EXCEPT ![a] = state] ELSE delivery[n]
  BY <1>1 DEF Mark
<1>3. \A n \in 1 .. Len(messages) : marked[n] \in Deliveries
  BY <1>1, <1>2 DEF Deliveries
<1>4. marked = [n \in 1 .. Len(messages) |-> marked[n]]
  BY <1>1 DEF Mark
<1>5. marked \in Seq(Deliveries) /\ Len(marked) = Len(messages)
  <2> HIDE DEF marked
  <2> QED BY <1>1, <1>3, <1>4
<1> QED BY <1>1, <1>2, <1>5 DEF Deliveries

\* The oldest of some messages include whatever is older than one of them.
LEMMA OldestAreFirst ==
    ASSUME NEW S, IsFiniteSet(S), S \subseteq Nat, NEW limit \in Nat, NEW n \in Oldest(S, limit),
           NEW m \in S, m < n
    PROVE  m \in Oldest(S, limit)
<1>0. n \in S /\ n \in Nat /\ m \in Nat
  BY DEF Oldest
<1>1. {k \in S : k < m} \subseteq {k \in S : k < n}
  <2> SUFFICES ASSUME NEW k \in S, k < m PROVE k < n
    OBVIOUS
  <2>1. k \in Nat
    OBVIOUS
  <2> QED BY <1>0, <2>1
<1>2. IsFiniteSet({k \in S : k < n})
  BY FS_Subset
<1>3. Cardinality({k \in S : k < m}) <= Cardinality({k \in S : k < n})
  BY <1>1, <1>2, FS_Subset
<1>4. Cardinality({k \in S : k < n}) < limit
  BY DEF Oldest
<1>5. Cardinality({k \in S : k < m}) \in Nat /\ Cardinality({k \in S : k < n}) \in Nat
  BY <1>1, <1>2, FS_Subset, FS_CardinalityType
<1> QED BY <1>3, <1>4, <1>5 DEF Oldest

\* Messages that are handed out, oldest first, are delivered.
LEMMA ClaimedMail ==
    ASSUME MailInv, NEW a \in Agents, NEW limit \in Nat, NEW claimed,
           claimed = Oldest(Claimable(a), limit),
           messages' = messages, delivery' = Mark(a, claimed, "delivered"),
           received' = received \/ received' = [received EXCEPT ![a] = @ \cup claimed]
    PROVE  MailInv'
<1>1. /\ Len(messages) \in Nat /\ DOMAIN messages = 1 .. Len(messages) /\ DOMAIN delivery = 1 .. Len(messages)
      /\ \A n \in 1 .. Len(messages) : messages[n] \in Messages /\ delivery[n] \in Deliveries
  BY MessageNumbers DEF MailInv
<1>2. claimed \subseteq Claimable(a) /\ Claimable(a) \subseteq 1 .. Len(messages)
  BY <1>1 DEF Oldest, Claimable
<1>3. /\ delivery' \in Seq(Deliveries) /\ Len(delivery') = Len(messages)
      /\ \A n \in 1 .. Len(messages) : \A b \in Agents :
            delivery'[n][b] = IF n \in claimed /\ b = a THEN "delivered" ELSE delivery[n][b]
  BY MarkedDeliveries DEF MailInv, DeliveryStates
<1>4. DOMAIN delivery' = 1 .. Len(messages)
  BY <1>3, LenProperties
<1>5. MailType'
  BY <1>1, <1>2, <1>3 DEF MailInv, MailType
<1>6. NotToSelf'
  BY <1>1, <1>2, <1>3, LoungeAssumption DEF MailInv, NotToSelf, Claimable, DeliveryStates, Messages
<1>7. HandedOut'
  BY <1>1, <1>2, <1>3, LoungeAssumption DEF MailInv, MailType, HandedOut, DeliveryStates
<1>8. AtLeastOnce'
  <2> SUFFICES ASSUME NEW n \in 1 .. Len(messages), NEW b \in Agents, delivery'[n][b] # None, n \notin received'[b]
               PROVE  delivery'[n][b] \in {"pending", "delivered"}
    BY <1>1, <1>4 DEF AtLeastOnce, RecipientsOf, Claimable
  <2>1. CASE n \in claimed /\ b = a
    BY <1>3, <2>1
  <2>2. CASE ~(n \in claimed /\ b = a)
    <3>1. delivery'[n][b] = delivery[n][b] /\ n \notin received[b]
      BY <1>3, <2>2 DEF MailInv, MailType
    <3> QED BY <1>1, <3>1 DEF MailInv, AtLeastOnce, RecipientsOf, Claimable
  <2> QED BY <2>1, <2>2
<1>9. DeliveredInOrder'
  <2> SUFFICES ASSUME NEW k \in 1 .. Len(messages), NEW n \in 1 .. Len(messages), NEW b \in Agents,
                      k < n, delivery'[n][b] = "delivered", delivery'[k][b] = "pending"
               PROVE  FALSE
    BY <1>1 DEF DeliveredInOrder
  <2>1. delivery[k][b] = "pending" /\ ~(k \in claimed /\ b = a)
    BY <1>3
  <2>2. n \in claimed /\ b = a
    BY <1>1, <1>3, <2>1 DEF MailInv, DeliveredInOrder
  <2>3. k \in Claimable(a)
    BY <1>1, <2>1, <2>2 DEF Claimable
  <2>4. IsFiniteSet(Claimable(a)) /\ Claimable(a) \subseteq Nat
    <3>1. IsFiniteSet(1 .. Len(messages))
      BY <1>1, FS_Interval
    <3> QED BY <1>2, <3>1, FS_Subset
  <2> QED BY <2>1, <2>2, <2>3, <2>4, OldestAreFirst
<1>10. OneMessagePerKey'
  BY DEF MailInv, OneMessagePerKey
<1> QED BY <1>5, <1>6, <1>7, <1>8, <1>9, <1>10 DEF MailInv

LEMMA ClaimStep == ASSUME IInv, NEW s \in Sessions, Claim(s) PROVE IInv'
<1> DEFINE a == owner[s]
           claimed == Oldest(Claimable(a), asked[s].limit)
<1>1. /\ Due(s, "claim") /\ UNCHANGED <<sessionVars, messages, documentVars>>
      /\ delivery' = Mark(a, claimed, "delivered")
      /\ received' = received \/ received' = [received EXCEPT ![a] = @ \cup claimed]
  BY DEF Claim
<1>2. a \in Agents /\ asked[s].limit \in Nat
  BY <1>1, ClaimRequest DEF IInv
<1>3. MailInv'
  BY <1>1, <1>2, ClaimedMail DEF IInv
<1>4. RequestInv'
  <2>1. \A b \in Agents : received[b] \subseteq received'[b]
    BY <1>1 DEF IInv, MailInv, MailType
  <2> QED BY <1>1, <2>1, RequestsKept, DueIsDone DEF IInv, sessionVars
<1> QED BY <1>1, <1>3, <1>4, SessionsKept, DocumentsKept DEF IInv

\* Messages that were handed out are acknowledged.
LEMMA AcknowledgedMail ==
    ASSUME MailInv, NEW a \in Agents, NEW S, NEW state \in {"seen", "acted"},
           S \subseteq received[a],
           messages' = messages, delivery' = Mark(a, S, state), received' = received
    PROVE  MailInv'
<1>1. /\ Len(messages) \in Nat /\ DOMAIN messages = 1 .. Len(messages) /\ DOMAIN delivery = 1 .. Len(messages)
      /\ \A n \in 1 .. Len(messages) : messages[n] \in Messages /\ delivery[n] \in Deliveries
  BY MessageNumbers DEF MailInv
<1>2. /\ delivery' \in Seq(Deliveries) /\ Len(delivery') = Len(messages)
      /\ \A n \in 1 .. Len(messages) : \A b \in Agents :
            delivery'[n][b] = IF n \in S /\ b = a THEN state ELSE delivery[n][b]
  BY MarkedDeliveries DEF MailInv, DeliveryStates
<1>3. DOMAIN delivery' = 1 .. Len(messages)
  BY <1>2, LenProperties
<1>4. MailType'
  BY <1>1, <1>2 DEF MailInv, MailType
<1>5. NotToSelf'
  BY <1>1, <1>2 DEF MailInv, NotToSelf, HandedOut, Messages
<1>6. HandedOut'
  BY <1>1, <1>2, LoungeAssumption DEF MailInv, MailType, HandedOut, DeliveryStates
<1>7. AtLeastOnce'
  <2> SUFFICES ASSUME NEW n \in 1 .. Len(messages), NEW b \in Agents, delivery'[n][b] # None, n \notin received[b]
               PROVE  delivery'[n][b] \in {"pending", "delivered"}
    BY <1>1, <1>3 DEF AtLeastOnce, RecipientsOf, Claimable
  <2>1. delivery'[n][b] = delivery[n][b]
    BY <1>2
  <2> QED BY <1>1, <2>1 DEF MailInv, AtLeastOnce, RecipientsOf, Claimable
<1>8. DeliveredInOrder'
  BY <1>1, <1>2 DEF MailInv, DeliveredInOrder
<1>9. OneMessagePerKey'
  BY DEF MailInv, OneMessagePerKey
<1> QED BY <1>4, <1>5, <1>6, <1>7, <1>8, <1>9 DEF MailInv

LEMMA AckStep == ASSUME IInv, NEW s \in Sessions, Ack(s) PROVE IInv'
<1> DEFINE a == owner[s]
           behind == {n \in asked[s].ids : Rank(delivery[n][a]) < Rank(asked[s].state)}
<1>1. /\ Due(s, "ack") /\ UNCHANGED <<sessionVars, messages, documentVars, received>>
      /\ delivery' = Mark(a, behind, asked[s].state)
  BY DEF Ack
<1>2. a \in Agents /\ asked[s].state \in {"seen", "acted"} /\ asked[s].ids \subseteq received[a]
  BY <1>1, AckRequest DEF IInv
<1>3. behind \subseteq received[a]
  BY <1>2
<1>4. MailInv'
  <2> HIDE DEF behind
  <2> QED BY <1>1, <1>2, <1>3, AcknowledgedMail DEF IInv
<1>5. RequestInv'
  BY <1>1, RequestsKept, DueIsDone DEF IInv, sessionVars
<1> QED BY <1>1, <1>4, <1>5, SessionsKept, DocumentsKept DEF IInv

-------------------------------------------------------------------------------
(* Work notes and the pinned notice *)

\* A mutation that follows the current revision is applied.
LEMMA AppliedDocument ==
    ASSUME DocumentInv, NEW d \in Documents, NEW x \in Mutations, x.expected = Len(log[d]),
           log' = [log EXCEPT ![d] = Append(@, x)],
           receipts' = [receipts EXCEPT ![d] = Kept(d, Len(log[d]) + 1)]
    PROVE  DocumentInv'
<1> DEFINE revision == Len(log[d]) + 1
<1>1. log[d] \in Seq(Mutations) /\ Len(log[d]) \in Nat /\ DOMAIN log[d] = 1 .. Len(log[d])
  BY LenProperties DEF DocumentInv, DocumentType
<1>2. /\ log'[d] \in Seq(Mutations) /\ Len(log'[d]) = revision /\ log'[d][revision] = x
      /\ \A i \in 1 .. Len(log[d]) : log'[d][i] = log[d][i]
      /\ \A e \in Documents \ {d} : log'[e] = log[e]
  BY <1>1, AppendProperties DEF DocumentInv, DocumentType
<1>3. DOMAIN log'[d] = 1 .. revision
  BY <1>2, LenProperties
<1>4. receipts[d] \subseteq 1 .. Len(log[d])
  BY <1>1 DEF DocumentInv, DocumentType
<1>5. /\ \A e \in Documents \ {d} : receipts'[e] = receipts[e]
      /\ \A i \in 1 .. revision :
            /\ i \in receipts[d] \cup {revision}
            /\ d # Board /\ revision > MaxReceipts => i > revision - MaxReceipts
            => i \in receipts'[d]
      /\ receipts'[d] \subseteq 1 .. revision
  BY <1>1, <1>4 DEF Kept, DocumentInv, DocumentType
<1>6. DocumentType'
  <2>1. log' \in [Documents -> Seq(Mutations)]
    BY <1>2 DEF DocumentInv, DocumentType
  <2>2. receipts' \in [Documents -> SUBSET Nat]
    BY <1>1, <1>5 DEF DocumentInv, DocumentType
  <2>3. ASSUME NEW e \in Documents PROVE receipts'[e] \subseteq DOMAIN log'[e]
    BY <1>2, <1>3, <1>5 DEF DocumentInv, DocumentType
  <2> QED BY <2>1, <2>2, <2>3 DEF DocumentType
<1>7. Stamped'
  <2> SUFFICES ASSUME NEW e \in Documents, NEW i \in DOMAIN log'[e] PROVE log'[e][i].expected + 1 = i
    BY DEF Stamped
  <2>1. CASE e = d /\ i = revision
    BY <1>2, <2>1
  <2>2. CASE e = d /\ i # revision
    BY <1>1, <1>2, <1>3, <2>2 DEF DocumentInv, Stamped
  <2>3. CASE e # d
    BY <1>2, <2>3 DEF DocumentInv, Stamped
  <2> QED BY <2>1, <2>2, <2>3
<1>8. RetryIsRecognized'
  <2> SUFFICES ASSUME NEW e \in Documents, NEW i \in DOMAIN log'[e], e = Board \/ i + MaxReceipts > Len(log'[e])
               PROVE  i \in receipts'[e]
    BY DEF RetryIsRecognized
  <2>1. CASE e = d
    <3>1. i \in 1 .. revision /\ (d = Board \/ i + MaxReceipts > revision)
      BY <1>2, <1>3, <2>1
    <3>2. i # revision => i \in receipts[d]
      BY <1>1, <3>1, LoungeAssumption DEF DocumentInv, RetryIsRecognized
    <3>3. d # Board /\ revision > MaxReceipts => i > revision - MaxReceipts
      BY <1>1, <3>1, LoungeAssumption
    <3> QED BY <1>5, <2>1, <3>1, <3>2, <3>3
  <2>2. CASE e # d
    BY <1>2, <1>5, <2>2 DEF DocumentInv, RetryIsRecognized
  <2> QED BY <2>1, <2>2
<1> QED BY <1>6, <1>7, <1>8 DEF DocumentInv

LEMMA SetDocumentStep ==
    ASSUME IInv, NEW s \in Sessions, SetDocument(s, "note") \/ SetDocument(s, "pin")
    PROVE  IInv'
<1> DEFINE a == owner[s]
           d == DocumentOf(s)
           r == asked[s]
           x == [actor |-> a, key |-> r.key, expected |-> r.expected, body |-> r.body]
<1>1. (Due(s, "note") \/ Due(s, "pin")) /\ UNCHANGED <<sessionVars, mailVars, received>>
  BY DEF SetDocument
<1>2. d \in Documents /\ x \in Mutations
  BY <1>1, DocumentRequest DEF IInv, Mutations
<1>3. DocumentInv'
  <2>1. CASE UNCHANGED documentVars
    BY <2>1, DocumentsKept DEF IInv
  <2>2. CASE /\ Current(d, r.expected)
             /\ log' = [log EXCEPT ![d] = Append(@, x)]
             /\ receipts' = [receipts EXCEPT ![d] = Kept(d, Len(log[d]) + 1)]
    BY <1>2, <2>2, AppliedDocument DEF IInv, Current
  <2> QED BY <2>1, <2>2 DEF SetDocument
<1>4. RequestInv'
  BY <1>1, RequestsKept, DueIsDone DEF IInv, sessionVars
<1> QED BY <1>1, <1>3, <1>4, SessionsKept, MailKept DEF IInv

-------------------------------------------------------------------------------
(* The theorems *)

LEMMA InitInv == Init => IInv
<1> SUFFICES ASSUME Init PROVE IInv
  OBVIOUS
<1>1. SessionInv
  BY DEF Init, SessionInv, Presence, OneOpenSession, ClosedStaysOffline
<1>2. MailInv
  BY DEF Init, MailInv, MailType, NotToSelf, HandedOut, AtLeastOnce, DeliveredInOrder, OneMessagePerKey
<1>3. DocumentInv
  BY DEF Init, DocumentInv, DocumentType, Stamped, RetryIsRecognized
<1>4. RequestInv
  BY DEF Init, RequestInv
<1> QED BY <1>1, <1>2, <1>3, <1>4 DEF IInv

LEMMA NextInv == IInv /\ [Next]_vars => IInv'
<1> SUFFICES ASSUME IInv, [Next]_vars PROVE IInv'
  OBVIOUS
<1>1. CASE UNCHANGED vars
  <2>1. RequestInv'
    BY <1>1, RequestsKept DEF IInv, vars, sessionVars
  <2> QED BY <1>1, <2>1, SessionsKept, MailKept, DocumentsKept DEF IInv, vars
<1>2. CASE Next
  <2> PICK s \in Sessions :
        \/ \E a \in Agents : Join(s, a)
        \/ CloseSession(s) \/ Ask(s) \/ Busy(s) \/ Heartbeat(s)
        \/ Send(s) \/ Claim(s) \/ Ack(s)
        \/ SetWorkNote(s) \/ Pin(s)
    BY <1>2 DEF Next
  <2> QED BY JoinStep, CloseSessionStep, AskStep, BusyStep, HeartbeatStep, SendStep, ClaimStep, AckStep,
             SetDocumentStep DEF SetWorkNote, Pin
<1> QED BY <1>1, <1>2

LEMMA Invariance == Spec => []IInv
  BY InitInv, NextInv, PTL DEF Spec

\* The tables and requests have their types, and nobody is a recipient of its own.
THEOREM TypeCorrect == Spec => []TypeOK
<1>1. IInv => TypeOK
  BY DEF IInv, SessionInv, MailInv, MailType, NotToSelf, DocumentInv, DocumentType, RequestInv, TypeOK, Deliveries
<1> QED BY <1>1, Invariance, PTL

\* Whatever connections race to join as one agent, one session of it is open.
THEOREM OneSessionIsOpen == Spec => []OneOpenSession
<1>1. IInv => OneOpenSession
  BY DEF IInv, SessionInv
<1> QED BY <1>1, Invariance, PTL

\* A heartbeat that another process's join has overtaken revives no session.
THEOREM ClosedIsOffline == Spec => []ClosedStaysOffline
<1>1. IInv => ClosedStaysOffline
  BY DEF IInv, SessionInv
<1> QED BY <1>1, Invariance, PTL

\* What no answer has brought to its recipient can be claimed.
THEOREM DeliveryIsAtLeastOnce == Spec => []AtLeastOnce
<1>1. IInv => AtLeastOnce
  BY DEF IInv, MailInv
<1> QED BY <1>1, Invariance, PTL

\* No claim, of any size, hands out a message before an earlier one.
THEOREM DeliveryIsInOrder == Spec => []DeliveredInOrder
<1>1. IInv => DeliveredInOrder
  BY DEF IInv, MailInv
<1> QED BY <1>1, Invariance, PTL

\* A retried send adds no message, whoever has joined since.
THEOREM KeysAreNotReused == Spec => []OneMessagePerKey
<1>1. IInv => OneMessagePerKey
  BY DEF IInv, MailInv
<1> QED BY <1>1, Invariance, PTL

\* No mutation is applied twice, with its receipt or without.
THEOREM MutationsAreAppliedOnce == Spec => []AppliedOnce
<1>1. IInv => AppliedOnce
  <2> SUFFICES ASSUME IInv, NEW d \in Documents, NEW i \in DOMAIN log[d], NEW j \in DOMAIN log[d], log[d][i] = log[d][j]
               PROVE  i = j
    BY DEF AppliedOnce
  <2>1. log[d][i].expected + 1 = i /\ log[d][j].expected + 1 = j
    BY DEF IInv, DocumentInv, Stamped
  <2> QED BY <2>1
<1> QED BY <1>1, Invariance, PTL

\* The newest MaxReceipts mutations of a note, and all of the notice, are known.
THEOREM RetriesAreRecognized == Spec => []RetryIsRecognized
<1>1. IInv => RetryIsRecognized
  BY DEF IInv, DocumentInv
<1> QED BY <1>1, Invariance, PTL

\* The states of a delivery are in order.
LEMMA RankType == \A state \in DeliveryStates : Rank(state) \in Nat
  BY DEF DeliveryStates, Rank

\* No step of anybody takes a delivery back.
THEOREM StatesAreMonotonic == Spec => NeverTakenBack
<1>1. ASSUME IInv, [Next]_vars
      PROVE  \A n \in DOMAIN delivery : \A a \in RecipientsOf(n) : Rank(delivery'[n][a]) >= Rank(delivery[n][a])
  <2>0. /\ Len(messages) \in Nat /\ DOMAIN delivery = 1 .. Len(messages) /\ delivery \in Seq(Deliveries)
        /\ Len(delivery) = Len(messages)
        /\ \A n \in 1 .. Len(messages) : delivery[n] \in Deliveries
    BY <1>1, MessageNumbers DEF IInv, MailInv, MailType
  <2> SUFFICES ASSUME NEW n \in 1 .. Len(messages), NEW b \in Agents, delivery[n][b] # None
               PROVE  Rank(delivery'[n][b]) >= Rank(delivery[n][b])
    BY <2>0 DEF RecipientsOf
  <2>1. delivery[n][b] \in DeliveryStates
    BY <2>0 DEF Deliveries
  <2>2. CASE delivery'[n][b] = delivery[n][b]
    BY <2>1, <2>2 DEF Rank, DeliveryStates
  <2>3. ASSUME NEW s \in Sessions, Send(s) PROVE delivery'[n][b] = delivery[n][b]
    <3>1. \/ delivery' = delivery
          \/ \E d : d \in Deliveries /\ delivery' = Append(delivery, d)
      <4>1. Recipients(owner[s], asked[s].to) \subseteq Agents
        BY <1>1, <2>3, SendRequest DEF IInv, Send
      <4>2. [c \in Agents |-> IF c \in Recipients(owner[s], asked[s].to) THEN "pending" ELSE None] \in Deliveries
        BY DEF Deliveries, DeliveryStates
      <4> QED BY <2>3, <4>2 DEF Send, mailVars
    <3> QED BY <2>0, <3>1, AppendProperties
  <2>4. ASSUME NEW s \in Sessions, Claim(s) PROVE Rank(delivery'[n][b]) >= Rank(delivery[n][b])
    <3> DEFINE claimed == Oldest(Claimable(owner[s]), asked[s].limit)
    <3>1. owner[s] \in Agents /\ delivery' = Mark(owner[s], claimed, "delivered")
      BY <1>1, <2>4, ClaimRequest DEF IInv, Claim
    <3>2. delivery'[n][b] = IF n \in claimed /\ b = owner[s] THEN "delivered" ELSE delivery[n][b]
      BY <1>1, <3>1, MarkedDeliveries DEF IInv, MailInv, DeliveryStates
    <3>3. CASE n \in claimed /\ b = owner[s]
      <4>1. delivery[n][b] \in {"pending", "delivered"}
        BY <3>3 DEF Oldest, Claimable
      <4> QED BY <3>2, <3>3, <4>1 DEF Rank
    <3> QED BY <2>2, <3>2, <3>3
  <2>5. ASSUME NEW s \in Sessions, Ack(s) PROVE Rank(delivery'[n][b]) >= Rank(delivery[n][b])
    <3> DEFINE behind == {k \in asked[s].ids : Rank(delivery[k][owner[s]]) < Rank(asked[s].state)}
    <3>1. /\ owner[s] \in Agents /\ asked[s].state \in {"seen", "acted"}
          /\ delivery' = Mark(owner[s], behind, asked[s].state)
      BY <1>1, <2>5, AckRequest DEF IInv, Ack
    <3>2. delivery'[n][b] = IF n \in behind /\ b = owner[s] THEN asked[s].state ELSE delivery[n][b]
      BY <1>1, <3>1, MarkedDeliveries DEF IInv, MailInv, DeliveryStates
    <3>3. CASE n \in behind /\ b = owner[s]
      <4>1. Rank(delivery[n][b]) < Rank(asked[s].state) /\ delivery'[n][b] = asked[s].state
        BY <3>2, <3>3
      <4>2. Rank(delivery[n][b]) \in Nat /\ Rank(asked[s].state) \in Nat
        BY <2>1, <3>1, RankType DEF DeliveryStates
      <4> QED BY <4>1, <4>2
    <3> QED BY <2>2, <3>2, <3>3
  <2>6. CASE UNCHANGED vars
    BY <2>2, <2>6 DEF vars, mailVars
  <2>7. CASE Next
    <3>1. \/ delivery' = delivery
          \/ \E s \in Sessions : Send(s) \/ Claim(s) \/ Ack(s)
      BY <2>7 DEF Next, Join, CloseSession, Ask, Busy, Heartbeat, SetWorkNote, Pin, SetDocument, mailVars
    <3> QED BY <2>2, <2>3, <2>4, <2>5, <3>1
  <2> QED BY <1>1, <2>6, <2>7
<1>2. IInv /\ [Next]_vars =>
        [\A n \in DOMAIN delivery : \A a \in RecipientsOf(n) : Rank(delivery'[n][a]) >= Rank(delivery[n][a])]_vars
  BY <1>1
<1> QED BY <1>2, Invariance, PTL DEF NeverTakenBack, Spec

===============================================================================
