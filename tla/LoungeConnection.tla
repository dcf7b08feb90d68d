--------------------------- MODULE LoungeConnection ---------------------------
(***************************************************************************)
(* One MCP connection to the Agent Lounge (lounge-service.ts), the client  *)
(* of its store worker (lounge-store-client.ts) and that worker's thread   *)
(* (lounge-store-worker.ts).  The tools of a connection may be called      *)
(* concurrently: between two requests of one call others run, and all      *)
(* share joined, lastNoticeRevision, waiting and the client's closed.      *)
(*                                                                         *)
(* The worker carries out requests in the order they were posted.  The     *)
(* store is what module LoungeStore specifies, with requests as one step;  *)
(* here it has the sessions of this connection, the notice's revision and  *)
(* whether a message is waiting.  Other connections send, pin and take     *)
(* over a session.  Leases, bodies and work notes are left out.            *)
(***************************************************************************)
EXTENDS Naturals, Sequences, FiniteSets

CONSTANTS
    Calls,         \* tool calls that may be in flight at once
    Agents,        \* agent ids that a call may join as
    MaxSessions,   \* bound: sessions opened
    MaxRevisions,  \* bound: revisions of the notice
    MaxPolls,      \* bound: polls of one wait before its deadline
    Failed,        \* the reply of a request that is rejected
    None

Revisions == 0 .. MaxRevisions
Ids == 1 .. MaxSessions

VARIABLES
    calls,       \* what each call is at: the request it awaits, or what it does next
    queue,       \* calls whose request is posted to the worker, in order
    joined,      \* the session id of LoungeJoinResult
    lastNotice,  \* lastNoticeRevision
    waiting,
    closed,      \* of the store client
    sessions,    \* rows of sessions opened by this connection
    notice,      \* the revision of the pinned notice
    mail,        \* there is a delivery to claim
    told         \* of the properties: revisions that an answer has brought to the agent

store == <<sessions, notice, mail>>
service == <<joined, lastNotice, waiting>>
vars == <<calls, queue, service, closed, store, told>>

Free == [at |-> "free", agent |-> None, session |-> None, reply |-> None,
         polls |-> 0, known |-> 0, mail |-> FALSE, cancelled |-> FALSE]

Init ==
    /\ calls = [c \in Calls |-> Free] /\ queue = <<>>
    /\ joined = None /\ lastNotice = None /\ waiting = FALSE /\ closed = FALSE
    /\ sessions = <<>> /\ notice = 0 /\ mail = FALSE /\ told = {}

WaitSteps == {"listen", "claim", "look", "deliver", "expire", "pause", "give up"}

\* request: posted to the worker, or refused by a closed client.
Request(c, call) ==
    IF closed
    THEN calls' = [calls EXCEPT ![c] = [call EXCEPT !.reply = Failed]] /\ UNCHANGED queue
    ELSE calls' = [calls EXCEPT ![c] = [call EXCEPT !.reply = None]] /\ queue' = Append(queue, c)

Return(c) == calls' = [calls EXCEPT ![c] = Free] /\ UNCHANGED queue

\* The SDK drops the answer of a cancelled call.
Answer(c, revision) ==
    /\ Return(c)
    /\ told' = IF calls[c].cancelled THEN told ELSE told \cup {revision}

Replied(c, at) == calls[c].at = at /\ calls[c].reply \notin {None, Failed}

-----------------------------------------------------------------------------
(* The worker thread: handleRequest of the request at the head. *)

Open(s) == s # None /\ sessions[s].open
Reply(c, value) == calls' = [calls EXCEPT ![c].reply = value]
SetState(s, state) == sessions' = [sessions EXCEPT ![s].state = state]

Presence == [listen |-> "listening", deliver |-> "processing",
             expire |-> "connected"]

Execute ==
    /\ queue # <<>>
    /\ queue' = Tail(queue)
    /\ LET c == Head(queue)
           s == calls[c].session
       IN CASE calls[c].at = "join" ->
                 /\ Len(sessions) < MaxSessions
                 /\ sessions' = Append([i \in DOMAIN sessions |->
                        IF sessions[i].agent = calls[c].agent
                        THEN [sessions[i] EXCEPT !.open = FALSE, !.state = "offline"] ELSE sessions[i]],
                        [agent |-> calls[c].agent, open |-> TRUE, state |-> "connected"])
                 /\ Reply(c, Len(sessions) + 1)
                 /\ UNCHANGED <<notice, mail>>
            [] calls[c].at \in {"listen", "deliver", "expire", "give up"} ->
                 /\ IF Open(s)
                    THEN /\ SetState(s, IF calls[c].at = "give up" THEN "connected" ELSE Presence[calls[c].at])
                         /\ Reply(c, 0)
                    ELSE Reply(c, Failed) /\ UNCHANGED sessions
                 /\ UNCHANGED <<notice, mail>>
            [] calls[c].at = "claim" ->
                 /\ calls' = [calls EXCEPT ![c].reply = IF Open(s) THEN 0 ELSE Failed, ![c].mail = mail]
                 /\ UNCHANGED store
            [] calls[c].at \in {"join notice", "look", "status"} ->
                 Reply(c, IF Open(s) THEN notice ELSE Failed) /\ UNCHANGED store
            [] calls[c].at = "pin" ->
                 /\ IF Open(s) /\ notice < MaxRevisions
                    THEN notice' = notice + 1 /\ Reply(c, notice + 1)
                    ELSE Reply(c, Failed) /\ UNCHANGED notice
                 /\ UNCHANGED <<sessions, mail>>
            [] calls[c].at = "close session" ->
                 /\ sessions' = [sessions EXCEPT ![s].open = FALSE, ![s].state = "offline"]
                 /\ Reply(c, 0) /\ UNCHANGED <<notice, mail>>
            [] OTHER -> Reply(c, 0) /\ UNCHANGED store
    /\ UNCHANGED <<service, closed, told>>

\* A request's timer, or the end of the worker's thread: the client is closed for good and
\* everything that is pending fails.
Pending == {c \in Calls : calls[c].reply = None /\ calls[c].at \notin {"free", "pause"}}

Disconnect ==
    /\ Pending # {} /\ ~closed
    /\ closed' = TRUE /\ queue' = <<>>
    /\ calls' = [c \in Calls |-> IF c \in Pending THEN [calls[c] EXCEPT !.reply = Failed] ELSE calls[c]]
    /\ UNCHANGED <<service, store, told>>

-----------------------------------------------------------------------------
(* join, status, pin and close. *)

Join(c, a) ==
    /\ calls[c].at = "free"
    /\ IF joined = None
       THEN Request(c, [Free EXCEPT !.at = "join", !.agent = a])
       ELSE sessions[joined].agent = a /\ Request(c, [Free EXCEPT !.at = "join notice", !.session = joined])
    /\ UNCHANGED <<service, closed, store, told>>

Joined(c) ==
    /\ Replied(c, "join")
    /\ joined' = calls[c].reply
    /\ Request(c, [calls[c] EXCEPT !.at = "join notice", !.session = calls[c].reply])
    /\ UNCHANGED <<lastNotice, waiting, closed, store, told>>

\* status and pin are let in by requireJoined.
Ask(c, at) ==
    /\ calls[c].at = "free" /\ joined # None
    /\ Request(c, [Free EXCEPT !.at = at, !.session = joined])
    /\ UNCHANGED <<service, closed, store, told>>

Status(c) == Ask(c, "status")
Pin(c) == Ask(c, "pin")

\* The answers of join, status and pin carry the notice.
NoticeKnown(c) ==
    /\ \E at \in {"join notice", "status", "pin"} : Replied(c, at)
    /\ lastNotice' = calls[c].reply
    /\ Answer(c, calls[c].reply)
    /\ UNCHANGED <<joined, waiting, closed, store>>

CallFails(c) ==
    /\ calls[c].reply = Failed /\ calls[c].at \in {"join", "join notice", "status", "pin"}
    /\ Return(c)
    /\ UNCHANGED <<service, closed, store, told>>

\* close of the service; the session's own close may fail.
Close(c) ==
    /\ calls[c].at = "free" /\ ~closed
    /\ Request(c, [Free EXCEPT !.at = IF joined = None THEN "close" ELSE "close session", !.session = joined])
    /\ UNCHANGED <<service, closed, store, told>>

CloseStore(c) ==
    /\ calls[c].at = "close session" /\ calls[c].reply # None
    /\ joined' = None /\ lastNotice' = None
    /\ Request(c, [calls[c] EXCEPT !.at = "close"])
    /\ UNCHANGED <<waiting, closed, store, told>>

Closed(c) ==
    /\ calls[c].at = "close" /\ calls[c].reply # None
    /\ closed' = TRUE /\ queue' = <<>>
    /\ calls' = [d \in Calls |-> IF d = c THEN Free
                                 ELSE IF d \in Pending THEN [calls[d] EXCEPT !.reply = Failed] ELSE calls[d]]
    /\ UNCHANGED <<service, store, told>>

-----------------------------------------------------------------------------
(* wait *)

StartWait(c) ==
    /\ calls[c].at = "free" /\ joined # None /\ ~waiting
    /\ waiting' = TRUE
    /\ Request(c, [Free EXCEPT !.at = "listen", !.session = joined])
    /\ UNCHANGED <<joined, lastNotice, closed, store, told>>

Listening(c) ==
    /\ Replied(c, "listen")
    /\ Request(c, [calls[c] EXCEPT !.at = "claim"])
    /\ UNCHANGED <<service, closed, store, told>>

Claimed(c) ==
    /\ Replied(c, "claim")
    /\ Request(c, [calls[c] EXCEPT !.at = "look"])
    /\ UNCHANGED <<service, closed, store, told>>

NeverExpires(c) == FALSE
Expired(c) == calls[c].polls = MaxPolls

NoticeChanged(c) == lastNotice # None /\ calls[c].reply # lastNotice

\* The revision is recorded as known before the last heartbeat and the answer.
Looked(c) ==
    /\ Replied(c, "look")
    /\ IF calls[c].mail \/ NoticeChanged(c)
       THEN /\ lastNotice' = calls[c].reply
            /\ Request(c, [calls[c] EXCEPT !.at = "deliver", !.known = calls[c].reply])
       ELSE /\ UNCHANGED lastNotice
            /\ IF Expired(c) THEN Request(c, [calls[c] EXCEPT !.at = "expire", !.known = calls[c].reply])
               ELSE calls' = [calls EXCEPT ![c].at = "pause", ![c].reply = None] /\ UNCHANGED queue
    /\ UNCHANGED <<joined, waiting, closed, store, told>>

\* abortableDelay ends, or the call's signal has been aborted.
Paused(c) ==
    /\ calls[c].at = "pause" /\ ~calls[c].cancelled
    /\ Request(c, [calls[c] EXCEPT !.at = "claim", !.polls = IF @ < MaxPolls THEN @ + 1 ELSE @])
    /\ UNCHANGED <<service, closed, store, told>>

Aborted(c) == calls[c].at = "pause" /\ calls[c].cancelled
WaitFailed(c) == calls[c].at \in WaitSteps \ {"give up"} /\ calls[c].reply = Failed

GiveUpSilently(c) ==
    /\ Aborted(c) \/ WaitFailed(c)
    /\ waiting' = FALSE
    /\ Return(c)
    /\ UNCHANGED <<joined, lastNotice, closed, store, told>>

GiveUp(c) ==
    /\ Aborted(c) \/ WaitFailed(c)
    /\ Request(c, [calls[c] EXCEPT !.at = "give up"])
    /\ UNCHANGED <<service, closed, store, told>>

GaveUp(c) ==
    /\ calls[c].at = "give up" /\ calls[c].reply # None
    /\ waiting' = FALSE
    /\ Return(c)
    /\ UNCHANGED <<joined, lastNotice, closed, store, told>>

\* Both answers carry the revision that was seen.
Delivered(c) ==
    /\ Replied(c, "deliver") \/ Replied(c, "expire")
    /\ waiting' = FALSE
    /\ Answer(c, calls[c].known)
    /\ UNCHANGED <<joined, lastNotice, closed, store>>

\* The host cancels the calls that last.
Cancel(c) ==
    /\ calls[c].at \in WaitSteps /\ ~calls[c].cancelled
    /\ calls' = [calls EXCEPT ![c].cancelled = TRUE]
    /\ UNCHANGED <<queue, service, closed, store, told>>

-----------------------------------------------------------------------------
(* Other connections. *)

OtherPins ==
    /\ notice < MaxRevisions
    /\ notice' = notice + 1
    /\ UNCHANGED <<calls, queue, service, closed, sessions, mail, told>>

OtherSends ==
    /\ mail' = ~mail
    /\ UNCHANGED <<calls, queue, service, closed, sessions, notice, told>>

Superseded(s) ==
    /\ Open(s)
    /\ sessions' = [sessions EXCEPT ![s].open = FALSE, ![s].state = "offline"]
    /\ UNCHANGED <<calls, queue, service, closed, notice, mail, told>>

Continue(c) ==
    \/ Joined(c) \/ NoticeKnown(c) \/ CallFails(c) \/ CloseStore(c) \/ Closed(c)
    \/ Listening(c) \/ Claimed(c) \/ Looked(c) \/ Paused(c) \/ GiveUp(c) \/ GaveUp(c) \/ Delivered(c)

Next ==
    \/ Execute \/ Disconnect \/ OtherPins \/ OtherSends
    \/ \E s \in DOMAIN sessions : Superseded(s)
    \/ \E c \in Calls :
          \/ \E a \in Agents : Join(c, a)
          \/ Status(c) \/ Pin(c) \/ Close(c) \/ StartWait(c) \/ Cancel(c) \/ Continue(c)

Spec == Init /\ [][Next]_vars

\* Continuations run and timers fire; the worker's thread may hang, and nobody has to call.
FairSpec == Spec /\ WF_vars(Disconnect) /\ \A c \in Calls : WF_vars(Continue(c))

-----------------------------------------------------------------------------

TypeOK ==
    /\ calls \in [Calls -> [at : {"free", "join", "join notice", "status", "pin", "close session", "close"} \cup WaitSteps,
                            agent : Agents \cup {None}, session : Ids \cup {None},
                            reply : Revisions \cup Ids \cup {None, Failed}, polls : 0 .. MaxPolls, known : Revisions,
                            mail : BOOLEAN, cancelled : BOOLEAN]]
    /\ queue \in Seq(Calls) /\ Len(queue) <= Cardinality(Calls)
    /\ joined \in DOMAIN sessions \cup {None} /\ lastNotice \in Revisions \cup {None}
    /\ waiting \in BOOLEAN /\ closed \in BOOLEAN
    /\ sessions \in Seq([agent : Agents, open : BOOLEAN,
                         state : {"connected", "listening", "processing", "offline"}])
    /\ notice \in Revisions /\ mail \in BOOLEAN /\ told \subseteq Revisions

\* Two waits of one connection never claim side by side: the second is refused from the
\* first one's check until its last heartbeat, whatever is awaited in between.
OneWait == Cardinality({c \in Calls : calls[c].at \in WaitSteps}) <= 1

\* "Only a live lounge_wait is wakeable": no session of the connection is left listening
\* when its wait is over, however that ended, unless the store itself is gone.
WakeableOnlyWhileWaiting ==
    (\E s \in DOMAIN sessions : sessions[s].state = "listening") => waiting \/ closed

\* Every call comes to an end, also when the store worker hangs in the middle of any of them.
Called(c) == calls[c].at # "free"
CallsEnd == \A c \in Calls : Called(c) ~> ~Called(c)

\* A revision that the connection holds for known has reached the agent, so the next wait
\* need not wake it (README.md:305).  The code does not keep it.
KnownRevisionWasTold ==
    (\A c \in Calls : calls[c].at = "free") /\ lastNotice # None => lastNotice \in told

\* A connection is bound to one identity (lounge-service.test.ts:77).  The code does not
\* keep it.
OneIdentity ==
    \A s, t \in DOMAIN sessions : Open(s) /\ Open(t) => s = t

===============================================================================
