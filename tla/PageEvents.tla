----------------------------- MODULE PageEvents -----------------------------
(* The journal of replaced and closed pages (lifecycle/page-events.ts). A    *)
(* page's events are looked into one after another, asking the page for the  *)
(* time origin of its document; what is found is numbered and appended in    *)
(* memory, and the journal written, each write after the one before it.      *)
EXTENDS Naturals, Sequences, FiniteSets, SequencesExt
CONSTANTS None, Pages, MaxDocuments, MaxWorkers,
          MayFail \* a page may leave the question for its origin unanswered
VARIABLES doc,      \* of each page, its document, 0 when closed
          next,     \* the next document, and the bound on navigations
          tails,    \* of each page, what it waits to have looked into
          origin,   \* of each page, None or the origin read last
          found,    \* of each page, None or what the step under way has read
          sequence, events, \* the journal in memory
          writes,   \* of the writes that wait, the pages whose step waits for them
          writing,  \* None or the number the write under way took down
          file, up, workers,
          owed,     \* the pages whose document was replaced since the journal last said so
          asked,    \* None or how many writes a list still waits for
          cursor, fresh \* the number the agent was last given, and the events recorded since
vars == <<doc, next, tails, origin, found, sequence, events, writes, writing, file, up, workers, owed, asked, cursor, fresh>>
world == <<doc, next>>
journal == <<sequence, events, writes, fresh>>
agent == <<asked, cursor>>

Init ==
    /\ doc = [p \in Pages |-> 1] /\ next = 2
    /\ tails = [p \in Pages |-> <<"observe">>] /\ origin = [p \in Pages |-> None] /\ found = [p \in Pages |-> None]
    /\ sequence = 0 /\ events = <<>> /\ writes = <<>> /\ writing = None
    /\ file = [sequence |-> 0, events |-> <<>>] /\ up = TRUE /\ workers = 1
    /\ owed = {} /\ asked = None /\ cursor = 0 /\ fresh = {}

-----------------------------------------------------------------------------
(* bind: the page is observed, and its navigations and end are noted.       *)

Navigates ==
    /\ up /\ \E p \in Pages :
        /\ doc[p] # 0
        /\ next <= MaxDocuments /\ next' = next + 1
        /\ \/ doc' = [doc EXCEPT ![p] = next] /\ owed' = IF origin[p] = None /\ found[p] = None THEN owed ELSE owed \cup {p}
           \/ UNCHANGED <<doc, owed>> \* within the document
        /\ tails' = [tails EXCEPT ![p] = Append(@, "navigated")]
    /\ UNCHANGED <<origin, found, journal, writing, file, up, workers, agent>>
Closes ==
    /\ up /\ \E p \in Pages :
        /\ doc[p] # 0 /\ doc' = [doc EXCEPT ![p] = 0] /\ tails' = [tails EXCEPT ![p] = Append(@, "closed")]
    /\ UNCHANGED <<next, origin, found, journal, writing, file, up, workers, owed, agent>>

-----------------------------------------------------------------------------
(* The steps of a page, one at a time: enqueue.                             *)

Doing(p, step) == up /\ tails[p] # <<>> /\ Head(tails[p]) = step
\* timeOrigin: 0 stands for none, of a closed page or one that did not answer.
ReadOrigin ==
    /\ \E p \in Pages :
        /\ Doing(p, "observe") \/ Doing(p, "navigated")
        /\ found[p] = None
        /\ \E o \in {doc[p]} \cup (IF MayFail THEN {0} ELSE {}) : found' = [found EXCEPT ![p] = o]
    /\ UNCHANGED <<world, tails, origin, journal, writing, file, up, workers, owed, agent>>

\* record: a number, an event, and a write for which the page's step waits.
Record(p, kind) ==
    /\ sequence' = sequence + 1 /\ events' = Append(events, sequence + 1)
    /\ writes' = Append(writes, p) /\ fresh' = fresh \cup {sequence + 1}
    /\ tails' = [tails EXCEPT ![p] = <<"wait">> \o Tail(@)]
    /\ owed' = IF kind = "document_replaced" THEN owed \ {p} ELSE owed
Observed ==
    /\ \E p \in Pages : Doing(p, "observe") /\ found[p] # None
        /\ origin' = [origin EXCEPT ![p] = found[p]] /\ found' = [found EXCEPT ![p] = None] /\ Record(p, "page_observed")
    /\ UNCHANGED <<world, writing, file, up, workers, agent>>

Same(before, after) == before # 0 /\ after # 0 /\ before = after
UnknownIsSame(before, after) == before = 0 \/ after = 0 \/ before = after
Unchanged(before, after) == Same(before, after)
Navigated ==
    /\ \E p \in Pages : Doing(p, "navigated") /\ found[p] # None
        /\ origin' = [origin EXCEPT ![p] = found[p]] /\ found' = [found EXCEPT ![p] = None]
        /\ IF Unchanged(origin[p], found[p]) THEN tails' = [tails EXCEPT ![p] = Tail(@)] /\ UNCHANGED <<journal, owed>>
           ELSE Record(p, "document_replaced")
    /\ UNCHANGED <<world, writing, file, up, workers, agent>>
Closed ==
    /\ \E p \in Pages : Doing(p, "closed") /\ Record(p, "page_closed")
    /\ UNCHANGED <<world, origin, found, writing, file, up, workers, agent>>

-----------------------------------------------------------------------------
\* The number is taken when the write starts, the events when it is spelled
\* out, after the directory is made: it then has those recorded in between.
WriteStarts ==
    /\ up /\ writing = None /\ writes # <<>> /\ writing' = sequence
    /\ UNCHANGED <<world, tails, origin, found, journal, file, up, workers, owed, agent>>
Landed == [sequence |-> writing, events |-> events]
Remaining == Tail(writes)
WriteEnds ==
    /\ up /\ writing # None /\ writing' = None
    /\ file' = Landed /\ writes' = Remaining
    /\ tails' = [tails EXCEPT ![Head(writes)] = Tail(@)]
    /\ asked' = IF asked \in {None, 0} THEN asked ELSE asked - 1
    /\ UNCHANGED <<world, origin, found, sequence, events, fresh, up, workers, owed, cursor>>

\* list: when the steps have settled, or a second is over, it waits for the
\* writes there are, and answers with the events there are then.
ListAsks ==
    /\ up /\ asked = None /\ asked' = Len(writes)
    /\ UNCHANGED <<world, tails, origin, found, journal, writing, file, up, workers, owed, cursor>>
ListAnswers ==
    /\ asked = 0 /\ asked' = None /\ cursor' = sequence /\ fresh' = {}
    /\ UNCHANGED <<world, tails, origin, found, sequence, events, writes, writing, file, up, workers, owed>>

WorkerLost ==
    /\ up /\ workers < MaxWorkers /\ workers' = workers + 1 /\ up' = FALSE
    /\ tails' = [p \in Pages |-> <<>>] /\ origin' = [p \in Pages |-> None] /\ found' = [p \in Pages |-> None]
    /\ sequence' = 0 /\ events' = <<>> /\ writes' = <<>> /\ writing' = None /\ owed' = {} /\ asked' = None
    /\ fresh' = fresh \cap ToSet(file.events)
    /\ UNCHANGED <<world, file, cursor>>
Restored == file.events
Restore ==
    /\ ~up /\ up' = TRUE /\ sequence' = file.sequence /\ events' = Restored
    /\ tails' = [p \in Pages |-> IF doc[p] = 0 THEN <<>> ELSE <<"observe">>]
    /\ UNCHANGED <<world, origin, found, writes, writing, file, workers, owed, agent, fresh>>

Next ==
    \/ Navigates \/ Closes \/ ReadOrigin \/ Observed \/ Navigated \/ Closed
    \/ WriteStarts \/ WriteEnds \/ ListAsks \/ ListAnswers \/ WorkerLost \/ Restore
Spec == Init /\ [][Next]_vars

-----------------------------------------------------------------------------
\* A step that waits for its write has one, and only one step of a page waits.
TypeOK ==
    /\ \A p \in Pages : Doing(p, "wait") <=> \E i \in DOMAIN writes : writes[i] = p
    /\ IsInjective(writes) /\ (writing # None => writes # <<>>)

\* When a page's steps are through, every replacement of a document that it
\* was observed with is in the journal (bind).
ReplacementRecorded == up => \A p \in Pages : tails[p] = <<>> => p \notin owed

\* When no write waits, the journal of this worker is the one the next would
\* restore, number and events (record, restore).
SettledIsWritten == up /\ writes = <<>> => file = [sequence |-> sequence, events |-> events]

\* docs/action-system-acceptance-2026-08-26.md:34, "Durable page events
\* separately identify document replacement": the agent that asks for the events
\* after the number it was given gets those recorded since.
SeenAfterCursor == \A n \in fresh : n > cursor
=============================================================================
