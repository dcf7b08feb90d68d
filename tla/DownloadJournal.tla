--------------------------- MODULE DownloadJournal ---------------------------
(* Captured downloads (transfers/download-manager.ts): records numbered in   *)
(* memory, copied into a manifest by writes that follow one another, and     *)
(* taken up again by the next worker. The agent waits for downloads "after"  *)
(* the number it was last given.                                             *)
EXTENDS Naturals, FiniteSets, Sequences, FiniteSetsExt
CONSTANTS None, Downloads, Retained, MaxWorkers,
          MayFail \* a write of the manifest may fail
VARIABLES sequence, \* the number of the last download
          obj,      \* of each download, None or its number and state
          kept,     \* the downloads in the records
          capture,  \* of each download: "none", "recorded", "save", "finished" or "ended"
          chain,    \* the captures whose writes wait for one another
          writing,  \* None or what the write under way took down
          broken,   \* a write was rejected, and with it all that follow
          file,     \* the manifest
          up, workers,
          cursor,   \* None or the number the agent was last given
          since     \* the downloads captured since then
vars == <<sequence, obj, kept, capture, chain, writing, broken, file, up, workers, cursor, since>>
agent == <<cursor, since>>

Init ==
    /\ sequence = 0 /\ obj = [d \in Downloads |-> None] /\ kept = {}
    /\ capture = [d \in Downloads |-> "none"] /\ chain = <<>> /\ writing = None /\ broken = FALSE
    /\ file = [sequence |-> 0, downloads |-> <<>>] /\ up = TRUE /\ workers = 1
    /\ cursor = None /\ since = {}

-----------------------------------------------------------------------------
\* trimRecords: the lowest numbers go, whatever became of the downloads.
Trimmed(ds, o) == {d \in ds : Cardinality({e \in ds : o[e].seq > o[d].seq}) < Retained}

\* persist: after the writes before it, and rejected when one of them was.
Persist(d, pc) ==
    IF broken THEN capture' = [capture EXCEPT ![d] = "ended"] /\ UNCHANGED chain
    ELSE capture' = [capture EXCEPT ![d] = pc] /\ chain' = Append(chain, d)

NextNumber == sequence + 1
Capture ==
    /\ up
    /\ \E d \in Downloads :
        /\ capture[d] = "none" /\ sequence' = NextNumber
        /\ obj' = [obj EXCEPT ![d] = [seq |-> NextNumber, state |-> "in_progress"]]
        /\ kept' = Trimmed(kept \cup {d}, obj')
        /\ since' = since \cup {d}
        /\ Persist(d, "recorded")
    /\ UNCHANGED <<writing, broken, file, up, workers, cursor>>

\* saveAs, and what the browser says of it.
Save ==
    /\ \E d \in Downloads, state \in {"completed", "failed"} :
        /\ capture[d] = "save" /\ obj' = [obj EXCEPT ![d].state = state] /\ Persist(d, "finished")
    /\ UNCHANGED <<sequence, kept, writing, broken, file, up, workers, agent>>

\* The number and the records are taken when the write starts, their states
\* when it is spelled out.
Take == writing' = [sequence |-> sequence, ids |-> kept]
WriteStarts ==
    /\ writing = None /\ chain # <<>> /\ Take
    /\ UNCHANGED <<sequence, obj, kept, capture, chain, broken, file, up, workers, agent>>
Landed(w) == [sequence |-> w.sequence, downloads |-> [d \in w.ids |-> obj[d]]]
WriteEnds ==
    /\ writing # None /\ writing' = None
    /\ \/ /\ file' = Landed(writing) /\ chain' = Tail(chain) /\ UNCHANGED broken
          /\ capture' = [capture EXCEPT ![Head(chain)] = IF @ = "recorded" THEN "save" ELSE "ended"]
       \/ /\ MayFail /\ broken' = TRUE /\ chain' = <<>> /\ UNCHANGED file
          /\ capture' = [d \in Downloads |-> IF \E i \in DOMAIN chain : chain[i] = d THEN "ended" ELSE capture[d]]
    /\ UNCHANGED <<sequence, obj, kept, up, workers, agent>>

-----------------------------------------------------------------------------
WorkerLost ==
    /\ up /\ workers < MaxWorkers /\ workers' = workers + 1 /\ up' = FALSE
    /\ capture' = [d \in Downloads |-> IF capture[d] = "none" THEN "none" ELSE "ended"]
    /\ chain' = <<>> /\ writing' = None /\ broken' = FALSE
    /\ kept' = {} /\ obj' = [d \in Downloads |-> None] /\ sequence' = 0
    /\ UNCHANGED <<file, agent>>

\* restore: a capture that was under way is interrupted, and that is written.
Interrupted(r) == IF r.state = "in_progress" THEN [r EXCEPT !.state = "interrupted"] ELSE r
Restored == Max({file.sequence} \cup {file.downloads[d].seq : d \in DOMAIN file.downloads})
Restore ==
    /\ ~up /\ up' = TRUE
    /\ LET ds == DOMAIN file.downloads taken == [d \in ds |-> Interrupted(file.downloads[d])] IN
       /\ kept' = Trimmed(ds, taken) /\ obj' = [d \in Downloads |-> IF d \in ds THEN taken[d] ELSE None]
       /\ sequence' = Restored
       /\ file' = IF taken = file.downloads THEN file ELSE [sequence |-> sequence', downloads |-> [d \in kept' |-> taken[d]]]
    /\ UNCHANGED <<capture, chain, writing, broken, workers, agent>>

\* list, cursor
List ==
    /\ up /\ cursor' = sequence /\ since' = {}
    /\ UNCHANGED <<sequence, obj, kept, capture, chain, writing, broken, file, up, workers>>

Next == Capture \/ Save \/ WriteStarts \/ WriteEnds \/ WorkerLost \/ Restore \/ List
Spec == Init /\ [][Next]_vars

-----------------------------------------------------------------------------
\* Whoever waits for a write has a record that the manifest will hold.
TypeOK ==
    /\ kept \subseteq {d \in Downloads : obj[d] # None} /\ Cardinality(kept) <= Retained
    /\ \A i \in DOMAIN chain : capture[chain[i]] \in {"recorded", "finished"}
    /\ writing # None => chain # <<>>

\* No two downloads have the same number, and a newer one the higher, across
\* workers (captureDownload, restore).
NumberedOnce == \A d, e \in kept : d # e => obj[d].seq # obj[e].seq

\* What the manifest says of a download never goes back, and a download leaves
\* it only for newer ones (persist, trimRecords).
NeverBackwards ==
    /\ file'.sequence >= file.sequence
    /\ \A d \in DOMAIN file.downloads :
        IF d \in DOMAIN file'.downloads THEN file.downloads[d].state = "in_progress" \/ file'.downloads[d] = file.downloads[d]
        ELSE Cardinality({e \in DOMAIN file'.downloads : file'.downloads[e].seq > file.downloads[d].seq}) >= Retained

\* docs/failure-taxonomy.md:40, "classify interrupted or failed capture
\* truthfully": a download in progress is being captured.
InProgressIsCaptured == up => \A d \in kept : obj[d].state = "in_progress" => capture[d] \in {"recorded", "save"}

\* docs/failure-taxonomy.md:40, "wait/read by sequence without replay": a
\* download captured after the agent was given a number has a higher one.
SeenAfterCursor == cursor # None /\ up => \A d \in since \cap kept : obj[d].seq > cursor
=============================================================================
