---------------------------- MODULE FileSelection ----------------------------
(* The file-selection command: input/files.ts, the helpers of               *)
(* observation/snapshot-inputs.ts that look at the file input, and the wait *)
(* for the site's processing (input/file-processing.ts). The page clears    *)
(* the input, shows progress controls and markers of this upload and of an  *)
(* earlier one, and navigates; the person selects other files; the file on  *)
(* disk is rewritten.                                                       *)
EXTENDS Naturals, FiniteSets
CONSTANTS None, Uploads, MaxVersion, Runs
VARIABLES page,     \* the document: its version, and the progress controls and markers it shows
          input,    \* the observed file input: its files, and the listener's record
          disk,     \* whether the file is still as it was examined
          snapshot, \* None or the document of the latest snapshot, whose references may be used
          used,     \* how many selections were dispatched with it
          risk,     \* whether the page is known to hold files nobody saved
          entered,  \* whether a selection reached the document
          late,     \* a selection given up that may still reach it
          op,       \* None or the command under way
          runs,     \* how many commands there were
          answer,   \* None or how the last command ended
          quiet     \* the completion signals that were absent at some moment since its baseline
vars == <<page, input, disk, snapshot, used, risk, entered, late, op, runs, answer, quiet>>

NoInput == [files |-> None, listening |-> FALSE, fired |-> FALSE, record |-> None]
Blank(v) == [version |-> v, bars |-> [u \in Uploads |-> None], marks |-> {}, error |-> FALSE]

\* visibleExpectationObserved: exactly one element has the role and the name.
Shown(p, signal) == CASE signal = "complete" -> Cardinality(p.marks) = 1
                      [] signal = "error" -> p.error
                      [] signal = "bar" -> \E u \in Uploads : p.bars[u] = "done"
Absent(p) == {s \in {"complete", "bar"} : ~Shown(p, s)}

Init ==
    /\ page \in [version : {0}, bars : [Uploads -> {None, "active", "done"}], marks : SUBSET Uploads, error : BOOLEAN]
    /\ "this" \in Uploads => page.bars["this"] = None /\ "this" \notin page.marks
    /\ input = NoInput /\ disk = "asked" /\ snapshot = None /\ used = 0 /\ risk = FALSE /\ entered = FALSE
    /\ late = FALSE /\ op = None /\ runs = 0 /\ answer = None /\ quiet = {}

-----------------------------------------------------------------------------
\* The page, the person and the disk.
Changes ==
    /\ \E u \in Uploads \ (IF entered THEN {} ELSE {"this"}) :
        \/ \E b \in {None, "active", "done"} : page' = [page EXCEPT !.bars[u] = b]
        \/ page' = [page EXCEPT !.marks = (@ \cup {u}) \ (@ \cap {u})]
        \/ page' = [page EXCEPT !.error = ~@]
    /\ UNCHANGED <<input, disk, snapshot, used, risk, entered, late, op, runs, answer>>

\* Another document: its signals are its own, the risk goes with the old one.
Replaces ==
    /\ page.version < MaxVersion
    /\ \E b \in [Uploads -> {None, "active", "done"}], m \in SUBSET Uploads :
        page' = [Blank(page.version + 1) EXCEPT !.bars = b, !.marks = m]
    /\ input' = NoInput /\ risk' = FALSE /\ entered' = FALSE /\ late' = FALSE
Navigates == Replaces /\ UNCHANGED <<disk, snapshot, used, op, runs, answer>>

\* The listener of armFileInputEventObservation keeps the files of an event.
Heard(files) == [input EXCEPT !.files = files, !.fired = input.listening \/ @,
                              !.record = IF input.listening /\ files # None THEN files ELSE @]
\* What becomes of the input and the file while nobody looks is left out.
Watched(steps) == op # None /\ op.at \in steps
Clears ==
    /\ Watched({"set", "retained", "event"}) /\ input' = [input EXCEPT !.files = None]
    /\ UNCHANGED <<page, disk, snapshot, used, risk, entered, late, op, runs, answer>>
PersonSelects ==
    /\ Watched({"dispatch", "set", "retained", "event"}) /\ input' = Heard("other")
    /\ UNCHANGED <<page, disk, snapshot, used, risk, entered, late, op, runs, answer>>
Rewrites ==
    /\ Watched({"input", "complete?", "error?", "bar?", "arm", "dispatch"}) /\ disk' = "changed"
    /\ UNCHANGED <<page, input, snapshot, used, risk, entered, late, op, runs, answer>>

\* The browser puts the file as it is now into the input.
Receives == input' = Heard(disk) /\ entered' = TRUE
LateSelection ==
    /\ late /\ late' = FALSE /\ Receives
    /\ UNCHANGED <<page, disk, snapshot, used, risk, op, runs, answer>>

-----------------------------------------------------------------------------
At(where) == op # None /\ op.at = where
Goes(where) == op' = [op EXCEPT !.at = where]
Alive == op.version = page.version
World == <<page, disk, runs>>
Ends(kind, told, evidence) ==
    /\ op' = None
    /\ answer' = [kind |-> kind, told |-> told, reached |-> op.reached, held |-> op.held, evidence |-> evidence,
                  bars |-> page.bars, marks |-> page.marks, quiet |-> quiet]
Refuses == Ends("refused", "no", None)

TakeSnapshot ==
    /\ op = None /\ snapshot' = page.version /\ used' = 0
    /\ UNCHANGED <<page, input, disk, risk, entered, late, op, runs, answer>>
Begin ==
    /\ op = None /\ snapshot # None /\ runs < Runs /\ runs' = runs + 1 /\ answer' = None
    /\ \E asks \in SUBSET {"complete", "error"} :
        op' = [at |-> "check", version |-> snapshot, asks |-> asks, shown |-> {}, absent |-> {}, seen |-> {}, bars |-> [u \in Uploads |-> None],
               armed |-> FALSE, retained |-> None, reached |-> FALSE, held |-> {}]
    /\ UNCHANGED <<page, input, disk, snapshot, used, risk, entered, late>>

\* The reference of another document, or a file that cannot be read, is
\* refused; the examined file is the one asked for.
Check ==
    /\ At("check")
    /\ \/ Alive /\ Goes("files") /\ UNCHANGED answer
       \/ ~Alive /\ Refuses
    /\ UNCHANGED <<input, snapshot, used, risk, entered, late, World>>
PreflightLocalFiles ==
    /\ At("files")
    /\ \/ disk' = "asked" /\ Goes("input") /\ UNCHANGED answer
       \/ Refuses /\ UNCHANGED disk
    /\ UNCHANGED <<page, input, snapshot, used, risk, entered, late, runs>>
InspectFileInput ==
    /\ At("input")
    /\ \/ Alive /\ Goes("complete?") /\ UNCHANGED answer
       \/ Refuses
    /\ UNCHANGED <<input, snapshot, used, risk, entered, late, World>>

\* The baseline of the signals asked for and of the progress controls.
Sees(signal) == signal \in op.asks /\ Shown(page, signal)
Baseline ==
    /\ \/ At("complete?") /\ op' = [op EXCEPT !.at = "error?", !.shown = @ \cup {s \in {"complete"} : Sees(s)}]
       \/ At("error?") /\ op' = [op EXCEPT !.at = "bar?", !.shown = @ \cup {s \in {"error"} : Sees(s)}]
       \/ At("bar?") /\ op' = [op EXCEPT !.at = "arm", !.shown = @ \cup {s \in {"bar"} : Shown(page, s)}]
    /\ UNCHANGED <<input, snapshot, used, risk, entered, late, answer, World>>

\* The snapshot is used up before the listener is installed.
Consumes == snapshot' = None /\ used' = used + 1
Arm ==
    /\ At("arm") /\ Consumes
    /\ \/ Alive /\ op' = [op EXCEPT !.at = "dispatch", !.armed = TRUE]
          /\ input' = [input EXCEPT !.listening = TRUE, !.fired = FALSE, !.record = None]
       \/ Goes("dispatch") /\ UNCHANGED input
    /\ UNCHANGED <<risk, entered, late, answer, World>>
Set ==
    /\ At("dispatch") /\ Alive /\ Receives
    /\ op' = [op EXCEPT !.at = "set", !.reached = TRUE, !.held = @ \cup {disk}]
    /\ UNCHANGED <<snapshot, used, risk, late, answer, World>>
\* A failed selection may have reached the page, or reach it later; it counts.
FailsQuietly == risk' = risk
NoteFileSelection == risk' = TRUE
Fails ==
    /\ \/ At("dispatch") /\ late' = Alive
       \/ At("set") /\ late' = late
    /\ NoteFileSelection /\ input' = [input EXCEPT !.listening = FALSE] /\ Ends("failed", "unknown", None)
    /\ UNCHANGED <<snapshot, used, entered, World>>
Returns ==
    /\ At("set") /\ NoteFileSelection /\ Goes("retained")
    /\ UNCHANGED <<input, snapshot, used, entered, late, answer, World>>

-----------------------------------------------------------------------------
\* Name and size of the files, one by one.
FileMetadataMatches(files) == files = "asked"
SelectedFileMetadata ==
    /\ At("retained")
    /\ \/ Alive /\ op' = [op EXCEPT !.at = "event", !.retained = input.files]
       \/ Goes("event")
    /\ UNCHANGED <<input, snapshot, used, risk, entered, late, answer, World>>
CollectFileInputEvent ==
    /\ At("event") /\ input' = [input EXCEPT !.listening = FALSE]
    /\ \E event \in {None} \cup (IF op.armed /\ Alive /\ input.fired THEN {input.record} ELSE {}) :
        IF FileMetadataMatches(op.retained) \/ FileMetadataMatches(event)
        THEN op' = [op EXCEPT !.at = "progress", !.absent = {"complete", "error", "bar"} \ op.shown] /\ UNCHANGED answer
        ELSE Ends("unconfirmed", "yes", None)
    /\ UNCHANGED <<snapshot, used, risk, entered, late, World>>

\* observeFileProcessing: a signal counts once it is shown after it was not.
Sampled(o, signal, shown) ==
    IF ~shown THEN [o EXCEPT !.absent = @ \cup {signal}]
    ELSE IF signal \in o.absent THEN [o EXCEPT !.seen = @ \cup {signal}] ELSE o
\* progressSample: a sample that fails, its document being replaced, saw nothing.
Progress ==
    /\ At("progress")
    /\ op' = [Sampled(op, "bar", Shown(page, "bar")) EXCEPT !.at = "error", !.bars = page.bars]
    /\ UNCHANGED <<input, snapshot, used, risk, entered, late, answer, World>>
ProgressLost ==
    /\ At("progress") /\ Replaces
    /\ op' = [Sampled(op, "bar", FALSE) EXCEPT !.at = "error", !.bars = [u \in Uploads |-> None]]
    /\ UNCHANGED <<disk, snapshot, used, runs, answer>>
Markers ==
    /\ \/ /\ At("error")
          /\ op' = [(IF "error" \in op.asks THEN Sampled(op, "error", Shown(page, "error")) ELSE op) EXCEPT !.at = "complete"]
       \/ /\ At("complete")
          /\ op' = [(IF "complete" \in op.asks /\ "error" \notin op.seen THEN Sampled(op, "complete", Shown(page, "complete")) ELSE op)
                       EXCEPT !.at = "decide"]
    /\ UNCHANGED <<input, snapshot, used, risk, entered, late, answer, World>>

\* The order in which the state is decided; network errors may be anyone's.
Evidence ==
    IF "error" \in op.seen THEN {"error"}
    ELSE IF "complete" \in op.seen THEN {"completion_marker"}
    ELSE IF "bar" \in op.seen THEN {"progress_complete"}
    ELSE IF \E u \in Uploads : op.bars[u] = "active" THEN {"progress_active"} ELSE {"network_error", "unverified"}
\* The answer carries a fresh snapshot, unless it could not be taken.
Decide ==
    /\ At("decide")
    /\ \/ op.seen = {} /\ Goes("progress") /\ UNCHANGED <<snapshot, used, answer>>
       \/ /\ \E e \in Evidence : Ends("succeeded", "yes", e)
          /\ snapshot' \in {None, page.version} /\ used' = 0
    /\ UNCHANGED <<input, risk, entered, late, World>>
\* The page goes away under the observation.
Breaks ==
    /\ op # None /\ op.at \in {"progress", "error", "complete", "decide"} /\ Ends("failed", "unsaid", None)
    /\ UNCHANGED <<input, snapshot, used, risk, entered, late, World>>

Next ==
    /\ Changes \/ Navigates \/ Clears \/ PersonSelects \/ Rewrites \/ LateSelection \/ TakeSnapshot
       \/ Begin \/ Check \/ PreflightLocalFiles \/ InspectFileInput \/ Baseline \/ Arm \/ Set \/ Fails \/ Returns
       \/ SelectedFileMetadata \/ CollectFileInputEvent \/ Progress \/ ProgressLost \/ Markers \/ Decide \/ Breaks
    /\ quiet' = IF op' = None THEN {} ELSE (IF op = None THEN {} ELSE quiet) \cup Absent(page')
                 \cup IF page'.version # page.version THEN {"complete", "bar"} ELSE {}
Spec == Init /\ [][Next]_vars

-----------------------------------------------------------------------------
\* The baseline is of what was asked for; past the dispatch a selection reached the input.
TypeOK ==
    /\ page.version \in 0..MaxVersion /\ page.marks \subseteq Uploads
    /\ op # None => op.shown \subseteq op.asks \cup {"bar"}
    /\ op # None /\ op.at \in {"dispatch", "set", "retained", "event", "progress"} => (op.reached <=> op.at # "dispatch")

Said(kind) == answer # None /\ answer.kind = kind
\* A success means that the input held the file that was examined, not one
\* rewritten since and not the person's (fileMetadataMatches).
ConfirmedIsObserved == Said("succeeded") => answer.held = {"asked"}

\* One snapshot lets one selection through, whatever becomes of it
\* (consumeObservedSnapshot).
OneSelectionPerSnapshot == used <= 1

\* Once a command has ended, or been given up, a document that received files
\* is known to hold them, and no answer says that nothing was dispatched.
SelectionIsRisk ==
    /\ op = None /\ entered => risk
    /\ answer # None /\ answer.reached => answer.told # "no"

\* A completion was not there at some moment since the command began
\* (completionMarkerWasAbsent, completedProgressWasAbsent).
CompletionIsATransition == Said("succeeded") =>
    /\ answer.evidence = "completion_marker" => "complete" \in answer.quiet
    /\ answer.evidence = "progress_complete" => "bar" \in answer.quiet

\* docs/browser-support.md:32, "Wait for `processing.state: "completion_observed"`
\* [...] before submitting": by then this upload is not in progress any more.
CompletionIsThisUpload == Said("succeeded") /\ answer.evidence \in {"completion_marker", "progress_complete"} /\ "this" \in Uploads =>
    answer.bars["this"] # "active"
=============================================================================
