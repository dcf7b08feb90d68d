# Verification of Stage5 MCP Tools

Stage5 MCP Tools is a local MCP server that gives coding agents a browser and a
room to coordinate in. TLA+ modules of its concurrent core live here, with the
TLC configurations that check them on small instances and TLAPS proofs that hold
for every instance. The first part of this document is an inventory of the
program; the second says what is modelled, checked and proved; the last is the
plan. Paths are relative to the repository (`src/...` is its source directory).

## 1. The system

```
MCP host ── stdio ── MCP server (src/mcp, src/mcp-server.ts)      one per connection
                       │                         │
                       │ LoungeService           │ BrowserSupervisor
                       │ LoungeStoreClient       │   SerialQueue, OperationRegistry,
                       │ worker thread           │   OperationJournal, telemetry
                       ▼                         ▼ Node IPC
                 lounge/store/*            browser-worker.ts (a process)
                 SQLite (WAL), shared       BrowserController ── Playwright ── browser
                 by every process of              │
                 the machine               lease, control and handoff records
                                           in the profile directory, shared by
                                           every worker of that profile
```

Three things make it hard to test: processes that die or hang with work half
done, answers that come late or never, and files and a database that several
processes share.

| component | state | operations | interacts with | properties that make it correct |
|---|---|---|---|---|
| Supervisor (`supervisor/*`, `serial-queue.ts`) | `child`, `pending`, `closing`, `humanAuthenticationInProgress`, the queue | `execute`, `forceRecover`, `close`, `ensureWorker`, `replaceWorker`, `reloadCompatibleRuntimeIfNeeded`, `request`, `terminateWorker` | worker by IPC and signals; registry and journal; the lease file | one effect per operation, one worker at work, no orphan, every call returns, a private handoff is never cut off |
| Operation registry and journal (`operations/*`, `operation-journal.ts`) | records in memory, lines on disk | `reserve`, `begin`, `transition`, `succeed`, `fail`, `markResponseCreated`, `status`, `prune`, `append`, `compactIfNeeded` | supervisor, MCP tools | an outcome is never revised; an issued operation can be queried |
| Browser worker (`browser-worker.ts`) | a promise chain of requests, `shuttingDown` | handle, interrupt, detach, shutdown | supervisor, controller | finishes the request at work before it leaves |
| Lounge store (`lounge/store/*`) | tables of sessions, memberships, messages, deliveries, notes, notices, mutation receipts | `join`, `heartbeat`, `closeSession`, `send`, `claimInbox`, `ack`, `setWorkNote`, `pin`, `status`, `history` | other processes through SQLite | one open session per agent, at-least-once ordered delivery, idempotent retries, fencing |
| Lounge connection (`lounge-service.ts`, `lounge-store-client.ts`, `lounge-store-worker.ts`) | joined identity, `lastNoticeRevision`, pending requests | `join`, `send`, `wait`, `ack`, `pin`, `setWorkNote`, `close` | store worker thread, 7 s time limit | no notice change is swallowed, one identity per connection |
| Profile ownership (`profile-ownership/*`) | the lease file; each worker's `active` lease and heartbeat | `claim`, `takeOverProvenOrphan`, `adopt…`, `establish`, `updatePhase`, `release`, `detach`, `heartbeat`, inspection | other workers, the browser process | at most one worker believes it owns a profile |
| Profile binding (`profile-binding/*`) | none of its own: readings kept by the handoff | launch identity, profile of the running browser, cookie keys from files or browser, their comparison | handoff, lifecycle | a login that was lost on the way back is told, and one called preserved is there |
| Agent context (`supervisor/agent-context*.ts`, `persistence/*`) | the bound agent, its stored policy, `pending` | `bind`, `applyPending`, `note`, `persist` | supervisor | the newest explicit policy wins, in memory, worker and file |
| Action phases (`controller/action/*`) | phase of the action, dispatch attempts | enter, begin/conclude dispatch, recover | input | at most one possible input |
| Input, controls, forms, dialogs (`controller/{input,controls,forms,dialogs}`) | element references, inspections, pending dialog | click, fill, select, upload, form batch, dialog answer | Playwright | no input at a target that is no longer the one observed; a failed batch stops |
| Handoff (`controller/handoff/*`, `native-control-channel.ts`, `human-auth-*.ts`) | `authenticationHandoff`, `pendingHandoffRelease`, native control record, lease phase | request, release, resume, restore | human, browser process, lease | no observation of the page between request and resume, over restarts too |
| Lifecycle (`controller/lifecycle/*`) | context, page, tabs, `state` | start, attach, stop, detach | lease, Playwright | a browser is started only under its own lease |
| Navigation, observation, scrolling (`controller/{navigation,observation,scroll,interaction}`) | snapshots and references | read the page | Playwright | references expire with their document |
| Policy, page-state risk, transfers (`controller/{policy,persistence,transfers}`) | mode, risk flags, downloads | guards of actions | input | — |
| Telemetry, page diagnostics (`execution-telemetry*`, `page-diagnostics/*`) | bounded buffers | append, query | — | — |
| MCP tools, protocol, configuration, provider | none that lasts | shape requests and results | everything | — |

`PROJECT.json` lists each component with its files and status, and under
`hazards` the places where this code can go wrong in ways a test would hardly
reach, each with the properties that watch it, or a note on why none does.

## 2. Modules

| module | what it is |
|---|---|
| `OperationContract` | the abstract specification: what an agent may rely on when it issues browser operations |
| `Supervisor` | registry, journal, queue, life cycle, transport and worker processes of one host |
| `MCSupervisor` | its instances for TLC (symmetry) |
| `SupervisorProofs`, `ContractProofs` | TLAPS proofs about `Supervisor`: types, orphan workers, close, one worker at work; no replay, reloads, outcomes and the contract |
| `LoungeStore` | one Lounge room in the shared database |
| `MCLoungeStore` | its instances for TLC (symmetry) |
| `LoungeStoreProofs` | TLAPS proofs about it |
| `LoungeConnection` | one MCP connection above the store: service, client, worker thread |
| `AgentContext` | what the supervisor restores for a durable agent |
| `ProfileLease` | the lease file that the workers of one profile share |
| `Handoff` | start, stop, attach and the private login handoff over crashes |
| `HandoffProofs` | TLAPS proofs about it |
| `SnapshotCapture` | a semantic snapshot and the references retained with it |
| `ClickAction` | phases, preparation, guarded dispatch and evidence of one click |
| `ControlPopup` | whose popup is on screen: inspection, opener, owner decisions |
| `ControlSelection` | native, popup, multiple and searchable selection |
| `MCPageTargetsProofs` | TLAPS proofs about these four |
| `EditorFill` | fills by reference and by role, with their evidence |
| `FileSelection` | file selection and the wait for the site's processing |
| `FormPlan` | form summaries, capabilities, staged plans and rebinding |
| `ScrollAction` | the scroll command, its surface and its wait for content |
| `TabInspection` | the look at a background tab and the restoration after it |
| `Dialogs` | JavaScript dialogs that come up while commands run |
| `PrivateField` | one field handed to the person and taken back |
| `StorageContinuity` | the readings of a login's cookies and what they are taken to show |
| `WorkerRecordsProofs` | TLAPS proofs about `ProfileLease`, `StorageContinuity`, `LoungeConnection`, `AgentContext`, `PageRisk`, `PageEvents` and `DownloadJournal` |
| `MCWorkerRecordsProofs` | the same and `HandoffProofs`, for the properties of `MCWorkerRecords` |
| `MCPageCommandsProofs` | TLAPS proofs about each part of `MCPageCommands` |
| `PageRisk` | unsaved file selections, the gate before navigation, their record |
| `DownloadJournal` | captured downloads and their manifest over workers |
| `PageEvents` | the journal of replaced and closed pages |
| `MCPageTargets`, `MCPageCommands`, `MCWorkerRecords`, `MCProgress` | instances of the modules above for TLC |

The last four modules instantiate several of the modules above with small
constants. The worker's queue runs one command at a time and the records they are
about live in different files, so these modules share no state: a behaviour of
`MCPageCommands`, say, is a behaviour of one of its modules, `part` says of which, and
the variables of the others stay as they began. A property of such a module (`LeaseIsRespected`)
is the conjunction of the named properties of its parts
(`Lease!NotRecreated`, `Relaunch!OnlyOrphansSignalled`, ...), each of which is stated and
explained in the module it belongs to.

### 2.1 Supervisor

Node runs one handler at a time, so an action is the code between two `await`s
of the routine that holds the serial queue (`run.step` says which await it is
at), a timer, a process event, or a call from the host. `queue` is the chain of
`SerialQueue`; its head runs. `run.goal` is what a worker replacement in progress
is for (`Replace`, `terminateWorker` and `ensureWorker` have several callers and
return to different places). `pending` holds the requests whose promise is
unsettled and `reply` what the awaited one settled with. A worker slot has a life
(`up`, `draining` after SIGTERM while it finishes its request, `detached` after it
left the channel, `gone`), the request it works on (`work`) and the answers under
way (`channel`): a late answer is one whose request is no longer in `pending`.

The registry's record of an operation is `command`, `phase`, `outcome`, kept while
its id is in `memory`; `journal` is the newest line of the operation on disk.
`prune()` is inside every action that calls `begin`, `reserve` or `status`, as in the
code. `handoff` is what the profile's lease file says, `humanAuth` the
supervisor's flag; a worker sets the first, a delivered answer the second.

Scope: a host without a bound durable agent (`agentContextId` null), so
`applyPendingAgentContext` does nothing. Left out: execution-trace bookkeeping and
the late-telemetry maps (reporting only), torn journal lines, and the command
itself, which is one abstract effect. SIGKILL is assumed to end a process.

`OperationContract` is what remains when registry, queue, processes and journal
are forgotten: operations are carried out in order, at most once, never after
their outcome is known; "succeeded" means carried out; an outcome never changes.
`ImplementsContract` maps the supervisor to it: `state` is `ReportedState`, `effects` is
itself, and the contract's order of issue (`ahead`, for each operation those that must be
terminal first) is what stands `Before` it in the queue.

| run | what it shows | instance |
|---|---|---|
| `supervisor` | `TypeOK`, `NoOrphanWorker`, `OneWorkerAtWork`, `NoReplay`, `ReloadSparesHandoff`, `OutcomeNeverRevised`, `ImplementsContract` | two operations of kinds login and recover, two worker slots, one record in memory: 0.69 million states |
| `supervisor_progress` | `EveryOperationReturns`, `CloseEnds` under fairness; `ClosedIsFinal` | one operation (any command or recover), one crash or outside signal, the host closes: 38 thousand states |
| `supervisor_eviction` | violation of `IssuedIsQueryable` | two operations, one record |
| `supervisor_recover_outcome` | violation of `RecoverOutcomeNeverRevised` | two recoveries, one record |
| `supervisor_recover_handoff` | violation of `RecoverSparesHandoff` | login and recover |

Bounds. Two operations are enough for one to be at work while another waits, is
evicted by it (`MaxRecords = 1`), or receives its late answer; two slots are enough
for an old process that drains while its replacement works, and a third could only
repeat the second since a slot is free again once its process is gone. Two kinds
of command are kept in `supervisor`: "login" is every ordinary command with the
effect on the handoff besides, and "recover". Adding "resume" multiplies the
states by 2.6 and was checked once without finding more; "act" differs from "login" only in leaving the
handoff alone and is in the other runs. `MaxFaults = 0` where two operations race
(timeouts, failed starts and terminations still happen), 1 in the progress run.

Fairness (`Fairness`): the event loop runs the routine at the head of the queue
whenever its promise is settled (`QueueStep`), timers fire (`Timeout`,
`KillAfterGrace`), and a process told to leave with nothing left to do exits
(`Exit`). A worker need never answer: every property of the progress run holds
although it may hang, because each await has a timer or a process exit behind it.

Disagreements with the documents or tests that the three violation runs show are
described under `findings` in `PROJECT.json`:
- an operation that is queued can be dropped from the registry by `prune()` and is
  then unknown to `operation_status`;
- a recovery that times out is "timed_out" in memory and "failed" in the journal;
- a login handoff whose answer is lost does not make the supervisor refuse a
  recover, though the durable lease, which the reload path does read, would say so.

### 2.2 LoungeStore

Each request is carried out in two steps, as in the code: `requireSession` reads
the session row (`Ask`), then one `BEGIN IMMEDIATE` transaction does the work. The
transactions of all processes are atomic; between the two steps others commit.
`asked[s]` is the request of session `s` between its steps. Its transaction may also
fail to begin (`Busy`). A connection's store worker handles one request at a time,
which is why a session has one `asked`. An answer may get lost, which matters only
for `Claim` (`received` records what reached the agent).

`messages` and `delivery` are the two tables by sequence number. `log[d]` is the
history of a document's mutations; its last entry is the current row, the
revisions in `receipts[d]` are those whose mutation row has not been pruned. Work
notes and the pinned notice are the same compare-and-set with receipts, except
that a note's receipts are pruned (`Kept`) and a notice may be set by any manager.

Left out: leases and time stamps, `status` and `history` (they read only), and
`delivery_attempts`, which is only reported. The tables' creation and migration are
the initial state.

| run | what it shows | instance |
|---|---|---|
| `lounge_messages` | `TypeOK`, `AtLeastOnce`, `DeliveredInOrder`, `OneMessagePerKey`, `NeverTakenBack` | two agents, three sessions, two messages, two keys, claims of one: 87 thousand states |
| `lounge_documents` | `OneOpenSession`, `ClosedStaysOffline`, `AppliedOnce`, `RetryIsRecognized` | two agents (one a manager), two sessions, two keys, four revisions, one receipt kept: 0.68 million states |
| `lounge_fencing` | violation of `SupersededWriterIsFenced` | one agent, two sessions, one note |

Bounds. Three sessions of two agents let a session be replaced while its request
is under way and the agent's new session act on the same deliveries. Two messages
with claims of one are the smallest case with an order to get wrong; two keys the
smallest where a key can be used again. With two keys and one receipt
kept a key is free again while a late retry of its first use is still possible,
which is the case `AppliedOnce` is about (two receipts would need three keys for it). `CHECK_DEADLOCK FALSE`: all clients may stop. No
liveness is stated here: whether messages are ever seen depends on the agents.

The violation run shows that the replaced session's note can still be committed
after the join that closed it, contrary to `docs/agent-lounge.md:12`.

### 2.3 What a command means on a changing page

A page is asked through Playwright, one call at a time. Between any two calls it
renders, moves things, navigates, or a person uses it; the code holds handles,
document versions and capabilities against that. Each module below has the calls
of its command as actions (`op.at`, `pc` or `run.at` says which await it is at) and the
page's own steps as others. Geometry, roles and names are reduced to what the
decisions ask of them ("covered", "unique", "the same node").

- `SnapshotCapture`: text, root, number of editors, and for each editor its handle and then
  its reference, by its place in the list. `Retain` is the comparison of the
  document with the one at the start. No call is answered by a document before
  its `framenavigated` event was handled (Playwright delivers both on one
  connection, in order).
- `ClickAction`: `phases` is the session of `controller/action`, `pc` the executor. `real` is what
  happened to the target; `dispatch` and `probe` are what the worker can read of it.
- `ControlPopup`: `world` fixes who links and lies near to which popup, `page` what is open.
  `retained` and `decisions` are the capabilities the agent holds, each used once.
- `ControlSelection`: the baseline of the selection, the click or the typed search with Enter,
  and the reconciliation with what the control shows afterwards.
- `EditorFill`: preparation, the listener for input events, the fill, and the reading of
  evidence. `reached` is what text was really entered where. A `fill` that returned,
  by time-out too, is assumed to have no later effect.
- `FileSelection`: the examination of the file, `setInputFiles`, and the polls for progress
  controls and markers of this and of an earlier upload. What happens to the input
  while no command looks at it is left out.
- `FormPlan`: a summary retains fields under a form id, a plan consumes it and writes
  field by field; a field whose element is no longer in its place is looked for by role,
  name, kind and owner form. Name and form of an element are read in two calls (`CaptureField`,
  `CaptureOwner`; `Candidate`, `Describe`), and any reading may time out. The page replaces, adds, removes and
  moves elements, renders them all again, and makes another field of an element that stays
  (`ReuseField`: another name or type, another form; `page.reused` keeps note of such elements and is
  read by properties only). The code compares a retained element by identity (rebind.ts:38)
  and asks it neither for its name nor for its form again, so a step that was planned for one field
  writes into what the page has made of its element; of a fill only the kind of editor is asked
  once more. `WrittenWhereAsked` says exactly that: which element is written, always, and that it is
  still the planned field unless the page has reused it. The documents promise no more than that
  identity (docs/dogfooding-2026-08-27-form-fast-paths.md:30). Left out: fields without a name, which
  are never rebound, an owner form that times out in a summary, and changes of the page within one fill.
- `ScrollAction`: the pinned surface, steps, activation, content observations with capped
  scans.
- `TabInspection`: pins both pages, activates the renderer for a moment, captures, restores.
- `Dialogs`: scopes, expectations, responses with their one-second settling, outcomes. Dialogs of
  several pages may wait for their answers at once; what `respond` does up to its first call to the
  browser, the check and the mark of the scope included, is one step (`Raise`).
- `PrivateField`: the request, the person's turn and the resumption, over elements that are
  replaced (`docOf` tells whose document an element is of) and a worker that is replaced
  and knows of no handoff. `changed` and `typed` are what really happened to the elements.

| run | what it shows |
|---|---|
| `page_targets` | `OneDocument`, `OnlyWhatIsShown` (a snapshot's references are of one document and shown to the agent), `ClicksOnce`, `PopupsBelong`, `SelectsWhatWasAsked`: 3.0 million states |
| `page_commands` | `FillsOneEditor`, `FilesAreWatched`, `PlansKeepToTheirForm`, `ScrollsAreTold`, `InspectsAndGivesBack`, `AnswersOneDialog`, `FieldIsGivenBack`: 2.1 million states |

Bounds. A property about two actors of the page (a target and what covers it, two
editors that change places, an upload and an earlier one) needs two of each, and
one about a page that changes under a command needs one change between two calls;
each instance has that and, where TLC can afford it, one more:
two snapshots over two editors, two roots and one navigation (`Editors` and `Roots` are
symmetric: no definition orders them); a click and two changes; three
inspections of two controls and two popups in four layouts (linked, near, closest,
joined) with one change and two decisions kept; two inspections with their
selections and one change over eight kinds of control; a fill with two editors; two
file selections, of which the first is watched beside an earlier upload (`FirstBesideUpload` is the
bound: beside the second the page shows nothing of it); two forms
of two fields with one change; scrolls of two steps; two tabs; two commands with two
dialogs of two types; a field with two elements, two documents and two workers. Deadlock is not checked: an agent may stop asking.

### 2.4 Records that outlive a command

- `ProfileLease`: link and rename are single steps; `updatePhase`, `heartbeat` and remove read
  in one step and write in another (`mut`). An inspection is used later (`seen`), and so is
  the browser process that an adoption was decided on (durable.ts): by the time the new
  lease is linked another one may be running.
- `Handoff`: one worker after another over the lease, the native control record and the
  browser process; every await of start, stop, request, release, restore and resume
  is a step, and `Crash` may come between any two. The control record is written from the
  worker's memory, as in the code, whatever the disk says. Operations on the lease are one
  step here, their interleavings are `ProfileLease`'s. `private` is the human's time.
- `LoungeConnection`: tool calls interleave between store requests; the thread may hang, and
  the client's seven seconds close it (`Disconnect`). Requests are one step here,
  their two are `LoungeStore`'s.
- `AgentContext`: binding, the pending browser and policy, persistence, noted results, a
  worker that dies and a host that restarts.
- `StorageContinuity`: the four readings of a login handoff (`reading`) beside the keys there
  really were (`truth`), in the four ways a handoff can go (`flow`). Files may name keys the
  browser is not asked for (`limited`) or of an older layout (`stale`), and any reading
  may fail: then nothing is known, or, of a running browser whose profile has no cookie database,
  that there are no cookies (storage.ts:145). A second resumption of the same handoff is left out.
- `PageRisk`, `DownloadJournal`, `PageEvents`: memory, a chain of writes (`jobs`, `chain`, `writes`), the
  file, and the next worker that reads it. Writes may fail and pages not answer
  where `MayFail` says so.

| run | what it shows |
|---|---|
| `worker_records` | `OneWaitListens`, `LossesAreTold`, `LeaseIsRespected`, `HandoffStaysPrivate`, `ContextFollows`, `UnsavedFilesAreTold`, `JournalsAreKept`: 2.8 million states |
| `progress` | `EverythingEnds`, under fairness: 0.26 million states |

Bounds. Lease: three workers and a browser process (two that race and a third whose lease
goes meanwhile), and two workers with two processes (a browser is launched again
under a stale inspection). Handoff: three workers and three processes. Connection: two calls, two
sessions, one revision of the notice. Agent: five operations, two ends of a worker or
host. Risk: two tabs, three documents, three workers with failures, and a longer
sequence of four commands of one worker without. Downloads: three, with one record kept, over
three workers. Page events: two pages of one worker, one page over three workers.
Cookies: two keys, so that one may go and the other stay.
Deadlock is not checked: workers may all be gone and agents stop asking.

Fairness (`Fair` in `MCProgress`) is stated for one worker, call or command only, the one the
conclusion is about. The heartbeat's timer fires and its file calls return
(`Heartbeat`, `Finish`); continuations of a tool call run and the client's timer fires
(`Continue`, `Disconnect`); an operation has a deadline and settling a timer (`OperationEnds`,
`Closes`); each wait of an inspection has a deadline (`Inspection`). Nothing is assumed of
the store's thread, the browser, the page or the person.

## 3. Disagreements with documents and tests

Four runs expect a violation; their findings quote the documents (`PROJECT.json`). The
modules state more of what the documents promise as definitions that no cfg lists, because TLC
violates them; listing one as INVARIANT (or as PROPERTY where it is an action
property) of an instance of its module shows how. For each: the promise, and what the
code does instead.

| definition | promise | code |
|---|---|---|
| `ProfileLease!OneReplaces` | tests/profile-ownership-lease.test.ts:224, only one worker replaces a proven orphan lease | the lease is read, compared and removed by path (store.ts:124): two takeovers can both succeed; the loser notices at its heartbeat |
| `Handoff!HandoffIsRecoverable` | docs/agent-setup.md:71, an `awaiting_user` handoff is reconstructed after a restart | a resume that fails after attaching restores the record but leaves the lease `native_cdp`, which the restore does not accept (durable.ts:123) |
| `Handoff!StartsAfterExit` | lifecycle/ownership.ts:56, wait for the browser's exit, then start | the worker's own lease is `current_owner` and start gives that advice again (ownership.ts:109) |
| `LoungeConnection!KnownRevisionWasTold` | README.md:305, a notice revision wakes listeners | the revision is known before the answer is delivered; a cancelled wait swallows it (lounge-service.ts:272) |
| `LoungeConnection!OneIdentity` | tests/lounge-service.test.ts:77, no identity switching on a connection | two concurrent joins both pass the check (lounge-service.ts:161) |
| `AgentContext!PolicyReachesWorker` | docs/agent-lounge.md:70, joining restores the review policy | the pending policy is cleared before the worker took it, and a worker in a handoff refuses (agent-context.ts:118) |
| `ClickAction!NotDispatchedIsProven` | docs/dogfooding-2026-08-24-facebook-offscreen-click.md:23, outcome unknown when the dispatch is not proven | a target disabled or covered afterwards is taken for not dispatched (classification.ts:139) |
| `ClickAction!FailureIsTold` | docs/dogfooding-2026-08-25-facebook-native-window-activation.md:27, `page_not_active` with `actionDispatched: false` | a second loss of activation throws `ActionPhaseInvariantError` (click-executor.ts:119) |
| `ControlPopup!FailureIsTold` | resolution.ts:29, no control input was dispatched | also said after the Escape or the opener's input (inspection.ts:128, :191) |
| `ControlPopup!StructuralOwnerVetoes` | docs/action-system-acceptance-2026-08-26.md:56, a different structural owner disables the causal fallback | only beside a focused or expanded target (popup-association.ts:370) |
| `ControlSelection!NeverToggledOff` | docs/agent-setup.md:99, a selected option is never toggled | its state is that of the inspection (selection.ts:231) |
| `ControlSelection!FailureIsTold` | README.md:7, truthful outcomes | the last step's `actionDispatched: false` is given for the whole request (multi-selection.ts:285) |
| `FormPlan!FailureIsTold` | README.md:7 | a step that fails without saying so counts as not dispatched (plan.ts:110) |
| `FormPlan!RebindIsUnique`, two changes | docs/dogfooding-2026-08-27-form-fast-paths.md:30, rebound where the document and form contain one unique exact match | candidates are counted once and then read one by one by place: one that moves or is not read in time is missed (rebind.ts:71) |
| `FormPlan!RebindsUntouched` | README.md:110, only untouched fields are rebound | a pending field may be rebound to one already written (rebind.ts:118) |
| `EditorFill!FalseIsConfirmed` | fill-evidence.ts:261, no input event occurred | a page that stops its input events hides them (fill-evidence.ts:238) |
| `FileSelection!CompletionIsThisUpload` | docs/browser-support.md:32, wait for `completion_observed` | an earlier upload's completion counts (file-processing.ts:92) |
| `ScrollAction!CappedProvesNothing` | docs/browser-support.md:22, a capped scan proves no disappearance | only one of two scans is asked whether it was capped (helpers.ts:255) |
| `ScrollAction!EvidenceIsComparable` | docs/architecture.md:221, before and after are comparable | the viewport has no handle: counts may be of two documents (helpers.ts:141) |
| `TabInspection!DescribesPinned` | docs/architecture.md:217, the target document is pinned | the page's description is read after the comparison (tabs.ts:299) |
| `SnapshotCapture!EditorIsExact`, `RootIsExact` | docs/architecture.md:211, the exact editor and root handles | handle and reference, text and root, are found by place in two calls (snapshot-inputs.ts:135, page.ts:149) |
| `Dialogs!AcceptsOwn` | docs/failure-taxonomy.md:33, accept only the exact expectation | any first dialog of the type, from whichever page (manager.ts:127) |
| `Dialogs!SuccessIsAnswered` | the same | a response under way after one second counts as given (manager.ts:98) |
| `PrivateField!UnchangedIsUntouched` | README.md:124, only completed, unchanged or validation-error evidence for that field | the element that was highlighted is looked at, not one the page has put in its place (private-field.ts:172) |
| `PrivateField!AccessIsBlocked` | README.md:123, agent page access is blocked meanwhile | the handoff is in the worker's memory: its replacement lets every command in (runtime.ts:322) |
| `StorageContinuity!LossIsReal` | docs/failure-taxonomy.md:28, `AUTH_NOT_PERSISTED` for verified loss | keys the files name and `cookies(origin)` leaves out, of another path or an older layout, count as lost (storage.ts:346), and so do all when `cookies(origin)` fails beside a missing database (storage.ts:291) |
| `StorageContinuity!BoundaryIsProven` | docs/dogfooding-2026-08-24-x-login-handoff.md:117, the boundaries are distinguished | without a reading at the start, what had gone by then is put down to the load of the target (storage.ts:359) |
| `PageRisk!OnlyBoundaryClears` | docs/dogfooding-2026-08-27-unsaved-attachment-navigation.md:23, a document boundary clears the state | `framenavigated` within a document clears it too (context.ts:61) |
| `PageRisk!RiskSurvives` | the same, :21 and :24 | the record holds one page's risk, so another tab's drops it (page-state-risk.ts:19); a record that could not be written leaves an older acknowledgement to the next worker (:34) |
| `PageRisk!ExactTab` | README.md:306, the exact selected tab | a background tab's risk is recorded as the selected tab (page-state-risk.ts:22) |
| `DownloadJournal!InProgressIsCaptured`, `MayFail = TRUE` | docs/failure-taxonomy.md:40, truthful classification | one failed write rejects every later capture (download-manager.ts:122) |
| `DownloadJournal!SeenAfterCursor` | the same, wait and read without replay | a number is given out before it is written (download-manager.ts:77) |
| `PageEvents!SeenAfterCursor` | docs/action-system-acceptance-2026-08-26.md:34, durable page events | the same (page-events.ts:90) |

## 4. Proofs

Eight modules hold forty-five theorems. Each says of every value of the constants what a run
checks of small ones; all but the eight of `WorkerRecordsProofs` and `HandoffProofs` name the
definition that the run checks, and those eight are brought to it in `MCWorkerRecordsProofs`. Where the property
is not inductive, its strengthening was checked by TLC on the instances of the runs, too.

**Supervisor** (`SupervisorProofs`, `ContractProofs`), for any number of
operations, worker slots, records and faults, from `SupervisorAssumption` alone: sizes are
natural numbers, ids are finite in number, and `None` differs from every value it could be
taken for.

| theorem | argument |
|---|---|
| `TypeCorrect`: `Spec => []TypeOK` | `TypeOK` is inductive; one lemma per group of actions, and one per helper (`SignalType`, `RequestType`, `CatchType`, ...) that many actions share |
| `NoWorkerIsOrphaned`: `Spec => []NoOrphanWorker` | inductive with `TypeOK`: only `EnsureFork` makes a process and it becomes `child`; whatever gives up `child` signals or has lost the process |
| `CloseIsFinal`: `Spec => []ClosedIsFinal` | `CloseInv` adds that `closing` holds whenever a `Close` entry is queued, that an empty queue is idle, and that the close entry at work has already forgotten `child`; then `NoOrphanWorker` gives the rest |
| `OneWorkerIsAtWork`: `Spec => []OneWorkerAtWork` | nothing in it says that a replacement has to wait. `WorkInv` does: whoever works is the child, or the process whose exit the routine awaits, and then there is no child (`WorkOfHead`, `TargetOfRun`); a result is the last thing a worker sends, and a request that is settled is not pending (`ResultIsLast`, `ReplySettles`); so when the routine goes on, with a result or an exit, nobody is at work (`SettledIsIdle`), and only then does it fork |
| `OperationsAreNotReplayed`: `Spec => []NoReplay` | `effects[o] <= 1` says nothing of a request under way, so `ReplayInv` adds: an operation is queued at most once, and only once issued; while it is `Untouched` (not issued, or queued behind the head, or at the head with its request `Unsent`) it has no effect and no worker carries it; at most one worker carries it; and none does once it has had its effect. Each step of a routine is `Harmless` (it gives nobody work that carries anything out and does not go back to before the request) or `SendsOnce` |
| `ReloadsSpareHandoffs`: `Spec => ReloadSparesHandoff` | the lease is read steps before the worker is stopped; `ReloadDecided` says that it still holds no handoff, since only a worker at work makes one and nobody is at work (`WorkInv`) |
| `OutcomesAreFinal`: `Spec => OutcomeNeverRevised` | `OutcomeInv`: the only queued operation that has an outcome is the head while it is journalled, what a caller was returned is that outcome, and a line of the journal tells it; so memory and, after pruning, the journal agree. Stated for the commands other than `recover`, as the run is: for those it does not hold (section 3) |
| `ContractIsImplemented`: `Spec => ImplementsContract` | a simulation, one lemma per group of actions: an initial state is one of the contract's, and a step is a `Reserve`, `Lapse`, `Issue`, `CarryOut` or `Finish` of the contract, or a stutter. That an effect is had in order needs `ReplayInv` (only the head's request is carried out), that it comes before "succeeded" needs `AnswerInv`: a routine waits for its own request, and a worker says "ok" only after the effect (`OkAfterEffect`) |

**Lounge store** (`LoungeStoreProofs`), for any agents, sessions, keys, bodies and claim sizes, from
`LoungeAssumption`. One invariant, `IInv`, proves all nine: `SessionInv` (sessions and presence),
`MailInv` (messages, deliveries, what the recipients have received), `DocumentInv` (notes, notice,
receipts, the log of what was applied) and `RequestInv`, which says what is still
true of a request that was let through by `requireSession` when other processes have changed the
tables since. The transactions may build on nothing more, and that is what the
proof shows to be enough.

| theorem | argument |
|---|---|
| `TypeCorrect`: `[]TypeOK` | from all four parts; that nobody is a recipient of its own message (`NotToSelf`) is part of it |
| `OneSessionIsOpen`: `[]OneOpenSession` | a join closes the agent's other sessions in its own transaction |
| `ClosedIsOffline`: `[]ClosedStaysOffline` | the update of a heartbeat looks at `open` again |
| `DeliveryIsAtLeastOnce`: `[]AtLeastOnce` | an acknowledgement names only what was `received`, and that was delivered (`HandedOut`) |
| `DeliveryIsInOrder`: `[]DeliveredInOrder` | a claim takes the first of the claimable in the order of their numbers; an acknowledged one is out of the way for good |
| `KeysAreNotReused`: `[]OneMessagePerKey` | a message is added only where no message has its sender and key |
| `MutationsAreAppliedOnce`: `[]AppliedOnce` | receipts alone do not give it, as they are pruned: each entry of the log carries the revision it expected, which is its place (`Stamped`) |
| `RetriesAreRecognized`: `[]RetryIsRecognized` | the receipts kept are those of the newest revisions, each with its entry of the log |
| `StatesAreMonotonic`: `NeverTakenBack` | an action property: each write of a delivery raises its `Rank` or leaves it |

**Lease, cookies, connection, context, risk and journals** (`WorkerRecordsProofs`), each module an instance on its own:

| theorem | argument |
|---|---|
| `LeasesAreRespected`: `Lease!Init /\ [][Lease!Next]_vars => LeaseIsRespected` (no fairness is needed), for any workers and processes, where `None` is no lease | a step that signals looks at nothing but an inspection that is over, so `LeaseInv` says what every lease in sight, on disk, inspected (`seen`) or about to be written (`mut`), tells of its process (`Honest`): it has run, and if the lease is a Playwright one, no human has it and of the living only the lease's owner drives it. No later step makes that untrue, as a process that has run is never launched again. What was inspected has to fit the step a worker is at (`PlacesFit`): an orphan that is signalled has no living owner, and what is adopted or resumed is a human's |
| `ReportsAreTrue`: `Storage!Spec => []LossesAreTold`, for any set of keys | `StorageInv`: no reading changes once the report is made, and a reading of a running browser is what its jar held at that moment; `Compare` is then taken apart case by case |
| `OneWaitAtATime`: `Connection!Spec => []OneWaitListens`, for any finite set of calls, and any agents and bounds, where `None` and `Failed` differ and `None` is no session (`ConnectionConstants`) | a wait is let in while `waiting` is false and leaves it only on its way out, after its own requests, which the client's one line (`queue`) keeps in order. `ConnectionInv`: what each call has at its step (`CallsFit`), that the line holds the calls that await their reply, each once (`QueueOfPending`), that one call at most is at a step of a wait (`OneCallWaits`), and whenever the store says "listening" that some call still does or has the request to stop in line (`ListensForWait`), unless the client is closed |
| `ContextsFollow`: `Agent!Spec => ContextFollows`, for any browsers and bounds, where `None` is no browser, policy, file or worker (`AgentConstants`) | what was read may be pending while the file lags, so `AgentInv`: a known browser is in the file, as the selected or the pending one, and as the selected one once nothing is pending or a browser runs (`StoredIsNear`), except while an answer waits to be noted or what was pending to be written; a worker that drives a browser has been reported to. Then `Take`, which ends a worker only where none is reported, ends none that drives |
| `UnsavedFilesAreKnown`: `Risk!Spec => UnsavedFilesAreTold`, for any pages and bounds, with failures and without, where `None` differs from each value (`RiskConstants`) | what the agent owes a page is not acknowledged in the worker's memory (`OwedIsKnown`), and past the gate nothing is owed (`GateIsShut`). The record only knows documents that are older than the next (`DocumentsAreKnown`), so one that came while no worker was there differs from the recorded one (`NewerThanRecorded`) until the attaching worker has compared them, and then it has told of it or closed it (`FoundIsTold`) |
| `ReplacementsAreRecorded`: `Events!Spec => []EventsAreKept`, for any pages, documents and workers, whether or not pages answer, where `None` is no number (`EventConstants`) | a replacement that is not recorded yet will be: a navigation of its page waits to be looked into, and the document it will find is not the one it is compared with (`WillTell`), as documents only get newer. `WritesFollow`: the writes that wait are those of the steps that wait, one of each page, and the last of them takes down the last number, so after it the file is what memory holds |
| `DownloadsNeverGoBack`: `Download!Spec => DownloadsAreKept`, for any finite set of downloads, any workers and number retained, where no write fails and `None` is no record (`DownloadConstants`) | memory, the write under way and the manifest are ordered: each names what the one after it names or has made room for it (`Replaces`: what is missing has `Retained` newer ones), with the same numbers, none above the last (`FileFollows`, `WriteFollows`, `FileNumbered`). Two lemmas say of `trimRecords` that what it drops makes such room (`TrimmedLeaves`) and that no more than `Retained` stay (`TrimmedBound`), from the least and greatest of a set of numbers. A download is in progress just as long as its capture (`CapturesFollow`) |

`MCWorkerRecordsProofs` brings these seven and the handoff's to the module that is run,
for every value of its constants: a behaviour of `MCWorkerRecords` stays with the part it begins
with (`PartStays`), which begins and goes on as its module does (`PartsBegin`, `PartsGoOn`).

| theorem | |
|---|---|
| `LeaseFileIsRespected`: `Spec => LeaseIsRespected` | from `LeasesAreRespected`, once for each of the two instances of `ProfileLease` |
| `LossesAreReported`: `Spec => []LossesAreTold` | from `ReportsAreTrue` |
| `HandoffsStayPrivate`: `Spec => HandoffStaysPrivate` | from `HandoffsArePrivate` |
| `OneWaitAtATime`: `Spec => []OneWaitListens` | from the theorem of this name about the connection |
| `ContextsAreFollowed`: `Spec => ContextFollows` | from `ContextsFollow` |
| `UnsavedFilesAreKnown`: `Spec => UnsavedFilesAreTold` | from the theorem of this name, once for each of the two instances of `PageRisk` |
| `JournalsStayTrue`: `Spec => JournalsAreKept` | from `DownloadsNeverGoBack`, and `ReplacementsAreRecorded` once for each of the two instances of `PageEvents` |

**Handoff** (`HandoffProofs`), for any number of workers and of processes, where `None`
differs from every value (`HandoffConstants`):

| theorem | argument |
|---|---|
| `HandoffsArePrivate`: `Spec => HandoffStaysPrivate` | `HandoffInv`: types; processes and workers are numbered as they come (`Numbered`); what a worker's memory has at each step of its command (`Connected`); and what keeps every worker from a private browser, `PrivateIsGuarded`: no worker is connected, and either the lease is the handoff's, held by a worker that remembers the handoff or by one that is gone, or the control record of the running process says it awaits its user and no Playwright lease stands against it. A step that would take one of the two away finds the other, or ends the human's time, wherever the worker crashes |

**Targets on a changing page** (`MCPageTargetsProofs`). A behaviour of `MCPageTargets` is a
snapshot, a click, an inspection or a selection from its beginning on (`PartsBegin`, `PartsGoOn`);
each has an inductive invariant of its own. The snapshots are those of `SnapshotCapture` on its
own, `Spec`, which `TargetsSpec` implies (`TargetsCapture`). Editors, roots, surfaces, layouts,
kinds of controls and the page's changes are any; of the rest, the bounds of a snapshot are natural
numbers (`SnapshotAssumption`), the controls are finitely many, `None` and the word "requested" are
none of them (`PopupConstants`), and there are finitely many options and at least one
(`SelectionConstants`). The theorem about clicks assumes nothing.

| theorem | argument |
|---|---|
| `TypeCorrect`: `Spec => []TypeOK` | the controller is never ahead of the page, because only `FrameNavigated` moves `known` and only behind `version`; each reference has one editor, because a second binding is an error |
| `SnapshotOfOneDocument`: `Spec => []OneDocument` | while a snapshot is under way its parts may be of several documents, so `OpInv` says only that they lie between the one it began with and the one known now (`Between`); then the comparison at `Retain`, of those two, leaves one. A navigation discards what was kept before |
| `EditorsAreShown`: `Spec => []OnlyWhatIsShown` | `Covered`: from the view on, each retained editor's reference is in the text |
| `ClicksReachOnce`: `TargetsSpec => ClicksOnce` | before the input nothing has reached the target, and in time no event on it stays unseen (`InputIsSeen`); what was seen or told is one click that did (`OneClick`); and the action is prepared once, twice only after its recovery, with a dispatch for each (`PreparedOnce`) |
| `PopupsBelongToTheirControl`: `TargetsSpec => PopupsBelong` | the inputs made follow from the stage (`IsInspecting`), and a popup that is proven by nothing else comes from a stage behind the opener and with a baseline in which nothing was rendered (`ByOpener`); candidates carry new numbers, none of them used (`CandidatesAreFresh`); and an association, however its seven cases fall out, is with rendered surfaces, and by coming alone only after an input (`PopupAssociated`) |
| `SelectionsSelectWhatWasAsked`: `TargetsSpec => SelectsWhatWasAsked` | the page changes at any time, so what a stage relies on is known only as long as it was left alone, a ghost (`quiet`): then what a native write read before is still selected, and the active option of a search is the one asked for. A popup that is known to be closed is the one observed (`IsSelecting`) |

**Commands on a changing page** (`MCPageCommandsProofs`). A behaviour of `MCPageCommands` stays
with its part, which begins and goes on as its module does (`PartsBegin`, `PartsGoOn`); each
part has an inductive invariant of its own, which TLC was given, too. The constants are any:
the bounds natural numbers, `Editors` finite (their matches are counted), at least one element in a
handoff, `None` none of the values it stands beside, and the first documents sequences of
fields whose kinds are given (`FillConstants`, `FileConstants`, `FormConstants`,
`ScrollConstants`, `TabConstants`, `DialogConstants`, `FieldConstants`).

| theorem | argument |
|---|---|
| `FillReachesOneEditor`: `Spec => []FillsOneEditor` | nothing holds the page still, so `FillInv` speaks of the command alone: text reaches its `target` or nothing, the listener heard of it unless the page mutes events (`FillIsSound`), and a target found by role was the only match after the last activation, which a ghost (`unique`) keeps although the page has gone on |
| `SelectionsAreConfirmedAndKnown`: `Spec => []FilesAreWatched` | `SnapshotIsUnused`: before the dispatch the snapshot is there and no selection has used it. `RiskIsKnown`: files entered a document that is not known to hold them only while `setInputFiles` is under way. `InputIsSound`: what the input or the listener holds is the file as it was dispatched, the person's files or nothing, so metadata that match can be of one file only. `QuietIsNoted`: a signal counts as absent only where the page once did not show it |
| `PlansWriteWhatWasPlanned`: `Spec => PlansKeepToTheirForm` | what is rendered anew gets a new node (`Follows`), so a node is what was read of it for good unless the page has reused it since (`KnownAs`), and is never in another document (`OnlyIn`). What the summary captured, the form retains, and the plan tries and writes are nodes of which this is known (`FormInv`): `Retain` drops a summary of another document; a candidate that passed was read to have the planned form, then the planned name and kind (`Trying`); and what a step writes is the captured node or the one match (`Writing`) |
| `ScrollTellsWhatItDid`: `Spec => []ScrollsAreTold` | `ScrollIsSound`: the steps counted are the movements performed, the dispatch is unknown exactly while one is under way, and "no" only before the first; while the element is attached, its document is that of the baseline. A sample without loaders saw none of the kinds it looked through to the end (`ScrollSamples`) |
| `InspectionIsPinnedAndGivenBack`: `Spec => []InspectsAndGivesBack` | versions only grow, and the captured one lies between the pinned one and the page's; past the judgement it is the pinned one, and a renderer that was taken has been restored (`InspectionIsSound`). A restoration that is claimed was proven, on the tab selected before |
| `DialogsGetTheirAnswer`: `Spec => []AnswersOneDialog` | however many dialogs wait, a command has one that is expected (`OneExpected`); the flag of the scope says whether it came (`MarkedIsExpected`); what a success says of its dialogs stays so, since a command that is over gets no more of them (`ExactWhenOver`) |
| `FieldComesBack`: `Spec => []FieldIsGivenBack` | the element that was highlighted is the handoff's as long as it is in its document (`OutlineIsHeld`), no command but a resume runs meanwhile, and what was read of the element at the start differs from what it holds only if it got or lost a value since (`HandoffIsSound`, `CommandIsSound`) |

Three proof attempts failed because a model was wrong where its runs did not look. An adoption of
a lease wrote the process that ran when the lease was linked, where the code writes the
one it had observed; with four workers and three processes that broke
`OnlyOrphansSignalled`, beyond the bounds of the run, and with the code's order it
holds. And the handoff's record was updated in place where the code writes it
from the worker's memory. Both modules now do as the code does. In `PageRisk` it was what the
properties say: with four commands and failed writes `GateHolds` did not hold, as an older
acknowledgement was restored, which is `RiskSurvives` (section 3) and is now told apart from what
the worker knows of; and with three workers `ReplacementTold` asked for documents that had been
recorded in the meantime. The run now has three workers. The proofs of the page's
commands and targets found nothing wrong in their modules; `ControlPopup` got the parentheses
around a `UNION` without which TLC and TLAPS read it differently.

Only model-checked:

- `EveryOperationReturns`, `CloseEnds` and `EverythingEnds`: liveness under fairness. TLAPS reasons
  neither about `ENABLED` nor about the induction such proofs need, so these stay with TLC for good.
- What the four violation runs refute, which is not a theorem.

No module uses a RECURSIVE operator.

## 5. Not modelled

- Profile binding: the launch identity and the profile a running browser names are each
  compared once, with nothing between reading and use; the rest is `StorageContinuity`.
- Execution telemetry and page diagnostics: bounded buffers that are read by
  commands; nothing in the program decides by them.
- Lounge status and history read only; MCP tools, command protocol, configuration
  and browser discovery shape data or ask the operating system, and keep no state.
- Within modelled components: collection of a popup's options, geometry and motion,
  rendered-text search, hover, clocks and expiry times of leases and capabilities, malformed files.
- Code of Playwright, the browser and the operating system is external: it is the
  page's, the browser's and the file's steps of the modules, with the outcomes `src/`
  handles.

## 6. Plan

1. A resumption that is repeated after it failed, in `StorageContinuity` and composed with
   `Handoff`: its readings are then of a browser that is under control already.
2. Geometry of click targets and the motion of a page under them, if a decision
   turns out to depend on more of it than `ClickAction` has.
