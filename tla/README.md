# Integrated Power: TLA+ models and proofs

Integrated Power runs several AI providers on one user's tasks. A *broker*, an
HTTP server on the loopback interface inside the VS Code extension or in a
process of its own, keeps the tasks, delegates them to provider adapters, asks
the user's approval, merges worktrees, and starts the quota timers of the
providers ("prewarm"). This directory holds TLA+ modules of the parts where
several clients, provider answers and restarts meet, the TLC configurations that
check them, and theorems that TLAPS proves: the broker's tasks, the prewarm
arbitration, the start-up of several brokers around one ledger, the hub's todo
list, and the quota settings that the IDE and the desktop share.

Paths below are relative to the repository; `broker.ts` and the other bare names
are in `vscode-extension/src/broker/`.

    tlc -workers 2 -config TaskBroker_delegation.cfg MCTaskBroker.tla
    tlapm TaskBrokerReplay.tla

## Inventory

| Component | State | Operations | Interacts with | What is hard |
|---|---|---|---|---|
| Task broker, `broker.ts`, `protocol.ts` | maps of tasks, approvals, granted actions, three idempotency maps, merge results, active delegations; a promise chain per task, one for merges | create, delegate and its completion, evaluation, evidence, synthesis, request / approve / reject, merge, cancel, classify, replay | ledger, adapters, worktrees; called by the routes of `server.ts`, the hub, the MCP server | every command awaits I/O; answers arrive after cancellations; memory is written before the ledger; restart by replay |
| Event ledger, `ledger.ts`, `keyStore.ts` | an append-only file of encrypted events, JSON lines or SQLCipher, in one of two places; a key per place in the platform's store | create, append, list, migrate; look up and generate a key | broker, start-up | torn lines, migration interrupted, two processes, a key store that does not answer |
| Worktrees, `workspace.ts` | branches and worktrees in git | create, merge, abort, remove | broker | partial merges, names used twice, leftovers after a crash |
| Adapters, `adapters.ts`, `localRunner.ts`, `codexAppServer.ts` | running submissions by task | discover, submit, cancel | broker; provider processes | silence, late answers, one entry per task |
| Prewarm arbitration and scheduler, `server.ts` | `prewarm-arbitration.json`: a claim per policy window, idempotency keys | executePrewarmRequest, scheduler pass | quota settings, token scanner, dispatcher process | file state read before an await and written after it; clients and scheduler race |
| Quota settings, `quotaSettingsStore.ts`, `shared/quota/` | `quota-settings.json`: settings, revision, keys | get, put | prewarm, dashboard, desktop | compare-and-set, keys, two processes |
| Settings in the interfaces, `DashboardController.ts`, `control-center/src/main.js` | VS Code's configuration, the dashboard's copy and flag, the desktop's copy | load, apply, save, menu; poll, edit, roll back | quota settings over HTTP; the user edits all three | answers out of order, applies that overlap, failures with an unknown outcome |
| Notifications, `server.ts`, `shared/quota/notifications.ts` | cooldown state in a file, a queue | POST of a token status | token manager | queue order |
| Hub, `hub/` | todo list, markdown files, playbooks, caches; one controller in the server and one in the MCP server | ingest, clarify, dispatch, sync, overview | broker, files the user edits | index kept over awaits, two sources of truth, two controllers |
| Start-up, `BrokerController.ts`, `control-center/broker-server.js`, `mcp-server.js`, `scripts/standalone-broker.js` | none of its own | probe, migrate, open, listen or attach | ledger, keys, port | several starters, ledger written before the port is won, no lock |
| Token scanner, token manager, `AgyQuotaClient.ts` | cached quotas | poll, parse | provider programs | external formats |
| The rest of the dashboard and desktop, configuration centre, installers, Drive storage | views, files | forms and file work | broker routes | little shared state |

`PROJECT.json` lists them all with what is modelled of each, and the hazards of
the code with the line where each bites.

What makes each component correct, in the order of importance:

1. *Task broker.* One command per revision; late answers never touch a cancelled
   task; retries are recorded once; an approval is decided once and nothing
   gated happens without it; a restart restores what memory said; nobody waits
   for a lock for ever.
2. *Prewarm.* One dispatch of a window at a time; a repeated key dispatches once;
   an automatic dispatch relies on a measurement that knows of the last one;
   Once means once; the user's saved settings survive.
3. *Worktrees.* A merge either completes for all worktrees or can be retried.
4. *Ledger.* What was answered stays readable; a migration can be cut short
   anywhere and resumed; a start that is refused leaves no trace; nobody serves a
   history without the older ones it looks for.
5. *Hub.* No todo is listed twice, and a controller forgets none; what it writes to
   the file is its list; a dispatch is on record in memory and in the JSON file;
   privacy, credit and quota guards hold together.
6. *Settings.* An accepted save changes what its author edited and nothing else; the
   menu shows what is configured; all places agree in the end.

## Modules

| Module | Models |
|---|---|
| `TaskBroker` | the commands of `IntegratedPowerBroker` at the granularity of their awaits |
| `TaskService` | what the broker promises: one atomic step per command |
| `MCTaskBroker` | the calls of each run |
| `TaskBrokerProofs` | proofs: type correctness and mutual exclusion of the task lock |
| `TaskBrokerRevisions` | proofs: revisions increase along the ledger |
| `TaskBrokerReplay` | proofs: memory against the ledger: delegations, revisions, replay, idempotency keys |
| `TaskBrokerService` | `TaskBroker` mapped to `TaskService`, the refinement `ImplementsService` |
| `TaskBrokerServiceProofs` | proofs: approvals, late answers, the refinement |
| `PrewarmArbitration` | `executePrewarmRequest`, the scheduler, the file and the Once reset |
| `MCPrewarmArbitration` | the requests and saves of each run |
| `PrewarmArbitrationProofs` | proofs: types, the claim of a window, Once |
| `LedgerStartup` | the four kinds of hosts, the migration, the ledger's formats, the keys and the port |
| `MCLedgerStartup` | what older versions may have left behind |
| `LedgerStartupProofs` | proofs: all invariants of the start-up |
| `HubTodos` | `HubController` and `TodoMarkdownSync`, two controllers, the user's editor |
| `MCHubTodos` | the quota readings |
| `HubTodosProofs` | proofs: lists, files and dispatches |
| `QuotaSettingsSync` | the dashboard, the store and the desktop, with requests under way |
| `MCQuotaSettingsSync` | the configuration at the start |
| `QuotaSettingsSyncProofs` | proofs: no silent revert, the menu |

### TaskBroker

JavaScript runs a handler without interruption between two awaits, so an action
is the code from one await to the next; `pc[r]` names the await at which request
`r` is suspended:

| `pc` | waiting for | next |
|---|---|---|
| `queued` | the task's lock (`withTaskLock`) | `Delegate`, `Evaluate`, `Record`, `RequestApproval`, `Approve`, `Reject`, `Cancel`, `Merge` |
| `mergeQueued` | the merges before it | `MergeTurn` |
| `workspace` | `git worktree add` | `WorkspaceReady`, `WorkspaceFails` |
| `merging` | `git merge` | `MergeSucceeds`, `MergeConflicts` |
| `listing` | `ledger.list` in `recordEvaluation` | `ProposalsListed` |
| `classifying` | the classifier or its 5 s timeout | `ClassifyEnds` |
| `appending` | the append of `pend[r]` | `LedgerAppends`, `LedgerFails` |
| `appended` | the continuation of that append | `CommitReturns`, `DelegationStarts`, `ProposalRecorded` |
| `submitted` | the provider, outside the lock | `AdapterEnds` |
| `answered`, `failed`, `lateFailed` | the lock, after the provider answered, failed, or after recording the answer failed | `FinishDelegation`, `FailDelegation` |

The lock of a task is the chain `queue[t]`, its holder at the head. `task`,
`approvals`, `approved`, `idem`, `createIdem`, `apprIdem`, `mergeKeys` and
`active` are the class's maps; `ledger` is the file. `durable` is the memory that
`replay` would build from `ledger`, computed event by event with `ReplayEvent`.
`CrashAndRestart` sets the maps to it. `drift` is a history variable: the tasks on
which a handler threw after it had changed memory.

Data are abstracted to what the commands compare. A worktree list is its length.
Payload texts, titles and tags are left out, except `label`: the last
classification, so that an effect without an event shows. Events other than
proposals that change no status are one type, `task.recorded`. An event's id is
the request that wrote it. Calls with a delegation depth above two, or to an
unavailable provider, are refused by the code without a change and left out.
`debate` and `quickDelegate` are sequences of the modelled calls. The adapters
and git are environment: a submission ends with an answer, an error, or never.
`MergeSucceeds` stays possible when a retry follows a partial merge; the state of
git that decides it is left to a module of its own (see the plan).

A client sends the revision the task has when it calls; while the call waits in
the chain that revision grows stale. The approval commands may leave it out
(`Unchecked`).

`EarlyReads = TRUE` lets clients address a task that `GET /v1/tasks` shows before
its `createTask` returned. Their commits then race with the unlocked commit of
`createTask`. The runs keep it FALSE, the clients of the repository use the
answer of `createTask`.

### PrewarmArbitration

A request awaits the token status (`reading`), then runs in one step to its
answer or through its claim to the dispatcher (`dispatching`), then writes its
result. `held[r]` is what the handler keeps in local variables over that second
await: the file's whole content, the settings and their revision. The scheduler
is a slot of its own that visits the armed targets one after the other with one
token status; `poll.left` is the set of those it has yet to visit, in the code's
`Order`. Durations are small numbers in the order the code puts them
(`ManualCooldown` ... `Freshness`). A measurement is the time at which it was made
and whether it allows a prewarm; it may be as old as the cache gives it, or come
without a target. Before its await a pass decides whether to force the scan
(`server.ts:581-593`); a forced scan too may be answered from the status file
(`tokenScanner.ts:298-306`), so `PollMeasured` takes any measurement either way.

Writes of the arbitration file and of the settings are assumed to succeed. When
`writePrewarmState` throws after the dispatcher answered (`server.ts:729`), the
claim stays "dispatching" without an owner, as after a crash, and its window is
refused until it ends; `ClaimHasOwner` does not cover that.

The limits on keys (256 in the file, 128 in the settings), the rate of the
scheduler's polls, the reported time of a measurement being absent, and a second
broker process on the same files are left out. `ResetOnce` takes effect at most once per
window by its key, as `QuotaSettingsStore.put` compares it.

### LedgerStartup

`pc[h]` is the step at which a host's start-up is. A step is what the code does
from one await to the next; checks of files that run in one synchronous stretch
(the existence of both places, and the format behind one of them) are one step:

| `pc` | step | code |
|---|---|---|
| `off` | `Probe` | the health request; the MCP launcher has none |
| `resolve` | `Resolve` | places of the canonical ledger, older ledgers, their keys and histories |
| `destkey`, `readdest`, `append`, `verify` | `DestinationKey` ... `VerifyMigration` | `migrateBrokerLedgers` |
| `key`, `genkey` | `CanonicalKey`, `GenerateKey` | the key without a migration; the key store |
| `open`, `create` | `Open`, `Create` | `createPreferredEventLedger`: the ledger that exists, or a new one, or the fallback |
| `load`, `listen` | `Load`, `Listen` | `initialize`, `startBrokerServer` |
| `serving`, `attached`, `failed` | `Commit`, `Stop` | a broker at work; another's client; a refused start |

The hosts do not look for older ledgers in the same places. The extension looks in
the state root and in its own global storage (`BrokerController.ts:55-58`), the
launchers in the state root and in the product folders that environment variables
name (`canonical-broker-state.js:53-65`), the daemon nowhere. `Looks[h]` are the
places of a host, `Seen(h)` the older ledgers it finds there, `History(h)` the
longest of their histories; what may lie where (`Places`, `Legacies`) is a CONSTANT,
and older ledgers are never written. `Obstacle(h)` is what refuses the start before
anything is written, in the order of the code's checks: a place with two ledgers, a
key that is gone, a format the host cannot read, histories of which none is the
beginning of the other.

A ledger is a format, a key (SQLCipher encrypts the file) or a key per line, and
its records; a key is named after the host that generated it. A record of another
key, a torn line, or one glued to a torn line refuses the whole file, as `list`
does. `Past` are the events that older versions may have recorded. `file` has the
two places of the canonical ledger: `base`, and `fallback` for JSON lines. `Create`
falls back when the native module is missing, and also when a file has appeared at
`base` since `Open` looked, which is what the code's `catch` does for a host with
the module (`ledger.ts:74-75`). One task's events stand for all: an event is its
revision and its author. What `Readable` compares is the key, not the cipher. The
plain key file of old versions and the brokers' versions are left out.

`MigrationResumes` has conditions, each a way in which another host takes part in
the file: it wrote during the migration, a line was torn, a host that looks
elsewhere found a history that diverges, or a host that does not find this one's
history committed before it was there.

### HubTodos

Operations of a controller run without an await but for two in `dispatchTodo`, so a
process is in one at a time; other processes, the user and a crash come between any
two accesses of a file. `Ingest`, `Clarify` and `DispatchEnds` change the list in
memory and save it to hub-todos.json (`Keep`); the alignment with Todo.md that
follows when `autoSyncMarkdown` is on, and that `Sync` and `Overview` begin with, has
three more steps, kept in `job[h]`:

| `job[h].at` | steps | code |
|---|---|---|
| `read` | `Read`, `ReadFails` | the file is read, found missing, or cannot be read: then the list stays as it is and the operation goes on (`todoMarkdownSync.ts:92-101`) |
| `align` | `Align`, `AlignFails` | the list follows the lines that were read; the file is written, or the write throws (`todoMarkdownSync.ts:83, 229`) |
| `save` | `Save` | the second `saveTodos`, and the answer |

`Dispatch`, `Created` (or `BrokerFails`) and `DispatchEnds` are the parts of
`dispatchTodo` around its awaits; a call in `calls` keeps the index and the todo it
read. `Restart` ends a process in any of these steps and loads what the JSON file
has then: the list of the first save, of the second, or a file cut short
(`Unparsable`). A file that another process is writing may look empty. The user
checks a box, moves a line, deletes a line or the whole file (`Edit`), or writes one
(`Write`).

A todo is its block id, its status and the route of its task; a line of Todo.md is
a block id and a box. `Synced` is `TodoMarkdownSync.sync` with its two directions;
`Unlisted` are the todos that the file has no line for. A write to an index beyond
the list leaves holes (`Hole`), which later operations throw on. A vault's Todo.md,
once the user writes one, takes the place of the state root's at the next scan.
Texts are abstracted to what triage says of them: `Vague`, `Private`, `Credit`.
Readings are in hundredths of a per cent, since the code does not round them.

`strayed` is a history variable: a dispatch has written to a place that was not its
todo's alone. From then on duplicates are what the code produces, and `ListedOnce`
says nothing. The overwritten todo comes back with the next alignment if it has a
line in the file; if the user deleted the line, it is lost. `MemoryKeeps` names this
as the one way besides its end in which a controller forgets a todo.

Left out: `customTodoFilePath`, playbooks, edits of titles, lines that the user
copies, and that a todo written without a block id gets one at its first
alignment. A Todo.md torn by a crash or a failing write is empty, not a part of its
lines. A scan and the step that begins the alignment after it are one. The two
controllers' lists are not required to agree: each keeps its own, and its next save
takes the other's changes out of hub-todos.json.

### QuotaSettingsSync

`store`, `local` and `desk` are the three copies, `ide` the dashboard's fields.
`calls` has the operations under way by kind; each is a record whose `at` says what
it waits for:

| `at` | meaning |
|---|---|
| `read`, `reread` | a GET, answered with what the store has then |
| `asked` | a POST that has not reached the store; it carries revision and settings |
| `answered` | its answer, with what the store had then |
| `applying` | the dashboard awaits `config.update`, with the fields left to write |
| `failing` | a load that got no answer, or whose apply was refused, asks for the broker's health; then the dashboard is no longer ready |
| `writing` | the menu's own `config.update` without a broker |

Two settings stand for all: a prewarm mode, which the menu and the broker's Once
reset change too, and a notification. Every `config.update` that changes a value
raises VS Code's event, whose handler runs with the flag `applyingQuotaSettings`
of that moment (`Changed`); `Differing` are the fields an apply has to write. VS Code
may refuse any of these writes. A refused one ends the apply (`ConfigRefused`): the
flag is cleared, the rest stays unwritten at the new revision, a load goes on to
`failing` and a save ends. The menu keeps a mode that was refused (`MenuRefused`).

`hist` is for the properties: which fields a user edited in the dashboard's
configuration (`ide`) or on the desktop (`desk`) and no answer has replaced since;
whether the last applies overlapped or one was cut short (`mixed`); whether VS Code
refused a mode that the menu shows (`refused`); whether the desktop rolled back
(`rolled`). Capabilities of the broker, the 30 s pause after a failed load, the
legacy fallback, a second window and idempotency keys of clients (random, never
repeated) are left out.

## Runs

| Run | Bounds | Shows |
|---|---|---|
| `TaskBroker_delegation` | 1 task, 2 providers, 4 requests all at once, 1 crash | type invariant, `RevisionsIncrease`, `LateAnswersDropped`, `RecordedOnce`, `CompletedAlone`, `MemoryIsReplay` |
| `TaskBroker_approval` | 1 task, an API provider and one that writes code, 5 requests, 3 at once | `ApprovedFirst`, `DecidedOnce`, refinement of `TaskService` |
| `TaskBroker_faults` | 2 tasks, 2 providers, 4 requests, 3 at once, 2 failing operations, 1 crash | `RevisionCountsEvents`, `ActiveCounts`, `RecordedOnce` with keyed creates and records, `MemoryIsReplay` |
| `TaskBroker_live` | 1 task, every kind of call, 3 requests, 1 failure, no symmetry | `LockIsGranted` under `FairSpec`, `ActiveCounts` |
| `TaskBroker_classify` | classification next to locked commands | violates `RevisionsIncrease` |
| `TaskBroker_rejected` | two approval requests, decided differently | violates `RejectedIsFinal` |
| `Prewarm_window` | 1 window, 2 clients, 1 scheduler pass, 1 save, 1 crash, 4 ticks | type invariant, `ClaimExcludes`, `ClaimHasOwner`, `KeyDispatchesOnce`, `MeasuredAfterLast`, `OnceMovesOn`, `ResetKeepsSaves` |
| `Prewarm_claims` | 2 windows, 3 clients | violates `ClaimExcludes` |
| `Prewarm_once` | Once armed twice in one window, 2 scheduler passes | violates `OnceMovesOn` |
| `LedgerStartup_startup` | the extension (without native module), the MCP launcher and the daemon; 3 starts, 2 commands, 1 torn line, 1 failure of the key store; 9 kinds of older ledgers in 3 places | type invariant, `ServesOlderHistory`, `FailsClosed`, `MigrationResumes`, `AckedReadable`, `KeyRefusalHasCause` |
| `HubTodos_hub` | 2 controllers, 2 todos (one vague, private and opted in to credit; one plain), 2 dispatches at a time, 3 operations, 2 edits, failures or restarts, 5 readings, alignment on and off | type invariant, `ListedOnce`, `GuardsHold`, `SyncAgrees`, `MemoryKeeps`, `DispatchRecorded` |
| `QuotaSettings_sync` | 2 values, 2 edits, resets, lost requests or refused writes together, 2 saves of the dashboard's | type invariant, `MenuMatchesConfig`, `NoSilentRevert`, `SettingsConverge` under fairness |

The properties are stated, with the behaviour they are about, above their
definitions. All runs say CHECK_DEADLOCK FALSE: request slots and the clock are
bounded, so the system comes to rest when they are used up.

Why the bounds are enough. A race in the broker is between the holder of a lock, a
command behind it, and an answer that comes late; three requests and a crash make
every pair of those and one more overlap. Two providers tell the last delegation
from the others. Two failures reach the failing append of a handler and the
failing append in its own error path. In the prewarm runs one window and two
clients plus the scheduler give three requests in flight, and four ticks pass
every cooldown. The bounds that are not: a crash in the approval run, and more
than one classification next to a delegation, which the state space does not
allow beside the rest; the theorems below have no bounds.

In the start-up run three starts let two hosts race while a third, or one of them
again, finds what they left; the nine sets of older ledgers are the branches of
`Resolve`, among them histories that only one of two hosts finds, that both find in
part, and that diverge within one host's places or between two hosts'. The desktop's
HTTP launcher takes the extension's steps but for the second look of
`CanonicalKey`, which the MCP launcher takes too.

In the hub run two controllers and two todos are the fewest that can overwrite each
other and change places, and two upsets are what the hardest cases need: a deleted
line and a deleted file while a dispatch waits, or a crash between the two saves and
an edit. The readings lie on both sides of 15 per cent and of those that pass for
fractions. The todo that opts in to credit is private, so the opt-in must not win;
the cascade between the two cloud providers is what `GuardsAlwaysHold` proves beyond
the run.

In the settings run one edit of each interface, or one edit and a failure, meet
every request of the other, and a refused write meets an edit before or after it;
with two edits of one interface, or with more saves, the endless exchange described
below begins, which `MaxSaves` cuts off.

### Where the code and its documents disagree

* `classify`: `classifyTask` commits without the task lock, although the comment at
  `broker.ts:48` and the test at `vscode-extension/scripts/run-broker-tests.js:302`
  speak of every transition. Two events get one revision.
* `rejected`: `approve` does not look at the status. A second pending approval
  sets a rejected task running again, where the life cycle in
  `docs/reference/durable-agent-broker-protocol.ko.md` ends.
* `prewarm_claims`: the arbitration file's content from before the dispatcher is
  written back after it. With two windows in flight the first to end erases the
  claim of the second.
* `prewarm_once`: the reset of Once uses the same key for every dispatch of a
  window; armed again in it, the target stays armed.

Met on the way, without runs of their own:

* The hosts leave each other's older ledgers behind. A launcher that is not told where
  the extension keeps its storage (`canonical-broker-state.js:53-65`) serves, and
  writes, without the older ledger that lies there, although
  `docs/spec/desktop-ide-integration-plan.ko.md:82` says that both places are
  examined. The extension that starts later finds histories that diverge and is
  refused for good. `ServesOlderHistory` is therefore stated of what each host looks
  for; with `Seen(x)` of another host in its place TLC finds the behaviour in a few
  steps.
* `normPct` (`hubController.ts:40`) takes a reading of at most 1 for a fraction, but the
  readings are per cent and not rounded (`AgyQuotaClient.ts:393`): 0.15 to 1 per
  cent pass for 15 to 100, and the provider gets the task that the guard at line 337
  is there to keep from it. `GuardsHold` names these readings (`Grade`).
* Settings that never agree. Two applies of the dashboard's can overlap (a save's
  answer next to a poll's, or two saves') and share the flag
  `applyingQuotaSettings`. The end of the older clears it while the newer one still
  writes (`DashboardController.ts:826`); the newer one's own configuration events
  are then saved to the broker as if a user had made them, and the answer is
  applied again. With `SettingsConverge == <>[]Agreed` and no bound on the saves
  TLC finds a lasso in which a setting flips and the revision grows for ever, after two quick edits or
  one edit by a dashboard that starts with another configuration than the
  broker's. `docs/adr/0003-broker-quota-settings-prewarm.md:24` rejects an
  alternative "because the programs continue to disagree". The property therefore
  excludes behaviours with overlapping applies, and says that nothing else stops
  agreement.
* `NoSilentRevert` has four exceptions, each a behaviour of the code: a menu click
  during an apply sends the old settings at the new revision
  (`DashboardController.ts:1954`); an apply that overlapped another; an apply cut short
  by a refused `config.update`, after which the dashboard stays ready at the new
  revision with the old values of what it had still to write
  (`DashboardController.ts:826-828, 860-865`), so that its next save is accepted and
  undoes another user's edit; and a desktop that rolled a failed edit back to a
  value the broker no longer has (`main.js:2592`). After a conflict the desktop says
  that it applied the broker's settings (`main.js:307`), but
  `applyQuotaSettingsEnvelope` returns early for an answer whose `ok` is false, and
  only the edited field is rolled back.
* A mode that VS Code refused to write is shown by the menu until the next edit or
  apply (`DashboardController.ts:1996-1998`), the exception in `MenuMatchesConfig`.
* A host locked out of its own ledger. Without the native module the ledger is
  created in the fallback place, its key stored under the other place's name
  (`BrokerController.ts:75-80`, `ledger.ts:75`). The next start looks for the key by
  the fallback's name and is refused. `KeyRefusalHasCause` names the case; the
  comment at `ledger.ts:27` speaks of starting without native modules.
* A key store that fails while it is asked looks empty (`keyStore.ts:76`). The daemon
  then replaces the key, and the ledger is unreadable. `AckedReadable` excludes it.
* A torn last line stops every later start, and a running broker's next event is
  glued to it.
* `mcp-server.js` opens the ledger without asking for the port: two brokers append to
  one file from memories that drift apart. A broker that loads before it has the
  port may serve a history its predecessor went on writing.
* In the hub, a second dispatch of a todo in progress makes a second task; a
  `delegate` that throws after `createTask` leaves a task no todo names; a push
  overwrites a tick the user has just made, and brings back a line just deleted; a
  clear todo taken from the file keeps its "?" there (the exception in `SyncAgrees`).
  A dispatch that ends writes to the index it found before it waited
  (`hubController.ts:422`): if the list has changed, another todo is overwritten
  and its own is listed twice (`strayed`). A Todo.md that cannot be read is passed
  over with a success (`todoMarkdownSync.ts:92-101`).

Also, in the prewarm arbitration: a failed dispatch by hand takes the
place of an earlier spawned one in the claim, so the check for a newer
measurement (`server.ts:677`) no longer applies and an automatic dispatch can
follow on an old one. `MeasuredAfterLast` therefore speaks of dispatches that
directly follow each other.

### Fairness

`TaskBroker_live` assumes weak fairness of every step a handler takes by
itself (`HandlerStep`). It includes git and the ledger: git commands run with a
timeout (`workspace.ts`, 10 to 60 s), appends are local file writes, and the
classifier is raced against 5 s. It does not include `AdapterEnds`, `Invoke` or
crashes: a provider may stay silent and clients may never call. A request's
chain of promises runs on, since JavaScript runs every ready continuation.
Weak fairness is enough because the chain of a lock is served in order.

`QuotaSettings_sync` assumes weak fairness of the two polls (timers of the dashboard
and of the desktop that run for ever), of the broker's answer to each kind of
request, and of each kind of continuation. Failures are bounded, not fair: from some
time on requests are answered. Strong fairness is not needed, since nothing but its
own end takes an operation back from where it is ready. The safety runs assume
none.

## Proofs

Every safety property that a passing run checks is also a theorem, for all values
of the constants that satisfy the modules' assumptions: any sets of tasks,
providers, requests, keys, calls, targets, hosts, todos and settings, and any
number of failures, crashes and restarts. What a theorem needs beyond that is in
its statement. Each proof follows the same line: an inductive invariant that says
of every await what the code relies on when it resumes, one lemma per action or
per group of actions that do the same to it, and a theorem that draws the property
from it.

### The task broker

The theorems build on each other; each invariant contains the one before it.

* `TypeCorrect`, `LockExcludes` (`TaskBrokerProofs`), of every behaviour. `TypeOK` alone
  is not inductive, since the handlers rely on what their calls are (`CallOK`: a
  delegation has a provider, an approval an action) and on the chains (`LockOK`:
  who is at an await inside the lock is the head of one chain, and nobody is in a
  chain twice). The invariant is `SafeInv == TypeOK /\ CallOK /\ LockOK`.
* `ActiveAlwaysCounts`, `CompletedIsAlone` (`TaskBrokerReplay`), of every behaviour, with
  classification and early reads. `ActiveInv` counts the delegations at work and
  says that a task being completed has none; every path of `delegate` takes away
  exactly the one it put there.
* `RevisionsAlwaysIncrease` (`TaskBrokerRevisions`), under `Serialized`: no
  classification, and no client addresses a task before `createTask` returned it.
  The run `classify` shows that it fails otherwise. `RevInv` adds to `SafeInv` where
  each request may be (`CallsInv`), that a pending event carries the memory's
  revision plus one until its commit returns (`PendInv`), that no event is above
  its task's revision but for the one just appended (`LedgerInv`), and the same of
  the replayed memory (`TaskInv`), so that a crash keeps it. Mutual exclusion makes
  `PendInv` inductive: only the holder of the lock moves the revision.
* `RevisionsCount`, under `Serialized`: `CountInv` adds that the replayed revision
  is the number of the task's events.
* `MemoryAlwaysReplay`, under `Serialized`: `ReplayInv` says of every await how memory
  and the replayed state of a task differ there. Before a change they are equal;
  between the change and the append, memory is the replayed state with the pending
  event applied (or, in `workspace`, with the participant that
  `prepareDelegation` has entered); after a failed append the task is in
  `drift`, and nothing is claimed of it. One case is of its own: when
  recording `task.completed` fails, memory stays completed until `delegate`'s
  catch has the lock (`Late`). The proof also needs that an approval belongs to
  the call that asked for it (`PendIs`, `ApprovalsInv`).
* `RepetitionsRecordedOnce`, under `Serialized` and `MergeKeysLast`. `KeyInv` says that
  an event which is about to be appended is new: nobody's key is forgotten
  (`KeysKnown`), replay restores it (`KeysReplayed`), and between the lookup and the
  append the lock, or for a creation `createInFlight`, keeps others away
  (`OneCreation`). A merge looks its key up before it waits for its turn; what
  saves the repetition is the revision it expects, which the recorded merge has
  passed. Replay does not rebuild `mergeResults`, so a keyed merge repeated after a
  restart is a new command: `MergeKeysLast` says that the broker does not stop, or
  that clients send no key with a merge.
* `DecisionsOnce`, `ApprovalsFirst`, `LateAnswersAlwaysDropped` and `LedgerRefinesService`
  (`TaskBrokerServiceProofs`), under `Serialized`, of behaviours in which `drift`
  stays empty (`Spec /\ []Undrifted`). The condition is needed: a handler changes
  memory before its append, and when that fails nothing takes the change back. An
  approval that was never recorded then lets a merge through, which is recorded.
  `NoFailureNoDrift` shows that under `Serialized` the condition holds of every
  behaviour without failing I/O, with any number of restarts. `ServiceInv` adds to `ReplayInv` that
  a command between its check and its append still passes that check
  (`GuardInv`), and what the ledger's history says of each status
  (`HistoryInv`).
* `LedgerRefinesService` is the refinement: the replayed state is the state of
  `TaskService` (`Recorded` in `TaskBrokerService`). `LedgerAppends` is the only step
  that changes it, and `GuardInv` gives the guard of the service's command.
  All other steps are stutters.

### The prewarm arbitration

`PrewarmTypes` and `SavesSurvive` hold of every behaviour: what a handler writes
back of the settings is what it read, at the revision it read. `OnceUsedUp` assumes
`NeverRearmed`, that no save arms a target Once again; the run `prewarm_once` shows
why. `WindowClaimExcludes`, `WindowClaimOwned`, `WindowKeyOnce` and `WindowMeasured`
assume `OneWindow`: one reported target and a clock that stays within a bucket, so
that there is one window to claim; the run `prewarm_claims` shows what two do to each
other. Clients, repetitions, scheduler passes and crashes are any. `WindowInv` says
that the request at the dispatcher is the only one, that the file it holds a copy of
has not changed since but by its own claim (`ClaimOwned`), that keys are not lost
when the copy is written back (`KeysKept`), and that the claim on record is of the
last dispatch (`LastClaimed`), which gives the order of measurements
(`MeasuredInTurn`).

### The start-up

All six theorems of `LedgerStartupProofs` hold of every behaviour, for any hosts, any
places they look in and any older ledgers that satisfy `LedgerAssumption`. `ShapeInv`
adds the formats to the types. `PhaseInv` says of each step of a start-up what it
knows: one that migrates has the older history that its host finds, one past the
migration has a ledger that begins with it, and a ledger only grows
(`OlderHistoryServed`). Hosts with other histories may have written to the same
ledger; what a host relies on is only that nothing before the end changes.
`KeyInv`, `CleanInv`, `ResumeInv` and `ClosedInv` are about the key store, the keys of
what was written, migrations cut short, and what refused starts have written; the
last three speak of behaviours that are `Clean`, `Undisturbed` or `Calm`, as their
properties do. For `MigrationsResume` the histories of the hosts that migrate are
compared pair by pair: whoever wrote, the ledger is the beginning of, or goes on
from, the history of the host in question.

### The hub

The theorems of `HubTodosProofs` hold of every behaviour, for any todos, controllers,
opt-ins, settings of `autoSyncMarkdown` and readings to the hundredth of a per cent.
`GuardsAlwaysHold` rests on the lemma `RouteIsGuarded` about the cascade of
providers; its one exception is a reading from 0.15 to 1 per cent. For the others
`HubInv == StateInv /\ CallInv /\ OnceInv /\ RecordInv`. `OnceInv` says that no list,
no file, no saved JSON and no copy of lines that an alignment has read names a todo
twice, until a dispatch strays; it is inductive because an alignment lists what it
read and then what that lacks, whatever happened to the file in between, and
because a dispatch does not stray as long as its place is its todo's alone.
`RecordInv` says of an alignment that a dispatch asked for that its list has the
todo as dispatched, also after the lines have been followed, since a push keeps what
memory says. An operation runs alone in its process, so nobody else touches that
list before it is saved.

### The settings

The theorems of `QuotaSettingsSyncProofs` hold of every behaviour, for any settings
and any number of operations under way. `SyncInv` says that a copy of the store
with its revision is what the store had then (`Fit`), that a write which is not
out of date differs from the store in what its author's user edited (`AskOK`), that
the same holds of the configuration against what the dashboard last synchronised
(`TouchInv`), and that a menu which shows another mode than the configuration is
about to follow, or was refused (`MenuInv`). The exceptions of `NoSilentRevert` are
the four listed above; the proof shows that the model has no others.

### Model-checked only

`LockIsGranted` and `SettingsConverge` are liveness under fairness, which the prover
does not reach; TLC checks them on the runs `TaskBroker_live` and
`QuotaSettings_sync`. The violated properties of the four other runs are, of course,
not theorems. `RevisionsIncrease`, `ClaimExcludes` and `OnceMovesOn` are proved under the
assumption that excludes the violation.

## Plan

In this order:

1. `TaskBroker`, `TaskService`, their runs, `TypeCorrect`,
   `RevisionsAlwaysIncrease` (done); `PrewarmArbitration` and its runs (done).
2. `LedgerStartup`, `HubTodos` with its theorem, `QuotaSettingsSync` (done).
3. Proofs of the safety properties and of the refinement (done). Left: what of
   `DecisionsOnce`, `ApprovalsFirst` and `LateAnswersAlwaysDropped` holds of the tasks
   without `drift` when others have drifted; several quota windows that do not
   overlap, for the theorems under `OneWindow`.
4. `WorktreeMerge`: the branches and worktrees behind `spaces`, with partial
   merges, names used again, and crashes between git and the ledger. Abstract
   promise: a merge takes all of a task's branches into the base or none is lost.
   Composed with the events of `TaskBroker` by its worktree list.
5. `TokenManager.ts`: overlapping forced fetches, of which an older result can replace
   a newer one in the cache; the notification cooldowns; the JSON-RPC client of
   `codexAppServer.ts` as a refinement of the adapter environment.

## Not modelled

User interfaces beyond their settings, the configuration centre, installers, text
classification, parsing of provider output, rendering, playbooks and copies to
external storage: there, no state is shared between concurrent operations, or the
code is a form over files or a parser of formats that other programs define. They
are most of the repository's lines, so the share of lines the modules cover stays
small; what they cover is where processes, users and answers meet.
