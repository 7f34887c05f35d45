# Formal models of DevOps Captain

TLA+ specifications, TLC configurations and TLAPS proofs for the parts of
DevOps Captain whose correctness depends on the order in which processes,
threads, requests and failures meet: transfer tasks and dump imports of the
database manager, bulk execution, security scans, terminals and file transfers
over SSH, sessions and administration, hosts and the application market. Source
paths below are relative to `src/backend/` unless they begin with another
directory of the repository.

Contents: 1 inventory, 2 plan, 3 the modules and the code, 4 what the runs
check, 5 bounds, 6 fairness, 7 proofs, 8 divergences found, 9 what is not
modelled.

## 1. Inventory

The program is a Django/Channels backend (`backend/`), a Vue front end
(`frontend/`) and a prebuilt monitoring agent. It is deployed as one backend
process (daphne, `deploy/backend-entrypoint.sh:22`, one replica) and one
transfer worker process (`deploy/docker-compose.yaml`, `restart:
unless-stopped`; README.md:141); both share the application database and
`DATABASE_TRANSFER_DIR`. Request handlers run in threads: two requests may be
anywhere in their handlers at once, and almost none of them is one transaction.

| component | state | operations | hard behaviour |
| --- | --- | --- | --- |
| Database transfer tasks (`database_management/transfers.py`, worker command) | `DatabaseTransferTask` rows; chunk, input and output files | init, chunk and direct upload, complete, confirm, cancel, retry, delete, download; worker: expire, sweep, claim, run | handlers read a row, work for seconds and save fields over whatever it is by then; crash in mid-run; timeouts; expiry; two workers |
| SQL dump import (`mysql_dump.py`) | target tables, the session's transaction, checkpoints in the row | import per table: drop, create, delete, batches, commit, checkpoint | DDL commits implicitly; partial failure; cancel between commit and checkpoint; retries from old checkpoints |
| Database requests (`adapters.py`, `advanced.py`, `object_operations.py`, `table_imports.py`) | one server session per request | row changes, a statement, an object operation, clear, rows import | autocommit, DDL that commits, policy edited in mid-request, a lost commit |
| Connection catalogue (`catalog.py`, `application_keys.py`) | directories, connections, application keys | create, move, copy, delete, manifest import | look, then store; nothing in the database keeps a tree a tree |
| Redis keys (`advanced.py`) | keys of the server | view, replace, store back, expire, export, import | each command on its own, another client beside |
| Bulk execution (`bulk_execution/`) | task, result and transfer item rows; a thread per task, a pool of jobs | create, cancel, detail, list, delete; per host: command or upload | requests, runner and pool write the same rows; restart mark; deletion under a running thread |
| Security scanner (`security_scanner/`) | scan task, target results, findings; a thread per scan | create, cancel, retry failed, delete, list | retry beside a running scan; restart mark; counts |
| SSH and SFTP client pools (`web_terminal/services/connections.py`) | idle and borrowed clients per host and login | borrow, log in, persist, return, expire | limits, overlap, a host edited during a handshake |
| Terminals (`web_terminal/consumers/`, `services/commands.py`, `services/audit.py`) | websocket, shell, reader thread, session and audit rows, recordings | connect, input, output, idle close, disconnect, command requests | two threads write one audit; several closers; text cut anywhere |
| File transfers and saves (`web_terminal/services/file_operations.py`, `files.py`) | remote files, stages, backups | staged copy and move, save of an edited file, uploads | any call fails or its answer is lost; other writers |
| Host readings (`monitoring.py`, `containers.py`) | nothing kept | sample, parse, container logs | limits, counters that restart, races at exit |
| Sessions and second factor (`accounts/`) | session rows, profile, cookie | login steps, lock, unlock, expiry, logout; enable, confirm, reset | a request stores the session it read at its start |
| Administration and logs (`system_management/`) | users, roles, permissions, settings, logs | edits, role assignment, built-in account, cleanup, operation log | whole rows saved over newer ones; cleanup beside terminals |
| Hosts and groups (`host_management/`) | hosts, credentials, group tree | create, edit, probe, import, export; move, rename, delete | verdict of a probe on an edited row; moves that overlap |
| Application market (`application_market/`) | definitions, sources, tasks, installations; a thread per task | preview, run, cancel, sync | what was confirmed against what runs; unknown outcomes |
| Dashboard, company assets, passwords, authenticators, network tools | rows | record keeping | single transactions |
| Monitoring agent | | installer, binaries | no source |
| Browser front end | | sends the calls above | its busy flags are an assumption here |

How they interact: the worker and the backend meet only in task rows and in
the transfer directory. A request never calls the worker; it writes a row
that the worker's poll finds. Bulk execution, the scanner and the market start
daemon threads in the backend process, which meet the requests in their rows
and die with the process. File operations, bulk jobs, scans and readings log
in to hosts through one module; file operations borrow their clients from its
pool. Terminals write the sessions and audits that the cleanup removes.

What makes each component correct:

- transfer tasks: nothing runs twice, unconfirmed, or after a cancellation
  that was acknowledged; one executor per row; what is shown as finished has
  stopped; every active row ends;
- dump import: a table is imported whole or not at all, a checkpoint is never a
  lie, lost structures are announced;
- database requests: an answer is true, a read-only policy stops what was not
  checked yet; catalogue: a tree of distinct names; Redis: what was replaced,
  exported and imported is what the answer says;
- bulk execution and scanner: cancellation stops what has not begun, completed
  means done on every host, nothing stays open, every task ends if its commands
  do, one scanner per target;
- pool: a client has one borrower and its login, few are idle, what is lost is
  known;
- terminals: recordings and audits are whole and in order, ends are final and
  shut everything down, text is understood however it is cut;
- files: nothing is lost midway, a save replaces the version it was based on,
  somebody else's file is not overwritten unseen;
- accounts: a lock holds, a logout is final, a factor that is on can be shown;
- administration: roles as asked, an administrator in charge, a change logged at
  most once, audits that a pass has seen kept for their own days;
- hosts, groups, market: rows say what was found, asked for, confirmed and done.

`PROJECT.json` lists the hazards behind these, each at its line.

## 2. Plan

| order | module | content | status |
| --- | --- | --- | --- |
| 1 | `TransferTask`, `TransferPromise` | life of a transfer task, refined from the promise to its user | checked, proved |
| 2 | `BulkExecution` | threads, pool and requests of bulk tasks | checked, proved |
| 3 | `DumpImport` | statements and checkpoints of an import | checked, proved |
| 4 | `ScanTask` | scan threads, retry of failed targets, restart mark | checked, proved |
| 5 | `SshPool` | borrow, login, return, expiry, limit | checked, proved |
| 6 | `SshTerminal`, `HttpTerminal`, `RemoteDesktop` | the terminals | checked, proved |
| 7 | `FileTransfer`, `RemoteFile` | copies, moves, saves of remote files | checked, proved |
| 8 | `TerminalText`, `HostReadings` | texts in pieces, readings | checked (recursive operators) |
| 9 | `Login`, `SecondFactor` | sessions, lock, factor | checked, proved |
| 10 | `Administration`, `Retention`, `OperationAudit` | users and roles, cleanup, log | checked, proved |
| 11 | `DatabaseSession`, `ConnectionCatalog`, `RedisKeys` | databases | checked, proved |
| 12 | `Hosts`, `HostGroups`, `ApplicationMarket`, `MarketSources` | hosts and the market | checked, proved |
| 13 | `WebTerminal`, `Stores`, `Portal`, `Assets` | components side by side | checked, proved |

Proved means the safety properties; liveness is checked only (section 7).

Composition: `TransferTask` has the execution of an import as one step,
`DumpImport` is that step opened up, with the rows of `TransferTask` reduced
to the tries of one file. `WebTerminal`, `Stores`, `Portal` and `Assets` put
components that share no state side by side: their specifications are the
conjunctions of those of the parts (`AssetsSpec == HostsSpec /\ GroupsSpec /\
...`), so that theorems of a part hold in every interleaving with the others.
The modules `MCWebTerminal`, `MCStores` and `MCPortal` (which has both `Portal`
and `Assets`) add a variable `part`: a behaviour that TLC explores is about the one
component it names, so that a run has the sum of their state spaces and not the
product. Where components do meet, the meeting is part of a module: the logins
that `SshPool` stores into a host, the audits that terminals write and the
hosts that are deleted beside the cleanup in `Retention`, the recordings and the
rows removed under `RemoteDesktop`, the connections deleted under `TransferTask`.

Open: `TransferPromise`-like abstract specifications for a pool of exclusive
resources and for "a batch of independent parts", which `BulkExecution` and
`ScanTask` both implement; the phases of `DumpImport` as a refinement of one row
of `TransferTask`.

## 3. The modules and the code

### TransferTask

State: `task` (status, the stages that conditions look at, kind, cancel flag,
whether a preview and an input path are set, whether the timeout and the
retention have passed), `file` (chunks, input, output), `worker` (where each
process is in its loop, the row it holds, the rows a sweep has read), `req`
(API requests in flight that have read a row and not written it yet),
`connections`, `crashes`, and a history `ledger` (confirmed, cancellation
acknowledged, executions begun).

A save writes the fields it names over whatever the row holds by then. So a
handler that reads, works and writes is two or more actions with `req` in
between: `CompleteUpload` / `MergeChunks` / `SaveValidating` /
`SaveInspectionQueued`, `Confirm` / `QueueConfirmed`, `Retry` / `CopyInput` /
`SaveCopiedPath`, `DirectUpload` / `FinishDirectUpload`. `Cancel` and `Claim` are
conditional updates on status and stage and are single actions
(`request_task_cancellation` loops until its update hits; `claim_one` selects
and updates, the loser of a race returning without a row, which is the same
as not having polled). `task_delete`, `preview` and `execute` of table
operations are single statements or hold a row lock.

The worker: `ReadExpired` / `ExpireOne` / `RemoveOldChunks`
(`cleanup_expired`), `StartPoll` / `FailLegacy` / `ReadStale` / `FailStale` /
`Claim` (`claim_one`), then `Inspect` / `SavePreview` or `PassGate` /
`LastProgress` / `Finish` (`run_task`), with `Interrupted` and `Fault` as its
exceptions and `SaveFailure` as the two handlers of `execute_claimed`. The gate
does not count what a Redis import would write and passes it as a small one. A save
of a deleted row raises, as it does in Django, and in `execute_claimed` that
ends the process. `Crash` and `Restart` are the kill and the supervisor.
`ClearConnections` is the command `clear_database_connections`.

`TransferPromise` is what the user was told, without any of this: a task is
absent, pending, approved, revoked or started; it starts at most once and
only when approved. `TaskPhase` maps a row and its history to it; the run and
the theorem `PromiseKept` show that `TransferTask` implements it.

`SerialRequests` says that at most one request at a time works on a row. It is
what the browser does, not what the API enforces: `DatabaseImportProgress.vue:36-40`
disables its buttons while a call is in flight, and
`DatabaseTransferCenter.vue:104-119` sends chunks one after the other. With it
FALSE, two confirmations can overlap (section 8).

### DumpImport

State: what the target has committed (`db`) and what the session of the
import sees (`tx`), per table: does it exist, does it hold its previous rows,
how often does it hold each batch of the file; the tries (`tries`: status,
`completedTables`, `ddlMayBeCommitted`, cancel flag); where `import_dump` is.
The user's choices (policy, `continueOnError`), which tables the file defines
and which existed are picked in `Init`.

One action per statement that can be separated by a failure: `BeginTable`
(branch, and the `DELETE` of an overwrite without structure), `Announce` (the
save of `ddlMayBeCommitted`), `DropTable`, `CreateTable`, `InsertBatch`
(`flush_batch`), `Commit`, `Report` (raises on cancellation, after the commit),
`SaveTable` (the checkpoint). `GiveUpTable` is the `except` block, `Stop` its
re-raise for cancellation, permissions and resources, `LoseConnection` a broken
connection whose last statement may or may not have been carried out, `Finish`
the end with or without failures, `Crash` a dead worker (the server rolls
back; the row waits for `TimeOut`). `Retry` copies the checkpoints.

MySQL is external: DDL commits whatever is open, tables of a non-transactional
engine are written through, a rollback returns to the committed content. One
worker executes, so tries never overlap. Any failed try may be retried, as the
API allows: `line` of a try is the try it repeats with those that one repeats, and
the history `redone` holds the tables begun by a try of one line that the
checkpoint of another line calls completed, as long as no try has completed them
again.

### BulkExecution

State: rows (`task`, `result`, `item`), the runner thread and its pool jobs
(`runner`, `job`), requests in flight (`view`), `checked` (the per-process flag
of the restart mark), and the history `effect` and `late` (where the command
or file took effect, and how many effects began after the cancellation was
saved).

`Create`; runner: `Start`, `Open`, `OpenFile`, `Submit`, `Reap`, `DropPending`,
`PoolDone`, `Aggregate`, `Judge`, `Close`; job: `Check`, `Begin`, `Execute`, `SaveJob`;
requests: `Cancel` / `SkipResults` / `SaveCanceled` / `SaveFlag`, `Detail` /
`SaveCounts`, `List` / `MarkTasks` / `MarkResults`, `Delete`; `RemoveHost`
deletes a host under a task; `Restart` is a stop and start of the process.
`Execute` is not fair: nothing in the code bounds how long a command writes.
Both kinds of task are here, a shell command (one effect per host) and an
upload (one pool per file). Counters that jobs refresh are one step, as the
runner's last refresh comes after all of them; those of a request are two. A
command with a non-zero exit code and no output on stderr counts as success,
as the tests of the repository say, so a job is only `won` or `lost`.

### ScanTask

State: `scan` and `target` rows, `thread` (the copies a scan thread works on),
`scanView` (requests that have read a task or its failed targets and not written
them yet), `marked` (the per-process flag of the restart mark), `gone` (targets
whose host was deleted), and the histories `raced` and `overlapped`. A thread
takes its targets in the order of their ids: `GetTask` / `OpenTask` /
`FetchTargets`, per target `SkipTarget` or `BeginTarget` / `Collect` / `SaveTarget` /
`CountTask`, then `JudgeTask` / `FinalTaskStatus` / `LastCount` / `CloseTask`;
`LoseTask` ends a thread whose task was deleted. Requests: `CreateScan`,
`CancelScan` / `SaveCancel`, `DeleteScan`, `MarkInterrupted`, and the retry in the
five commands it consists of: `RetryFailed` lists the failed targets,
`ClearFindings` deletes their findings, `ResetTargets` makes the listed ones pending
whatever they are by then, `QueueRetry` saves the task and `StartRetry` starts a
thread, also beside another; `RetryLosesTask` is a task deleted in between.
`overlapped` says that a retry was begun while another was between its list and
its reset. `HostDeleted` and `ServerRestart` come from outside.

### SshPool

State: the host's login, the logins the machine accepts, open connections, the
two pools (plain clients, SFTP sessions) by login, and the requests that
borrow. `Borrow` / `TakePooled` / `SweepExpired` take an idle client or go on to
`ConnectWith` / `ConnectFails` / `ConnectUnreachable` with the host's login and
then the stored credentials; `Persist` saves the login that worked;
`Return` / `TrimPool` or `Discard` end the use. `Abandon` is the end of a generator
that nobody reads any more: `except Exception` does not see it, and the client is
neither returned nor closed (history `lost`, which also has the client of a host
deleted while its login was stored). `Drop`, `PoolAges`, `EditHost` and `DeleteHost`
are the world around it. The lock of the pool makes `TakePooled`
and `Return` single steps; what they leave is closed after the lock.

### SshTerminal, HttpTerminal, RemoteDesktop, TerminalText

`SshTerminal` is one websocket terminal: the consumer's handlers, run one after
the other, and the reader thread. Outputs and commands are numbered; the
flush of a command's output is three steps (`Flush`, `SaveOutput`,
`ResetOutput`), from the handler that starts the next command and from the
reader (`RecordOutput`, `SaveByReader`, `ResetByReader`). Ends: `NoticeEnd`
(login expired, channel ended), `IdleTimeout`, `BrowserLeaves`, then
`Disconnect` / `JoinReader` / `CloseSession`.

`HttpTerminal` is the terminal over single requests of `services/commands.py`:
`OpenShell` / `StoreSession`, and per command `StartCommand` / `Take` /
`SendToShell` / `ReadFromShell`, then the two commits `AuditCommand` and
`StoreCommand`, each of which may fail (`StoreFails`), with a shell that
answers when it likes.

`RemoteDesktop` is the consumer of `consumers/rdp.py` with its reader, guacd, the
session row, the command that removes recordings past their days, and the
deletion of the host, which takes the row and leaves the file (`DeleteDesk`): a
save of the deleted row then raises (`SaveDeskFails`, `SaveIncompleteFails`).

`TerminalText` is the pure part: markers of the working directory
(`StripMarkers`, `FilterChanged`), Guacamole instructions (`InstructionEnd`,
`SplitInstructions`, `ParseElements`), typed lines (`TypeKeys`) and the
recognition of full-screen programs behind wrappers (`CommandWord`). Text
arrives piece by piece; the reference is the whole text. What guacd sends are bytes
(`Bytes`), each piece is decoded by itself (`Decode`), and the halves of a character
cut by a piece become replacement characters; `textCut` remembers it.

### FileTransfer, RemoteFile, HostReadings

`FileTransfer` is `staged_transfer` call by call, each of which succeeds, fails,
or loses its answer with or without its effect: `CheckTransfer`,
`MakeTransaction`, `StageTarget` / `StageSource`, `HoldSource` / `BackupTarget` /
`Publish`, the rollback `UndoPublish` and its followers, `Scrap` / `DropHeld` /
`CleanTransaction`, with `Meddle` as another writer.

`RemoteFile` is the save of an edited file over SSH (`StageEdit`, `WriteEdit`,
`CheckSize`, `CheckHash`, `Replace`), and uploads that go from SFTP to a shell
stream to SCP (`NextProtocol`); two savers at a time. After a failure or a conflict
the removal of the staging file is sent and not waited for, so the file may stay.

`HostReadings` has the log reader of containers and, as functions over small
samples, CPU, memory, swap, rates and remote paths.

### Login, SecondFactor

`Login`: session rows, the browser's cookie, requests that work on a copy of
their row and store the whole of it (`SaveSession`), the expiry rewrite of all
sessions (`RefreshRead` and its save). Django's session store is external.
`SecondFactor`: one profile, login, profile page and administrator, each a
read and a save of named fields.

### Administration, Retention, OperationAudit

`Administration`: `role_users` user by user (`RolesAfter`), edits that store a
whole row and then the roles, deletion, the built-in administrator and the
permissions made in steps of their own (`EnsureAdmin` ... `InheritFor`). A role is
saved in two commits, its name (`SaveRole`) and its permissions (`SetPermissions`).
`Retention`: a pass of the cleanup kind by kind; `CollectSessions` looks for
sessions without audits and recordings, `DeleteSessions` deletes those it found with
the audits they have by then (the foreign key of an audit cascades in Django's
collector); terminals, settings and `DeleteHost`, which cascades too, beside.
`OperationAudit`: the view (`View`: refused, nothing to do, done, or failed with or
without a part stored), its own log and the middleware.

### DatabaseSession, ConnectionCatalog, RedisKeys

`DatabaseSession`: a request loads its connection, checks the policy before
each statement (`CheckStatement`), executes, commits (`Commit`) or rolls back
(`RollBack`) and then stores the log (`Answer` / `LogFails`: an error over
committed data), while the policy is edited; kinds of server differ in what is
final at once, and the kinds of tables in what a rollback takes back (`firm`).
`ConnectionCatalog`: every request is what it looks at
(`LooksAtFolder`, `LooksAtAsset`, `KeyValid`) and what it stores. `RedisKeys`: one
action per command; after the last write the type is asked again and the log
written (`LogWrite`), and either may fail. A type that is not read (`Unread`) is
exported without its value.

### Hosts, HostGroups, ApplicationMarket, MarketSources

`Hosts`: rows of hosts, requests that read, talk to the machine and store; the
import by name and group (`Matches`). `HostGroups`: the tree, a move that
stores, reads its siblings and renumbers them (`InsertIndex`). `ApplicationMarket`:
a plan shown by its digest (`DigestMatches`), the thread that runs it, cancel
and restart. A command is a chain of shell commands: when it fails, its first part
may have happened (`HalfDone`); when it succeeds, the row of the installation may
still not be stored (`RecordFails`). `MarketSources`: the sync of catalogues with its cache.


## 4. What the runs check

| run | instance | shows |
| --- | --- | --- |
| `transfer_two_workers` | 2 workers, 2 rows (a task and its retry), 1 request, 1 crash, both deadlines, every kind of task; symmetry of the workers | `OneRunner`: no two workers hold a row. `KeepsPromise`: the refinement, also across the copy of a row and its file. `TypeOK` |
| `transfer_one_worker` | the deployed single worker, a row of any kind or one of an older release, 1 crash, fairness | `FinishedHolds`: a finished row is not being executed, so deleting or retrying it is safe, and its download is there. `ConnectionsOutliveTransfers`. `Settles`: no row stays active for ever |
| `dump_retries` | 2 tables (the second non-transactional), 2 batches, 3 tries, each a retry of any failed one, 1 crash; 6 800 000 states | `AllOrNothing`, `LossIsAnnounced`, `CheckpointsHold`, `TypeOK` |
| `bulk_safety` | 2 hosts, 2 files, 2 jobs at a time, all requests but detail, 1 restart; 830 000 (symmetry) | `StopsAfterCurrent`: after the cancellation at most as many effects begin as jobs were under way. `CompletedMeansDone`. `NothingLeftOpen`. `TypeOK` |
| `bulk_settles` | 2 hosts, 2 files, 1 job at a time, no restart; 240 000 | `Settles`: if commands end, no order of exceptions, cancellations and deletions leaves the runner waiting |
| `scan_threads` | a scan of 2 targets, 2 threads, 2 requests at a time, 2 retries, 1 restart, a deleted host; 550 000 | `OneScannerPerTarget`, `FindingsOfOneScan`, `CompletedMeansScanned`, `ScanSettles`, `ScanTypeOK` |
| `web_terminal` | parts `terminal`, `desktop`, `http`, `files`, `saves`, `readings`, `text`; 450 000 | see the bundles below |
| `portal_access` | parts `login`, `factor`, `admin`, `retention`, `audit`, `hosts`, `groups`, `market`, `sources`; 1 400 000 | see below |
| `stores` | parts `database`, `catalog`, `redis`, `pool`; 1 400 000 | see below |

The last three runs hold several components that share no state
(`MCWebTerminal`, `MCPortal`, `MCStores`): the variable `part` names the one a
behaviour is about, the others rest. One name of a configuration then stands for
the properties of several parts:

| bundle | properties of the components |
| --- | --- |
| `RecordingsHold` | `TranscriptComplete`, `OutputAuditedInOrder` (SSH terminal); `RecordingFindable` (remote desktop): a recording on disk can be found from its row as long as there is a row |
| `OneAfterAnother` | HTTP terminal: of commands sent one after another and answered in time an audit has its own command's output, what was answered is in the transcript, and what is there is audited, whichever of the two commits fails |
| `EndsAreFinal` | `DeskErrorStays`: the disconnect after an error does not turn it into a normal end. `ExitIsFinal`: after `exit` no request opens the session again |
| `TerminalsShutDown` | `TerminalShutsDown`, `DeskShutsDown`: once the browser has left or the login has ended, channel, reader and row end |
| `TransfersHold` | `NothingLostMidway`, `OutcomeIsTrue` of copies and moves, also when the rollback runs |
| `SavesAreHonest` | `SaveReplacesBaseline`, `AnswerIsTrue`, `TornOnlyByFallback` of saves and uploads |
| `FilesKept` | `LateTargetSurvives`, `MissingOnlyByUpload`: somebody else's file |
| `TextsUnderstood` | `PiecesDoNotMatter`, `InstructionsWhole`, `WrappersTransparent`; `LogsHonest`, `FiguresInRange`, `ParentUndoesJoin` |
| `AccessHolds` | `LockHolds`, `LogoutIsFinal`, `FactorUsable` |
| `RolesHold` | `RolesAsAsked` of assignments that ended well and were alone, `AdminInCharge`, `ActionsInherited` |
| `LogsHold` | `LoggedOnce`: a request that did what was asked has one log, or it could not be stored, and what was refused or failed has none; `PassCleans`: a pass of the cleanup that ended well has removed what had to go when it began |
| `AuditsOutliveSessions` | a pass removes an audit only for its own days, never with its session, but if it was written after the pass had looked at the session |
| `AssetsHold` | `StatusAgrees`, `VerdictOfLogin`, `HostsRestored`; `GroupsShown`, `MovedAsAsked`, `PathsFindGroups`; `ConfirmedRuns`, `CancelHeeded`, `OutcomeTold`, `InstalledTrue`; `DefinitionsFollow`; the type invariants of the four parts |
| `DatabaseHonest` | `AnsweredTruly`: success means all of it, an error all of it (only the log failed) or nothing but what no rollback takes back; `ReadOnlyStops`: at most one statement goes out after each closing of the policy |
| `CatalogHolds` | `TreeHolds`, `NamesDistinct`, `KeyGivesUser` |
| `RedisHonest` | `ReplacedAsSaid`: after an error the old value, none, or all of the new one; `ExportIsWhole`, `ImportRestores` |
| `PoolHolds` | `ExclusiveUse`, `UsesOwnLogin`, `NoConnectionLost` but by the two ways out in `lost`, `IdleWithinLimit` |

Three more runs end in a violation, see section 8. Every property has a mutant
in `PROJECT.json`, a definition changed the way a slip in the code would change
it (a dropped guard, a write to the wrong row, a missing rollback), under which
TLC finds the property violated; a bundle has one for each property it stands
for. The mutants are the definitions marked "Mutant" in the modules.

Several properties carry a condition: `raced`, `unsure`, `touched`, `webFate` and
the like are history variables that say what else happened. They are there
because without it the code does not keep the property (a request overwrote a
newer row, two commands overlapped), and section 8 names what lies behind
each. The condition is as narrow as the code allows: it names the pair of
requests, the row, or the lost answer, and everything else is checked.

What the properties mean for the code, where it is not obvious:

- `OneRunner` holds although nothing locks a row during execution: the only
  door is the conditional update of `claim_one`, and no other handler makes a
  held row claimable again, provided requests on a row are serial.
- `AllOrNothing` rests on the rollback in `import_dump`'s `except` block: with
  `continueOnError` a table given up half-way would be committed by the next
  table's DDL.
- `LossIsAnnounced`: `ddlMayBeCommitted` is set before each DDL statement and is
  cleared only by the completion of a table while no earlier table failed.
- `CheckpointsHold`: a retry neither repeats nor disturbs a completed table,
  and a try that succeeds has imported the others. A table committed but not yet
  checkpointed when a try is cancelled is imported again by the retry, under
  append with its rows doubled; the program says so (transfers.py:534 asks for
  a second confirmation). Excepted are the tables in `redone`: when a try of another
  line has begun such a table anew and failed, its checkpoint in the newer line is
  stale.
- `Settles` of bulk execution says: if no command runs on for ever (`CommandsEnd`).
  The timeout of a command (services.py:642-646) bounds how long a read waits for
  output, not how long the command writes, and none bounds the wait for its exit
  status.
- `OneScannerPerTarget` holds without a lock as long as one retry at a time is
  between its list of failed targets and its reset of them: a listed target has
  been left for good by the thread that failed it, and no thread takes it before
  it is pending again. Two retries that overlap there list the same targets, and
  the second reset may hit a target a thread is at; `overlapped` excepts the task
  from then on.
- `CompletedMeansScanned`: the verdict of a scan comes from two queries and a
  count taken before the save. It is right because only the task's own thread
  and retries write targets, and a retry sets the task `queued` again.
- `PoolHolds` needs the lock only for taking and returning; what closes a client
  works on clients that no list holds any more.
- `AuditsOutliveSessions` holds because a session picked for deletion had no
  audit when the pass looked. An audit written between the look and the deletion
  goes with the session: Django deletes what refers to a row. Each pass picks from
  what it looked at in that pass, so an audit that was there is never lost this way.
- `InstalledTrue` excepts, by the history `tale`, tasks that overlapped, failed half
  way, or could not be recorded, and machines that changed; everything else, in
  particular the order of command, row and status, is checked.
- `LoggedOnce` does not promise a log for what was stored before a view failed: the
  middleware logs successful answers.

## 5. Bounds

One row shows every race between handlers of that row; two are needed for a
retry. Two workers are enough for exclusivity, whose violation involves two.
One crash suffices because `Crash` is possible in every state of the worker,
and a second one finds the state the first one left. Deadlines are booleans
that may pass at any time. Two tables give a table before and a table after
the failing one; two batches a middle of a table; three tries a retry of a
retry. Two hosts, two jobs and two files give a host that has begun, one
waiting, a file after a failed one. Two targets and two threads give a scan
with a retry beside it.

Bounds that leave something out:

- `Narrowed` (`transfer_two_workers`): with two rows in use TLC follows only the
  states in which both are dump imports, no worker holds a row, there was no
  crash and no deadline, and the connections exist. What two rows add is
  the copy made by `Retry`; the executions are those of one row, and the theorem
  has no such bound. The symmetry exchanges the two workers, and the run has no
  liveness property.
- `Narrowed` (`scan_threads`): a second retry is followed only where nobody cancels,
  no host is deleted and the process is not stopped, a deleted host only where
  nobody cancels or stops, and a task whose retries overlapped not at all, since
  the properties promise nothing of it. Every pair of these is in the run but the
  ones with a second retry; the theorems have no such bound.
- `MaxTries = 3` (`DumpImport`): the exception `redone` of `CheckpointsHold` needs four
  tries to matter (a try, its retry that completes a table, a retry of the first that
  redoes the table and fails, a retry of the second); the theorem covers them.
- `MaxPasses = 1`, `LastDay = 2` (`Retention`): one pass among terminals of three
  days. `LastUser = 1` (`Administration`): one user beside the built-in one.
- `stores` begins the pool with a host of one login and a machine that accepts
  the stored credential and perhaps that login; both change later.
- `portal_access` begins with one or two hosts and none or three groups,
  chosen so that equal names and nested groups are there at the start.
- `TerminalText`, `HostReadings`: every text up to the given length over an
  alphabet with one letter for each kind of character the code tells apart.

The bounds on rows, tries, retries and crashes appear as guards (`MaxTasks`,
`MaxTries`, `MaxRetries`, `MaxCrashes`, `Tasks`) and stop the model, and
terminals, copies and requests end, so deadlock is reported only for the runs of
`TransferTask`. What is proved in section 7 does not depend on bounds.

## 6. Fairness

`TransferTask`: weak fairness of each worker's loop and of `Restart`
(`restart: unless-stopped`), strong fairness of `ReadExpired` (the loop runs it
once a minute whatever else there is to do,
`run_database_transfer_worker.py:20-22`), weak fairness of the two deadlines
(time passes; 86 400 s and 7 days by default). Nothing is assumed of users
and requests: a browser may vanish at any step. `RemoveOldChunks` is not fair:
removing files is finite and no progress of a row.

`BulkExecution`: weak fairness of the runner and of each job while the process
lives, but not of `Execute`: that commands end is the premise of `Settles`
(`CommandsEnd`), not an assumption of the specification. Nothing of requests.

`ScanTask`: weak fairness of each thread while the process lives, and of a retry
request that has listed the failed targets: its handler makes four more database
calls and starts the thread. What a scan runs on a host is a fixed list of queries
(package lists, settings; services.py:281-372) whose output ends, and a read is given
up after 30 seconds of silence (commands.py:81).
`ScanSettles` excepts tasks that met a restart or a stale save, which the code
does leave open (section 8).

`SshTerminal`: weak fairness of the consumer's handlers and of the reader
thread, strong fairness of `NoticeEnd`: the heartbeat runs every few seconds
whatever the terminal does, and its check may be overtaken by output each
time. `RemoteDesktop`: weak fairness of handlers and reader. Nothing is assumed
of shells, machines and browsers.

The other modules have no liveness property: their requests end by themselves,
or wait for somebody.

## 7. Proofs

The theorems hold for all values of the constants, under the assumptions named
in the modules (types of the constants; TLC evaluates them in every run). All
follow one pattern: an inductive invariant as a conjunction of named parts,
one lemma for each way the code writes a row or moves a thread, one for each
action, and the theorem by the temporal rule. The named parts were checked by
TLC on the instances of section 4 before they were proved.

**`TransferTaskProofs`**, any number of rows, workers, requests, crashes and rows
left by older releases. `TypeCorrect`. `ClaimsAreExclusive`: under
`SerialRequests`, `OneRunner`. `PromiseKept`: under `SerialRequests`, every
behaviour of `TransferTask` is one of `TransferPromise` under `TaskPhase`. The
inductive invariant is `PromiseInv`: `OneRunner` alone is not inductive, since a
step of a request that still has a write to come could make a held row
claimable. `HeldRows` says that a held row is in none of the statuses a claim
looks for; `Writers` that a request with a write to come has the row for
itself; `Started` that a row that has run is over or in its only execution;
`Recorded` that confirmations and acknowledged cancellations are still visible
in the row or in the worker that passed its gate. The run
`transfer_double_confirm` shows that `SerialRequests` cannot be dropped.

The same invariant, with one worker process, shows what a finished row is worth:
`FinishedIsOver` (`FinishedHolds`) and `ConnectionsStay`
(`ConnectionsOutliveTransfers`), both under one worker and `SerialRequests`;
`Past` and `GoesOn` say what the worker's loop and a request still mean to do.

**`DumpImportProofs`**, any number of tables, batches, tries and deaths of the
worker. `TypeCorrect`; `NoHalfTables`: `AllOrNothing`; `LossAnnounced`;
`CheckpointsKept`, whichever failed tries are retried. What a rollback leaves
depends on what the session sees beside what is committed (`OneTableOpen`), how
often a batch can be in a table on which tries have begun (`RowsBounded`), what a
stop leaves half done on the batch reached (`PartlyInserted`). The flag of a try is
cleared when a table is completed, so it can be relied on only together with what
the try has changed so far (`Announced`). A try has the checkpoints of the tries of
its line (`Lines`), and they stand for what a table has come to (`Progress`,
`OldKept`), but for the tables in `redone`.

**`BulkExecutionProofs`**, any tasks, hosts, files, places in the pool and stops.
`TypeCorrect`, `StopsSoon`, `CompletedIsDone`, `AllClosed`. The invariant is per
task: whether it has a row (`Lives`, `Vanished`), what the runner holds at each of
its places (`AtPlace`), that jobs are in the pool only while the runner waits for
it (`JobsInPool`), that every remaining host with a result is a target
(`TargetsAreAll`), how far a task that nobody has cancelled has come (`Handled`),
and what verdicts mean (`Verdicts`, `Closed`). Requests only move rows towards an
end, which one lemma covers for all of them. `StopsSoon` counts: effects begun
since the cancellation, plus jobs past their check, are at most the places of
the pool (`Limits`).

**`ScanTaskProofs`**, any number of tasks, targets, threads, requests, retries and
stops. `ScanTypes`, `OneScanner`, `FindingsApart`, `CompletedIsScanned`: all the
safety properties of the run. Threads and retries share no lock; as long as
retries have not overlapped, what keeps threads apart is that a target not yet
done belongs to one thread (`Claim`) or to one retry request (`Asked`):
`ClaimsApart`. `Listed` follows a retry through its three steps: what it has listed
is failed, then has no findings, then is pending, and nobody else touches it.
What is claimed is as new (`UntilScanned`), so that the failed targets a retry lists
are claimed by nobody. `AloneToTheEnd` follows a thread through its two queries and
its last count: at each place it knows what the targets were, and nobody has
changed them.

**`WebTerminalProofs`**, any number of outputs and commands, command requests,
sources of a copy or move, savers and protocols. Types of the five parts and
`TypesOK`; `TerminalsRecorded` (`RecordingsHold`), `CommandsInOrder`
(`OneAfterAnother`), `TransfersSound` (`TransfersHold`), `SavesHonest`
(`SavesAreHonest`), `TerminalFilesKept` (`FilesKept`), `TerminalEndsFinal`
(`EndsAreFinal`). SSH terminal: transcript and audits can be compared with what the
shell wrote only through what each thread still has in hand (`TermFlow`,
`Creating`), and order is kept because chunks are cut after what is stored
(`AuditOrder`). HTTP terminal: where the connection can be while the session is
not live (`Unstored`, `Forgotten`); without overlap one request is at work with the
stored transcript (`OneAtWork`), and the shell owes output only to it
(`ShellOfReader`, `OwnOutput`). Remote desktop: what the reader and the recording
are at each place of the handler, row or no row (`DeskBegun`, `RecordingKept`).
Copies and moves: `Layout` says where each entry is, from the three flags of the
transaction, at each step and at each step of the rollback (`AsFlagged`,
`HalfUndone`). Saves: what the version seen says of the file until it is replaced
(`Checked`, `ReplacedBaseline`), and who may leave it torn (`TornBy`).

**`StoresProofs`**, any requests, statements, policy edits, directories,
connections, keys, members, clients, logins and limit. Types of the four parts;
`DatabaseAnswers` (`DatabaseHonest`), `CatalogSound` (`CatalogHolds`), `RedisSound`
(`RedisHonest`), `PoolIsExclusive` (`PoolHolds`). Databases: `Accounted` says where
each statement of a request is (final, waiting for the commit, passed over), `Told`
what an answer may say then, `Lateness` that each statement sent after a closing of
the policy used one closing up. Catalogue: what a request that has looked still
finds when it stores, unless it raced (`MoveApart`, `Current`, `KeyNamed`); that a
move makes no cycle is an induction over the branches of the tree. Redis: how far
a replacement, an export or an import has come (`Replacing`, `Exporting`,
`Importing`). Pool: every open client is in one place of one pool, with one
request, or in `lost`; `HeldAreOpen` and `IdleAreOpen` say that what a place holds
is open, so that a new client is in none of them; `LoginOf` that its login is the
one of its place. The removal of expired clients is a recursive function; that
its result has the members wanted, each as often as before, is shown by induction
over sets of naturals, as the induction theorems of the library cannot be used.

**`PortalProofs`**, any sessions, users, roles, permissions, requests, rows, days
and passes. Types of the five parts; `AccessSound` (`AccessHolds`), `RolesSound`
(`RolesHold`), `LogsSound` (`LogsHold`), `AuditsStay` (`AuditsOutliveSessions`).
`Harmless` and `Remembers`: what a request in flight may still store over a lock or a
logout. `SeenStill`: what an edit of the factor has seen that is so. `RolesSoFar`,
`Faithful`: how far an assignment has come; `Owes`, `Handed`, `Backed`: what a
preparation of the administrator still has to give. What a pass of the cleanup
achieved is carried from each of its transactions to its end (`Swept`); rows
written meanwhile are not older than the pass (`Clock`); a session picked had no
audit when the pass looked (`Looked`).

**`AssetsProofs`**, any hosts, logins, groups, names, machines, actions, versions,
tasks, sources and requests. Types of the four parts; `StatusesAgree`,
`VerdictsOfLogins`, `HostsComeBack`; `GroupsStayShown`, `MovesObey`,
`PathsAreSound`; `MarketKeepsFaith`; `DefinitionsAreFetched`; together
`AssetsSound` (`AssetsHold`). Hosts: what a probe or an edit has read is still so
unless requests came between (`InStep`, `Probed`). Groups: parents end above all
groups (`Rises`), numbers as a renumbering leaves them (`NumberedUpTo`), paths of
distinct siblings (`Pathed`). Market: one task at a place (`OneCancel`, `Places`) and
the row true up to it (`TrueSoFar`). Sources: what a sync has copied so far
(`Copies`, `Followed`).

Only model-checked:

- liveness (`Settles` of two modules, `ScanSettles`, `TerminalsShutDown`): the prover has no
  support for fairness and `ENABLED`;
- `TerminalText` and the operators of `HostReadings`: recursive operators over
  texts, compared with their references on all inputs up to a length. What a
  recursive definition computes for every input needs induction over data, which
  the provers cannot be given here in general.

The violations of section 8 are counterexamples, not proofs.

## 8. Divergences found

Three runs end in a counterexample:

- `transfer_double_confirm`: two overlapping confirmations run an import twice.
  `task_confirm` checks the status, inspects the mapping again, and then
  writes `queued` unconditionally (transfers.py:482). The browser's busy flag
  hides it, a second tab does not.
- `dump_skip_retry`: under the policy "skip existing tables" a new table created
  by a failed try exists at the retry, is skipped, and the retry succeeds
  without its rows.
- `bulk_false_restart`: the first listing after a restart fails every running
  task, also one this process has started since.

The following was met while modelling and is in the models as the code does
it. Either no text of the repository promises otherwise, or a property
excepts it by the history variable named.

Transfers and imports:

- an upload cut short leaves a partial file on a failed row; a retry copies
  whatever file is there, and it can be imported (transfers.py:367);
- any failed try may be retried: the retry of an older one rebuilds tables that
  the checkpoint of a newer one calls completed, and if it fails there, the retry of
  the newer one passes them over (transfers.py:548, history `redone`);
- a cancellation between the two last saves of `upload_complete`, or of a task
  whose worker died, leaves `cancel_requested` until the retention ends, because
  the timeout sweep looks at `running` only; with a second worker that sweep makes
  a row deletable while it is executed.

Bulk execution and scans:

- a command that keeps writing never ends its bulk task: its timeout bounds the
  silence of a read (bulk_execution/services.py:642-646, `CommandsEnd`);
- two retries of a scan that overlap list the same failed targets; each clears and
  resets them, whatever they are by then, and starts a thread, so that two threads
  scan one target and its findings mix (security_scanner/services.py:246-271,
  history `overlapped`);
- the cancel view and the counters of the detail view write values read earlier
  over newer ones; a task queued when the process stops stays queued;
- a stale save of a cancellation leaves a finished scan `running`, or is itself
  overwritten between the thread's read and save; a retry clears a
  cancellation; a restart leaves targets pending and queued tasks queued; the
  first listing after a restart fails scans started since (`raced`).

Terminals and files:

- output of a command is joined, appended and reset in steps of two threads: it
  can be lost, doubled or attributed to the next command; what arrives after the
  join timeout is lost;
- concurrent commands of an HTTP terminal take each other's output, a slow
  answer goes to the next command, and transcripts overwrite each other
  (`webFate`); a session that fails before its row is stored leaks its shell;
- an HTTP command is audited and then stored in the transcript, two commits: a
  failure between them leaves an audit without a line (commands.py:37, 51);
- deleting a host deletes its sessions and audits and leaves the recording files,
  which the cleanup of recordings, going by rows, never finds (rdp.py:113-137); a
  reader that saves an error of a deleted row raises before it closes the
  websocket, which stays open until the browser leaves;
- each piece of bytes from guacd is decoded alone: a character cut by a piece
  becomes replacement characters, and the length of its instruction is wrong
  (rdp.py:165, history `textCut`);
- the removal of the staging file after a failure or conflict is sent without waiting
  and its errors are dropped, so the file may stay (files.py:122-127);
  docs/terminal-file-conflicts.md:12 says that it is cleaned up;
- an exception of guacd other than the expected ones leaves the desktop
  session `connected`; a crash leaves rows connected;
- two saves of a file can both pass the check of its version; SFTP
  replacement by remove and rename can leave no file; the shell and SCP
  fallbacks write in place (`TornOnlyByFallback`);
- a change made by somebody else between stage and hold of a move is lost with
  the held copy.

Pool: a download that its browser gives up ends the generator that holds the
client with `GeneratorExit`, which neither returns nor closes it
(connections.py:203-212, files.py:543-550); a host deleted during a login leaves
one client open (both in `lost`); the login that worked is saved over a login
edited meanwhile; idle clients expire only when their host is used again.

Accounts and administration:

- a request that ends after a lock, unlock or change of the settings stores the
  session as it was at its start, and the rewrite of all sessions stores copies
  (`LockHolds` and `LogoutIsFinal` name these overlaps); a password change in flight
  at logout makes a new signed-in session;
- an administrator who enables the factor while another resets it leaves it on
  without a secret;
- roles are assigned user by user: a user deleted midway ends the request with
  the others half done; whole rows are saved over a password changed meanwhile;
  permissions created before a crash are not inherited after it;
- a role's name and its permissions are two commits: a failure between them leaves
  a renamed role with its former permissions;
- the cleanup deletes rows of sessions that are still open, and an audit written
  between its look at a session and the deletion goes with the session, however
  young (system_management/services.py:314-320); so do the audits of a deleted host;
- a log that cannot be written answers an error after the change was stored; a view
  that stores a part and then fails leaves a change without a log
  (middleware.py:88).

Databases:

- with the option autocommit of a connection, applying rows and clearing a
  database are not atomic, nor is DDL of MySQL: the answer is an error and part of
  it is final (`AnsweredTruly` says when); a read-only policy is checked
  before each statement and not at the commit;
- the log is stored after the commit and inside the same `try`: when it fails, the
  answer is an error over final data (advanced.py:169-172); statements on MyISAM and
  ClickHouse are final whatever the rollback;
- after the last write to a Redis key its type is asked again and the log stored,
  either of which may fail and answer an error over the new value (advanced.py:402);
  a stream, or a type the code does not know, is exported without its value
  (advanced.py:312-318), and the import of such a file ends in an error;
- replacing a Redis value asks its type, deletes and rewrites it: what
  another client wrote between is lost, and after a failure so is the key; a
  value shown in part and stored back loses the rest; an expiry below a second
  is imported as none;
- two moves of directories can make a cycle, names are distinct by
  looking before storing only, and a connection can be stored with a key that
  is being emptied (`raced`, `TreeHolds`).

Hosts and market:

- a probe's verdict is saved on a host edited meanwhile; storing a host writes
  the whole row and inserts a deleted one again; twins of one name and group make a
  full import fail;
- two moves of groups can make a cycle, after which an export does not end; a
  group put before the first of orders below ten does not become the first; at the
  root the database does not keep names distinct; names with "/" are split on
  import;
- an application command makes a directory, writes a file and starts containers in
  one chain: when it fails the first parts stay done while the row of the
  installation is as before; when it succeeds the row may fail to be stored, and the
  task is told as unknown (plans.py:72-76, runner.py:32-40; in `tale`);
- a command that times out on a managed host is told as failed, on the local one
  as unknown; a host edited after the preview gets the command on another machine;
  start, stop and restart record the version of the definition, not of what
  is installed (`InstalledTrue` excepts it); a stale cancellation hides the
  outcome; a source without URL ends the sync of the sources after it.

## 9. Not modelled

- Permissions and policies outside `DatabaseSession`: a refused call is a call that
  does not happen, a policy revoked during the execution of a transfer is a
  fault. Progress figures, texts and notifications.
- The SQL parser and the inspection of dumps, the values and types of rows,
  the archives of exports, SQL generated for objects and table operations:
  sequential computations over one file or one request, with unit tests.
- Stored upload files of bulk execution; the check that a remote file is new.
- The deletion of a host under a live SSH or HTTP terminal (under a remote desktop
  and beside the cleanup it is modelled).
- What a scan asks a host, how packages are compared with advisories, and the
  cache of advisories (a cut key, no expiry).
- The slider and the text of one-time codes; what scripts of the market do.
- Dashboard, company assets, passwords, authenticators and network tools: single
  transactions without state between calls. The monitoring agent has no source
  here; the browser is the assumption `SerialRequests`.
