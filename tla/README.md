# Verification of bunkarr

bunkarr backs up media libraries, Plex databases and *arr configurations to
mounted folders and to restic and rclone repositories. This directory holds a
TLA+ model of what is hard to get right in it: the job queue, how requests,
webhook events and schedules become jobs, the catalog and the media index, what a
sync does to a folder, an rclone remote and a restic repository, versions of
backups, tiers, destinations and their secrets, notifications. TLC checks every
module on small instances; TLAPS proves theorems about the job queue, requests, syncs, the
execution of an item, webhooks, versions and the copy of a live database. `PROJECT.json` maps the definitions to the source lines
they model; a helper whose lines are inside an operation's is mapped with the operation.

To repeat a result: `tlc -workers 2 -config <cfg> <MC module>` for a run (the
pairs are in `PROJECT.json`), `tlapm <module>Proofs.tla` for the proofs.

## Inventory

| Part (`src/internal/...`) | State | Operations | Hard part |
|---|---|---|---|
| job manager (`jobqueue/manager.go`) | jobs table; maps of running jobs, held keys, used slots | Enqueue, Cancel, HoldKeys, SetWorkers, Start, Stop, dispatch, execute, finish, defer | the mutex is released around every database call: cancel, shutdown, dispatcher and runners interleave; crash recovery |
| requests (`jobqueue/store.go`, `coalesce.go`, `items.go`) | jobs and job_items | CreateJob, coalesce, merge, plan | a request answered with an older job must still be done |
| scheduler (`jobqueue/scheduler.go`, `schedules.go`, `api/backuptargets.go`) | schedules, entries in memory, settings | save, edit, delete, reload, sleep, fire, supersede | settings, table and memory change in separate steps; the clock is set |
| syncer (`syncer`) | destination_files, job items, the destination's files | scan, plan, hold, copy, update, adopt, displace, retain, reconcile, verify, expire, release | the file system and the database cannot change together: a crash between any two steps; plans go stale |
| filecopy engine (`engines/filecopy`) | none | WriteTemp, Commit, Link, Expire | atomic renames, destinations without hardlinks |
| engine runs (`enginerun`, `engines/restic`, `engines/rclone`) | engine_snapshots, engine_forget, engine_state; remote objects, snapshots, locks | batches, read-back, moves with intents, forget, prune, check, unlock | remote effects that are not recorded yet; a move that is a copy and a delete; locks of others |
| webhooks (`webhooks`) | webhook_events; inbox, backlog, items in memory | intake, step, flush, mark, re-arm, prune, Start, Stop | intake, loop and job hooks run concurrently; table and memory must agree |
| media index (`mediaindex`) | index tables, intents as job items | full, targeted and overflow refresh, follow-up syncs | index changed, follow-up not yet queued |
| catalog (`catalog`) | sources, catalog_files | full scan, scan of paths | a source that vanishes must not look like deletions |
| tiers (`tiers`) | rules, flags | facts, evaluate, save, follow renames | unknown facts, two editors, flags and moves |
| versions (`snapshots`, `plexdb`, `arrbackup`, `manifest`) | snapshots and manifests tables, version directories, engine versions | copy, stage, publish, record, prune, recover | a crash between rename, row and prune; copying a live database; a Backup command asked twice |
| destinations (`destinations`) | destinations, markers, sealed credentials | create, attach, resume, confirm, update, delete, open | several effects per creation; a secret nobody has |
| notifications (`notify`) | limits, queue | admit, release, send, close | hooks out of order, failing sends, a clock set back |
| integrations (`integrations`, `api`, `logging`) | rows, webhook routes, redaction registry | create, update, rotate, delete, start | a token and the URL it was saved for; three places hold one secret |
| auth, config, db, lock, exec, bandwidth, cmd, web | settings, sessions | requests, start and stop | mostly input and output |

How they interact: API, scheduler, webhooks and media index call
`Manager.Enqueue`; the manager calls one runner per job type and, when a job
ended, the OnFinish hooks (webhooks re-arm, media index, notifications). Runners
share the database (one writer connection: every write is a transaction) and,
through lock keys, never a destination, a source or an integration. What makes
the system correct: no version of a file is ever lost; records say what is on
disk; every accepted request is carried out by a job that planned after it;
every queued job ends, whatever crashes; every event reaches a refresh and every
indexed change its syncs; nothing is deleted because something was unmounted,
stale or unknown; secrets stay where they belong.

## Modules

| Module | Models | State and actions |
|---|---|---|
| `JobQueue` | the job manager | The row columns that matter; the manager's maps; program counters of the dispatcher (`dpc`), of each job's goroutine (`pc`), of one Cancel caller and of the process (`mgr`). One action per critical section or transaction, named after the function it is in. |
| `JobLife` | what the queue promises | The abstract life of a job: its row, its runner, its hooks. `JobQueue!Lives` says that the manager implements it. |
| `JobRequests` | CreateJob, coalescing, deferral, firing | The jobs table with each row's parameters; the scheduler's goroutine. History variables say which requests a job stands for (`owed`) and which its plan misses (`missed`). |
| `Schedules` | from an integration's targets to a fired run | Settings, schedules table, the scheduler's entries and timer; two requests at different steps, each of which may fail: a reload, the mirroring of settings that were saved, a delete after its schedules went (put back for Plex, `PutBack`). `missed` is history: what such a failure left undone. |
| `PlanRules` | the planner (`plan.go`, `tiers.go`, `guards.go`) | Pure operators: from catalog, records and tiers to a plan with links, moves and promotions. Used by `RcloneSync` and `ResticSync`. |
| `SyncItem` | all jobs of a filecopy destination on one path | The path, the retention names and temp files on disk; the live record, retained rows and item details in the database; the running job's program counter. |
| `SyncRuns` | a sync as a whole | Disk, catalog, records, rules, the job's items, a clock: scan, wait for expected files, plan, hold, run, release and its preview. A tier changes with a revision (`SetRules`: the rules are saved) or without one (`SetFacts`: a flag, an index, a destination). |
| `RcloneSync` | syncs and retention of an rclone destination | Remote objects, records, intents in item details, retained rows. |
| `ResticSync` | syncs and retention of a restic destination | Snapshots, their rows, forget requests, records with the snapshot they name. |
| `ResticLocks` | exclusive restic commands | The lock, live processes, the children file, the state of checks and prunes. |
| `Verify` | verify jobs of the three engines | Objects, records, the job's items and the check in progress. |
| `Webhooks` | webhook intake, store and processor of one integration | The events table; inbox, backlog (`known`) and items in memory; the step of the loop in progress (`Step`, `Add` per event, `Added`, then the flush); a clock. |
| `MediaIndex` | refreshes of one *arr | What the *arr says, the index, the jobs with their intents and marks, the syncs queued. |
| `Catalog` | scans of one source | The share and its mount, catalog rows, the scan in progress. |
| `Tiers` | facts, rules, decisions | `truth` is what the applications would say, `know` what is visible of it; rules and two editors' drafts. |
| `ItemFlags` | flags that follow renames | Where files are, catalog, records per destination, flags. |
| `Versions` | versions in a folder (`plexdb`, `arrbackup`, `manifest`) | The folder at the destination (unfinished versions, versions, trash), the rows, the jobs and the running job's step. `world.kind` picks how a runner chooses, what it checks and its retention rule. |
| `EngineVersions` | the same versions at restic and rclone | The store, rows, forget requests, staging. |
| `ArrBackup` | the Backup command of an *arr | The application's commands and backups, the job's saved detail, staging. |
| `PlexCopy` | the copy of live SQLite databases | Pages, journal and log of each database, Plex up or down, the copy's position. |
| `Destinations` | creation, credentials, deletion, Open | Disks and mounts, markers and repositories, rows with their secrets, calls in progress. |
| `Notify` | the dispatcher | Hooks to come, limits, messages admitted and not yet queued, queue, sends in progress. |
| `Integrations` | saved integrations and their secrets | Rows, redaction registry, webhook routes, clients with a token in hand. |
| `...Proofs` | – | Theorems about the module of that name; `JobQueueProofs` also relates `JobQueue` and `JobLife`, and `SyncTruthProofs` goes on from `SyncItemProofs`. |
| `MC...` | – | The instances TLC checks. |

`MCEngines` and `MCServices` check several components in one run. The variable
`part` names the component a behaviour belongs to. One component of each run is
extended (`PlexCopy`, `SyncRuns`): its own variables stand still in the behaviours of the
others, and its properties are those its theorems are about. Of the others the slots `v1`,
`v2`, ... are the variables, through an `INSTANCE` of the component's module with its own
worlds. The components do not touch each other there: a property is the one of its
module, stated for `part`.

The modules build on each other through what they promise. `JobQueue` guarantees
that jobs sharing a key exclude each other (`KeyExclusion`, `NoSecondRunner`), so the
modules of runners have one job at a time per destination or integration; rows move
only along queued, running, final, and hooks run after that (`Lives`). `JobRequests`
says what a queued job stands for; `Webhooks` and `MediaIndex` rely on it. `SyncRuns`
takes an item's execution as one step because of `SyncItem`; `ArrBackup` and
`PlexCopy` stage what `Versions` and `EngineVersions` publish.

### Abstractions

- In all modules a size, a hash or a name is a small number, a time is a tick, and
  a limit is a small constant. A *world*, chosen in the initial state, bounds the
  faults and changes of a behaviour and picks the settings.
- `JobQueue`: parameters are the keys and slots they imply; a `not_before` is
  ahead or not; wake-ups are not counted because the dispatcher also polls. Left
  out: history pruning, progress, logs.
- `JobRequests`: one destination and one integration. `InTime` states the one
  timing assumption: a job plans only after it scanned its sources, so it does
  not plan between the scheduler's enqueue and the transaction that follows it at
  once.
- `Schedules`: a cron expression is a set of times; no time zones, no RunNow. A failing call is
  one of the database; what it leaves is in `missed`, which the properties name.
- `SyncItem`: a content stands for size, mtime and hash together; the catalog
  shows the source as it is when the job plans; two writes of one version by two
  jobs are different files. Links, moves, promotions and releases are in
  `RcloneSync` and `SyncRuns`. A verify and the plan of a retention job are one step.
- `SyncRuns`: an item's execution is one step; releases do not wait for expected
  files (as in the code). Every file takes one unit of space, the 1 GiB reserve is none,
  and only the sync uses the destination's space. A truncated version is one of
  `world.short`. The guard counts and holds what `guards.go` does: updates, retains, releases,
  copies of unknown tier, hardlinks made of a recorded name, truncated versions whatever their
  number, and the links of a held primary; `allowChanges` lifts it. The decisions of a
  release are read once and again after `CacheAge` (a minute). Repairs are left out.
- `RcloneSync`: versions have distinct sizes; others write at the destination only
  between jobs; a successful `moveto` means that the object arrived. A batch is any
  set of pending copies.
- `ResticSync`: one source with one folder; `restic backup` is a step that may be cut,
  or make a snapshot and end the process. Others remove snapshots between jobs, and between
  the plan of a forget and its re-check.
- `ResticLocks`: the PIDs of different processes differ.
- `Verify`: the check of stored config versions is left out.
- `Webhooks`: an event has at most one item; age, row and payload limits all
  delete the oldest rows and are one limit; a load that fails at start ends the
  process and is a `Crash`; no time passes during a step of the loop.
- `MediaIndex`: an item has one file; a batch is one item; between a 404 and the status
  check the application stays the same. A refresh of items without `syncAfter` (mode `items`)
  owes no follow-ups, which is its contract.
- `Catalog`: the hash of head and tail stands for the content; the path of a source
  does not change; the cache of `DirExists` is left out, the one of a targeted scan's
  directory listings is not.
- `Tiers`: one media file, its sidecar and a hardlink; a Seerr request carries every id;
  `file.age`, which is never unknown, is left out. A movie-level Maintainerr row of a file
  that Plex has not indexed is excluded: the code calls it false, not unknown.
- `ItemFlags`: the *arr index is up to date when a sync runs; a folder name is reused
  only when nobody uses it any more.
- `Versions`: one integration and one folder; the files of a version are whole, wrong
  or incomplete; verification may say anything; a restart takes longer than a second, so
  only versions of one process share a name's second; the clock does not go back. An
  *arr's scheduled backup is told by its content. The clock, the source and the settings
  change at any time: the model takes a change just before a step that reads it. Left out:
  dry runs, folders of integrations deleted meanwhile, and an older copy of the database
  put back (its effect, a row without its version, is reached by deleting the version).
- `EngineVersions`: versions of one second are ordered by their jobs; downloads are left out.
- `ArrBackup`: dry runs and the retries that depend on a size are left out.
- `PlexCopy`: two pages per database, and every commit writes both; the maintenance-window
  warning, row counts and the refusal of too many collations are left out.
- `Destinations`: a `restic init` that fails has not created the repository (see below).
- `Notify`: one key; keys share nothing but the queue. A message is admitted (its slot is
  taken) in one step and enters the queue in another, as in the code.
- `Integrations`: two rows, two URLs, two tokens; links between rows, the disabling of
  invalid rows at start, short values and escaped forms of a secret, and the sign-in with
  Plex are left out.

## Runs

All bounds are small because the hazards are about orders of few steps of few
actors: two jobs contend, a third waits behind them; one crash interrupts, a
second hits the recovery; two versions of a file are needed to lose one, three to
lose it across a retained one.

| Run | Instance | Shows |
|---|---|---|
| `jobqueue_crash` | 2 jobs sharing a key, one of them in the upload pool and one in the refresh lane; 2 process ends, 1 failing write, a Cancel caller, a holder of keys, worker count 1 or 2, MaxAttempts 2, a version that does not know the first job's type at the last start | `KeyExclusion`, `RunnerHasRow`, `RowHasRunner`, `HoldExcludes`, `KeysAccounted`, `SlotsAccounted`; `Lives`: the manager implements `JobLife` |
| `jobqueue_live` | 2 jobs, 1 process end, 1 deferral, runners that may hang | `StopReturns` and `NoSecondRunner` with hanging runners; `EventuallyFinal` when runners return |
| `jobqueue_cancel` | 2 jobs, a deferral | **violates** `CancelSticks` |
| `requests` | 3 menus: whole and targeted syncs with nested paths and a limit of one target; refreshes, verifies and schedules; whole syncs superseded three in a row | `Promise`, `CutsCarried` |
| `syncitem` | 3 jobs, 2 retention names; 4 worlds: 3 versions and 2 crashes; no hardlinks; failing items and failing settling; other writers and late resumption | `NeverLost`, `DatabaseTruthful`, `SettledAfterCrashes` |
| `webhooks` | 2 events, 2 movies, 3 refreshes, one item per job; 6 worlds with restarts, failing writes, cancels, a disabled integration, pruning | `EventsKept`, `DelaysRespected` |
| `webhooks_rearm` | 1 event, 1 cancel | **violates** `NoneForgotten` |
| `versions` | up to 4 jobs, 3 days, 2 contents; 12 worlds: an end and a failing operation; changed retention; damaged and deleted versions; four versions in one second | `NothingHalfDeleted`, `SuccessMeans`, `RetentionMeans` |
| `mediaindex` | 2 items, 3 folders, 2 sources, 2 jobs and the follow-ups; 10 worlds: crashes, cancels, failing calls, inaccessible roots, another application, a changed URL, a clock that stands still | `Followed`, `IndexTrue` |
| `engines` | rclone and restic, 2 names, also hardlinked, up to 3 versions and 3 jobs; 15 worlds: ends of the process, failing commands, half moves, damage, objects of others, cut batches, snapshots removed also while a forget is planned, forgets, expiries; copies of one or two Plex databases in both journal modes while Plex commits, stops, dies and starts, with damage and refused schemas | `NothingLost`, `RecordsTruthful`, `Restorable`, `VersionsKept`, `CopiesSound` |
| `services` | 12 components, each with its worlds (below) | 13 properties (below) |
| `tiers_seerr` | two Seerr servers, one of them stale | **violates** `UnknownNeverDemotes` |

The properties of `services`:

| Component | Worlds | Property |
|---|---|---|
| `ResticLocks` | 2 to 4 exclusive commands beside another container with our host name or its own; kills, shutdowns, a late command | `LocksAndChecks`: no live lock is removed, leftovers never block, a prune is checked |
| `Verify` | each engine; twins, a missing record, a sample; changes and damage during the check, a stop | `VerifyMarks`: only damaged files are marked (by rclone's sample also those whose source changed), and all that were to be found |
| `Destinations` | each engine; up to 3 creates at nested places on two disks; failing steps, kills, unmounts, concurrent updates | `SecretsKept`: what was written can be read by its owner, and no repository is orphaned |
| `Notify` | up to 4 jobs of different outcomes and scopes; failing sends, a set-back clock, a shutdown | `ProblemsTold`: a problem is held back only for a message about it, and told once per interval |
| `Tiers` | every pair of rules over a family of conditions, each with partial knowledge; two editors | `TiersHold`: unknown never demotes; rules are the ones last saved, where they were saved for |
| `ItemFlags` | flags by file, folder and item; two renames, or a rename and a move; crashes between a move and its flags | `FlaggedStaysCovered` |
| `Catalog` | full and targeted scans during changes; disks, anonymous and FUSE file systems; unmounts, I/O errors, other spellings | `CatalogTrue`: deleted means gone, groups are real, keys are listed names |
| `ArrBackup` | a job with two stops; two jobs beside scheduled backups | `OneFreshBackup` |
| `EngineVersions` | both engines and three runners; crashes, errors, changes by others, prunes | `VersionsAtEngines` |
| `SyncRuns` | an announced upgrade; a release while rules, flags and indexes change and its decisions age; a full disk; mass deletions and truncated files, held or allowed; a disabled source | `OnlyConfirmed`: only what was shown, and nothing that is full for longer than `CacheAge`; `SyncPromises` |
| `Schedules` | saves, edits, deletions beside the loop; two deletions of one integration; failing reloads, mirrorings and deletions; a clock set forward and back, crashes | `SchedulesFire`: once per time, with current entries unless the reload failed or a delete did, promptly |
| `Integrations` | 3 writes beside requests that hold a token, a failing write, a crash | `TokensBound`: a token goes only to the URL it was saved with, and every secret is registered |

Faults that would only multiply the interleavings are in worlds of their own: a change
during a `Verify` or an *arr version in `EngineVersions` and a failing operation there; any
two of an edit, a deletion and a crash in `Schedules`, not all three; two renames of flagged
folders, and a rename with a move.

Deadlock is not checked where bounded counters end every behaviour: an idle system is a
legal end.

### What the violations show

- `CancelSticks`: `deferJob` writes the row as queued before the job leaves the
  running map. A Cancel in between cancels a context nobody reads any more,
  answers success, and the job runs again when its window opens.
- `NoneForgotten`: a refresh cancelled between the write that marks its events
  and `forget`. The hook makes the event unprocessed, `push` skips it because it
  is still known, `forget` removes it: it waits for the next start.
- `UnknownNeverDemotes`, with two Seerr servers: `combineRequests` takes the requesters of
  the servers that are fresh and calls them known although another one is stale, so a
  `requestedBy` condition is false instead of unknown and the rule that would protect the
  file does not match. With one server it holds (`TiersHold`).

### Behaviours seen and not kept as runs

The properties exclude these by their guards or the worlds leave them out; they are
worth knowing when the code is changed.

- Queue: more blocked jobs than `queuedScan` in front of a runnable one keep it waiting
  (`manager.go:49`).
- `SyncItem`: an item resumed after a later job replaced the file records the newer file
  with the older one's description (`exec.go:748`). When settling cannot move a file back,
  the record says present while the path is empty until a verify or the next sync. A
  database error while a displaced file is recorded leaves it in retention, unrecorded. A
  retain resumed after somebody else wrote at the path takes a second retention name. An
  item that goes on from its hardlink after its intent was settled commits without one.
- `SyncRuns`: a release preview resumed after a crash reports the current rule revision
  although its items were decided at an older one (`tiers.go:798`); warnings about missing
  expected files count one attempt only. What is not backed up is read once per attempt
  (`sync.go:703`): a file that is gone then and that a scan for another destination brings back
  does not keep the old versions of its folder, so `UpgradeCovered` is about files the catalog
  lists since that read. A link that falls back to a copy is not in the space check, so a
  decided link may find no space after copies of unknown tier (`DecidedFirst` is about copies
  and updates). A flag, an index or a destination changes a tier without a new revision, and a
  release reads its decisions at most every minute (`tiers.go:573`): a file that became full
  less than that ago may still be taken. A name that is made a hardlink of its primary is not
  checked for truncation when it runs (`exec.go:1218`, where line 636 checks a copy), so
  `ChangesBounded` says that of updates only.
- `RcloneSync`: a primary is replaced although the promotion of a recorded link failed
  (`rclone_copy.go:224`); reconciliation after a half move marks a damaged object present
  (`rclone_reconcile.go:21`); `copyAlone` does not mark a record missing as `alone` does; a
  displacement intent of a job that failed or was cancelled is not recorded; a link after
  half a retain leaves an unmanaged object.
- `ResticSync`: a replaced version whose record was missing is kept as a damaged row that
  may name a snapshot without it; the cap on cut batches remembers the last one-file cut
  only.
- `ResticLocks`: a lock taken between inspection and `restic unlock` is removed; a prune
  requested by a parameter and cancelled right before its state is stored leaves no pending
  check.
- `Verify`: `rclone check` compares with the source as it is now, so a file changed since
  the plan marks an intact record missing (`verify.go:808`), where restic skips it
  (`sourceHash`, line 199). `MissingIsDamaged` allows exactly this case (`Outdated`); the
  next sync backs the new version up.
- `MediaIndex`: a job resumed after a crash with another URL ends without reading its
  pending intents (`refresh.go:381`, where the comment at line 699 promises otherwise). A
  cancelled webhook refresh that absorbed a move gives up the old folder. An overflow job
  can use up its attempts before its mark. The marking of a targeted item as gone deletes
  files under inaccessible roots. Follow-ups of an overflow cover only sources that contain
  the root folder.
- `Catalog`: saving a source again clears the recorded identity, so a share unmounted
  before the next scan is accepted. A targeted scan of the only folder under an emptied root
  marks it deleted (documented). Files of an unmounted nested mount, and of a share that
  loses its contents during the walk without an error, look deleted. A respelled folder
  scanned by its new name only keeps its old rows until a full scan.
- `Tiers`, `ItemFlags`: a sidecar whose media file the *arr does not know is decided by its
  own facts; a re-added Plex item undercounts plays. Replayed moves applied after a folder
  flagged later was renamed send the flag to the wrong folder (`syncer/tiers.go:604`).
- `Versions`, `EngineVersions`: a name that an unfinished prune left, taken again in the same
  second, has its row refused and the job fails; when the next prune moves that job's version
  to the trash, the older row is left with a directory that is not its own. A row whose version is gone and that cannot
  be deleted takes a retention slot. An rclone purge stopped before `manifest.json` leaves a
  row that does not count as lost. A manifest export that crashed for good leaves its
  staging folder, and so does a resumed job that finds its own version. An unreadable
  manifest makes a resumed job store a second version.
- `ArrBackup`: a crash between the request and saving its id makes the resumed job ask for
  a second backup while the first one is not listed yet.
- `PlexCopy`: a live copy beside the hot journal of a Plex that died fails, rather than
  reads. Missing rows of an index with Plex's own collation cannot be told from damage.
- `Destinations`: a `restic init` that reported failure and yet created the repository loses
  its only secret, and the place stays blocked (`engine.go:446`). An update read while a
  create is pending may write `enabled = false` over the create's end. A killed filecopy
  create leaves its marker. A plain rclone create over encrypted storage does not see the
  encrypted marker.
- `Notify`: a job held back for a message that then fails is not told itself. A hook
  delayed by more than the slack looks like a set-back clock. A message that is given back
  restores the slot of the one before it, also when that one failed in the meantime
  (`dispatcher.go:348`): the next problem is then held back for a message nobody got, which
  `HeldBackWasTold` excepts.
- `Schedules`: concurrent saves of one integration may mirror the older settings. A save
  racing with the deletion of a destination leaves a schedule without one until the next
  start. A run recorded by a set-back clock overwrites a later one and may fire again after
  a restart. A reload that fails is only logged (`api/schedules.go:91`). A delete that fails
  after the schedules went puts them back for Plex only (`api/integrations.go:262`, where the
  comment speaks of any integration): an *arr keeps its settings without schedules, and its
  entries in the scheduler until the next reload. Two deletions of one *arr at once end the
  same way: the first dropped the schedules and finds no row, the second has nothing to
  reload for. Of a Plex server the first then mirrors the schedules of an integration that is gone,
  which stay until the next start. `EntriesCurrent` and `Mirrored` except what `missed` names.
- `Integrations`: between a write's commit and its registry update, a request can hold a
  token the registry does not know yet.

### Fairness

`ProcessFairness`, in `StopSpec`, says that the dispatcher passes (it polls), that Stop
goes on, and that an ended process is started again and finishes its start: what timers
and a service manager give. Nothing is assumed about runners, so `StopReturns` holds when
they hang. `EventuallyFinal` is stated under `JobFairness`: goroutines run, runners
return, a transfer window opens, a Cancel call finishes. All of it is weak fairness.
Restarts, faults and deferrals are bounded, never fair.

## Proofs

The theorems hold for every value of the constants that satisfies the assumptions named in
the module (which TLC evaluates on every run). They say of all sets of jobs, versions, names
and settings, and of any number of crashes, errors and retries, what a run shows for a few.

| Module | Theorem | States |
|---|---|---|
| `JobQueueProofs` | `TypeCorrect` | `[]TypeOK` |
| | `KeysExclude`, `NothingLeaks`, `HoldsExclude`, `RunnersHaveRows` | `KeyExclusion`, `KeysAccounted`, `HoldExcludes`, `RunnerHasRow` |
| | `ManagerImplementsLife` | `Lives`: `JobQueue` implements `JobLife` |
| | `OneRunnerPerJob`, `NoRowStuck`, `SlotsNeverLeak` | `NoSecondRunner` (an action property), `RowHasRunner`, `SlotsAccounted` |
| `JobRequestsProofs` | `NoRequestLost`, `CutsReachPlans` | `Promise`, `CutsCarried` |
| `SyncItemProofs` | `NothingEverLost`, `CrashesAlwaysSettled` | `NeverLost`, `SettledAfterCrashes` |
| `SyncTruthProofs` | `DatabaseAlwaysTruthful` | `DatabaseTruthful` |
| `VersionsProofs` | `NeverHalfDeleted` | `NothingHalfDeleted` |
| `WebhooksProofs` | `NoEventLost`, `DelaysAlwaysRespected` | `EventsKept`, `DelaysRespected` (an action property) |
| `SyncRunsProofs` | `ReleasesConfirmed`, `PromisesAlwaysKept` | `OnlyConfirmed`, `SyncPromises` |
| `PlexCopyProofs` | `CopiesAlwaysSound` | `CopiesSound` |

None of these is inductive. The invariants that are, and why:

- `LockInv` (`JobQueueProofs`) adds that the dispatcher is idle unless the manager runs (so
  nothing is taken after Stop), that jobs are disowned only when Stop's grace is over and
  then start nothing, that a process that is down has no goroutines, that a job being
  started is active but has no goroutine yet, and exclusion itself for goroutines rather
  than for keys, because Stop frees the keys of disowned runners. One lemma per group of
  actions (dispatcher, goroutines, API, process), one step per action.
- `LifeInv` (`JobQueueProofs`) adds to it who owes the hooks: a disowned runner never gets to
  the point where its result is stored; a goroutine that stored a final state owes the hooks
  and nobody else does; hooks were called only for jobs that ended. With it each action is a
  step of `JobLife` or a stutter, and the initial states map to initial states. The slot
  counts follow from the cardinalities of the set of active jobs when one joins or leaves.
- `RequestInv` (`JobRequestsProofs`) says that a live row covers everything it owes or has
  yet to plan it (`OwedCovered`), that a plan, once made, misses nothing (`PlanWhole`), that
  the job the scheduler holds on to while it supersedes has not planned, and that the cuts of
  superseded rows are reachable from the row that carries on. Merging drops a target when
  another one contains it; that every target is still covered by one that is kept needs that
  containment is well founded on a finite set of paths (`TargetAssumption`: two targets are
  not the same path).
- `SyncInv` (`SyncItemProofs`) states what is true at each point of an item's execution
  (`AtPoints`): which intent is stored, whether the temporary file is complete, where the
  displaced file is. Two facts carry the argument: a file is replaced at the path only when
  it has a second name in retention or nobody has seen it (`ReplacesLinked`), and a version
  is recorded as new only when its file exists (`NewVersionExists`). Settling an intent after
  a crash moves a file only to a free path.
- `SettleInv` (`SyncItemProofs`) holds until an operation fails or somebody else touches the
  path. It says who knows of a file in retention that has no row (`Accounted`): the record's
  intent, or the pending item that displaced it. A job that has swept a directory leaves only
  what the intent names (`SweptSlots`), and one that is ready has settled every intent but its
  own (`NothingOpen`). The item must not forget what it left: the intent of a job is the
  retained path of its item (`IntentKnown`), and the path stays free while a file that an
  unfinished item retained is unrecorded (`Carried`), so an item that is resumed never chooses
  a second name for it. A step that makes no file unrecorded and leaves the intent on what it
  named is `Calm`; most actions are, and the lemmas about them are shared.
- `TruthInv` (`SyncTruthProofs`) has four layers, each under the conditions it is true for.
  While unfinished jobs are resumed first, at most one job is unfinished, its item uses its own
  directory, and the detail in memory agrees with the saved one on what it retained and
  displaced (`Ordered`); a temporary file that its item calls complete holds a version at least
  as new as the planned one, and what is done is recorded (`Copying`). While also nobody else
  touches the path, an item that is resumed still finds at the path what it said it would
  retain, and beside a retained file only its own hardlink or the new version (`Describing`:
  `Waiting`, `Beside`, `Retaining`). While also nothing got stuck on its way back, and where there
  are hardlinks nothing failed, a file that an unfinished job wrote is not in retention and not
  at the path before its rename, and an item whose old version has two names goes on to that
  rename with its intent stored (`Recording`: `OwnFiles`, `GoesOn`). The last condition is not
  a convenience: an item that failed behind its hardlink settles its intent and still finishes
  later, and in between the record says present for a path whose file it is about to replace.
  For each action a lemma states its whole effect; the layers are then proved from the effects.
- `VersionInv` (`VersionsProofs`) states what the running job knows at each step
  (`AtPoints`), that a name has one row, that a directory nobody else changed is whole, or
  on its way out in the trash, and that an attempt of a job writes one version, in a second
  of its own (`OnePerSecond`, with `Earlier`: what a queued job wrote is of an earlier
  second). The last one is what makes the trash good enough for a row: the version that
  leaves its name is the row's own, or another job's. `Newest` and `Oldest` pick a row
  because a finite set has a maximal element of the strict order of times and ids.
- `Inv` (`WebhooksProofs`) says that only events that were stored and that something acts on
  are handed over (`Arrivals`), that what waits in the inbox is nowhere else (`HeldOnce`: a
  flush that drops its items drops none of it), that an item's events are its own and it
  waits for each of them (`Waits`), what a flush relies on at each point (`InStep`), and that a
  job that has started has read the *arr after every event it is marked with came
  (`Promised`): a started job takes in no more items, and MarkProcessed refuses a cancelled
  one. Each step of a flush loses exactly the events of the items it drops (`Loses`).

- `ReleaseInv` (`SyncRunsProofs`) says that every item of a release job is a record the
  confirmed preview listed, with the revision it showed (`ItemsConfirmed`), that what the
  running plan may take was shown (`AllowedShown`), and that a preview takes nothing
  (`OnlyShows`). A plan that is made again, or resumed after a crash, keeps to it because the
  confirmation is stored with the job. For the age of the decisions it says that a file which
  is full although they say skip became so after they were read (`TimesOk`, `DecisionsOk`);
  as they are never older than `CacheAge` when used, neither is that change. It assumes that
  `CacheAge` is a number.
- `PromiseInv` (`SyncRunsProofs`) has one part per promise. `UpgradeInv`: what the attempt read
  as not backed up contains every content of the job that is missed, which stands because a
  content that is live or retained stays one of the two whatever item runs. `SpaceInv`: the
  pending copies fit, or no copy of unknown tier was made nor (once the check is over) is
  pending; it holds through a crash at any point because a copy takes the space it no longer
  waits for, and links run after all copies. `GuardInv`: whatever the guard stops, judged on
  the whole plan, is held and stays so, and no update that is done put a truncated version in
  place; that the plan has one item per name (`OneEach`) and that a pending item's old version is
  still the recorded one (`ItemOk`) carry it, and the number of changes made follows by
  cardinality. `MissInv`: a file the *arr expects is catalogued,
  then backed up or left with an item that did not succeed, or the attempt has a warning. The
  proof assumes finitely many names, and versions, space and limits that are numbers
  (`WorldsAssumption`).
- `CopyInv` (`PlexCopyProofs`) is about the one race of the copy: Plex writes while pages are
  read. A database without a log has both pages of its newest commit (`Committed`); while the
  file's time is the one from before, an immutable read finds one commit in it, and the pages
  read so far are of that one (`Reading`), because whatever writes a page makes the file newer;
  and the newest commit is always one that was seen (`Watching`). So a copy that is found
  stable is one committed state, and so is what SQLite reads (`Read`). It needs no assumption:
  the theorem is about all settings and any number of attempts.

TLC checked each inductive invariant on the run's instance before it was proved.

The attempt to prove `SyncPromises` showed that it had held only within the bounds of its
run: the old statements of `UpgradeCovered` and `DecidedFirst` fail with two scans by others
and with links that run before their primary. The model now runs the links after the copies
and ends the job on a fatal error, as the code does, and the statements are the exact ones.

`NothingHalfDeleted` allows for a name that another job of the same second takes over
(`TakenOver`): the proof did not go through without, and a world of `versions` reaches it.

Only model-checked:

- liveness (`StopReturns`, `EventuallyFinal`): the prover does not reason about fairness;
- `RetentionMeans` and `SuccessMeans`: both rest on what the fold of the retention rule keeps
  (that a success's own version survives its prune), which needs induction over the fold;
- `Followed`, `IndexTrue` and the properties of the composed runs but `OnlyConfirmed`,
  `SyncPromises` and `CopiesSound`.

## Not modelled

- HTTP clients, request decoding, the web interface, the encoding of manifests and
  messages, argument lists and output of external programs: input and output, which
  tests reach.
- Authentication, the allow-list and run directories of the exec layer, configuration:
  sequential checks.
- The arithmetic of cron expressions, transfer windows and bandwidth limits: pure
  functions of the clock, taken as sets of times or as open and closed.
- The caches of Plex, Tautulli, Seerr and Maintainerr: `Tiers` takes what they know as
  fresh, stale or incomplete.
- History pruning, progress, logs: no other step reads them.

## Plan

1. Proofs: `Followed` of `MediaIndex`, `OneVersionPerJob` of `Versions`; then the components of the composed runs, `Restorable` of
   `ResticSync` first.
2. Composition: an event that goes through `Webhooks`, `MediaIndex` and `SyncRuns`,
   refining "every change is followed by a sync that planned after it".
3. The grain of `SyncItem` for links, moves and promotions at filecopy destinations.
4. The caches of the media index for Plex and Seerr.
