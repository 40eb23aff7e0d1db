# Transfera: TLA+ specifications

Transfera copies or moves photos and videos from a phone or a folder into a
*vault* (an archive directory). The part of the program where a mistake costs
the user a file is the transfer engine under `src/backend`: a background task
that takes every file through two hops (source → cache, cache → vault), HTTP
handlers that interfere with it, and a recovery that repairs what a crash left
behind. Around it stand services that reach the phone, show its contents, keep
thumbnails, curate the library and tell the window what happens. This directory
models the engine and these services, checks them with TLC and proves the
properties that matter most with TLAPS.

| File | Content |
|---|---|
| `TransferPipeline.tla` | one session: task, handlers, crash, shutdown, recovery |
| `MCTransferPipeline.tla` | bounds on failures and disturbances for TLC |
| `TransferPipelineProofs.tla` | eleven theorems about `TransferPipeline` |
| `VaultLedger.tla` | abstract specification of what a session promises |
| `ArchiveSlots.tla` | Hop 2 inside the vault: names, `.partial` files, retries, workers |
| `MCArchiveSlots.tla` | the instance TLC checks |
| `ArchiveSlotsProofs.tla` | five theorems about `ArchiveSlots` |
| `SessionTasks.tla`, `SessionTasksProofs.tla` | tasks and registries of one session, several tasks at once; four theorems |
| `ImportCutoff.tla` | incremental imports |
| `PreviewListing.tla` | cached listings of a phone and their reuse by a transfer |
| `DeviceThumbs.tla` | thumbnails of files not yet imported |
| `ImportProofs.tla` | four theorems about these three |
| `DeviceTiers.tla` | which of three ways to a phone serves a request |
| `AfcSessions.tla` | sessions of the Apple driver |
| `DeviceProofs.tla` | four theorems about these two |
| `BridgeWatch.tla` | the bridge in WSL and its watchdog |
| `TierSetup.tla` | the wizard that prepares WSL |
| `BridgeProofs.tla` | three theorems about these two |
| `LibraryThumbs.tla` | thumbnails of library rows |
| `LibraryCuration.tla` | trash, near duplicates, overwrite |
| `LibraryProofs.tla` | three theorems about these two |
| `EventFeed.tla` | WebSocket listeners, broadcasts, keepalive |
| `TransferView.tla` | what the window shows of a session |
| `WindowProofs.tla` | five theorems about these two |
| `MCServices.tla` | one instance of the twelve components from `SessionTasks` on |

`PROJECT.json` lists components, runs, mutants, findings, hazards, theorems and
the source lines each definition models.

## 1. Inventory

### Components, their state and their operations

**Session control** (`api/routes.py`). State: the `transfer_sessions` row
(`status`, `total_items`, `resolved_batch_id`, `duplicate_resolutions_json`) and
two process-wide dictionaries, `_active_tasks` and `_cancellation_events`.
Operations: start (also resume), pause, cancel, resolve duplicates, purge the
cache, delete, clear history. Correct when a request is never lost or undone by
the task, and an ended session stays ended.

**Background transfer task** (`_run_transfer_background`). State: the list of
batches it has still to take, the batch it is in, and the event it was started
with. It runs scan → batches → finalize. Correct when its last status
tells the truth about the items, and when it always ends.

**Batch manager** (`engines/batch_manager.py`). Cuts scanned items into batches
and sets `transfer_batches.status`. Correct when no item falls out of all
batches while its row is unfinished.

**Hop 1, cache manager** (`engines/cache_manager.py`). Copies a file into the
cache, stores its SHA-256 in a transaction of its own, marks `hop1_status`.
Correct when "cached" implies "hash on record".

**Hop 2, importer and organizer** (`engines/importer.py`, `engines/organizer.py`,
`utils/durability.py`). Looks for an earlier copy in the vault, claims a name
exclusively by creating its `.partial`, copies in a thread, renames, compares
the hash, re-reads a sample, commits the row, removes the cache file and, in
move mode, the original. Up to `COPY_CONCURRENCY` workers in local copy mode.
Correct when no file of the vault is overwritten, no second copy is made, the
row is never ahead of the file, and the original goes last.

**Recovery** (`engines/recovery.py`, `main.py`). At boot it requeues the
batches in state LOADING, ARCHIVED or PARTIAL, repairs their rows from what it
finds in the vault, removes what it takes for stale, and starts a task for every
session concerned. Correct when a crash at any moment loses no file and no
interrupted batch is forgotten.

**Scanner** (`engines/scanner.py`). Finds files, inserts or reuses
`media_items`. **Duplicate detection** (`engines/duplicate_detector.py`).
**Database** (`database/*`): SQLite behind `session_scope`, one transaction each.

**Device import cutoff** (`engines/device_import_state.py`). State: one date per
device. A finished session computes it from its items and the next incremental
scan skips what is older. Correct when no file that was never imported is skipped.

**Device routing** (`device_backend.py`). Three ways to a phone: Apple driver
(tier 1), WPD, bridge in WSL (tier 2). State: the user's preferences, the hint of
who served last, the map a transfer's reader is chosen from, counts of empty
listings and failed retries. Correct when a request fails only after the tiers
that are due, and a stale preference does not outlive what made it.

**Apple driver sessions** (`ios_device.py`). State: a pool of AFC sessions with
one lock each, the sessions of streaming readers, a cached trust verdict.
Correct when two threads are never inside one session and none is lost.

**WSL bridge** (`wsl_orchestrator.py`). State: a process in WSL, a watchdog task,
a restart count, "stopped on purpose". Correct when one watchdog watches a bridge
that was started. **WSL set-up** (`tier2_manager.py`, `api/tier2_routes.py`).
State: the distributions, the saved name, the attached phones. Correct when the
bridge starts where it was prepared.

**Device browsing** (`api/device_preview.py`). State: listings in memory and on
disk, each under a snapshot of the top folder. Correct when a transfer that
reuses a listing works on what is on the phone. **Device thumbnails** (same
file, `engines/thumb_worker.py`). State: RAM cache, disk cache, list of files
that cannot be decoded. Correct when a picture is not older than its key and only
what cannot be decoded is refused. **Library thumbnails**
(`engines/thumbnail_cache.py`, `thumbnail_ops.py`). State: pictures in memory by
row id, the status in the row. Correct when a picture belongs to the row that has
the id, and failed rows can be tried again.

**Event feed** (`api/websocket.py`). State: the listeners of a session, one
keepalive task. Correct when all listeners hear an event and only those that do
not answer are dropped. **Window** (`frontend/src`). State: the transfer slice of
the store, the query cache, the start guard. Correct when an end that is shown is
real and complete, and a session that waits can be started.

**Trash and duplicates** (`api/intelligence_routes.py`, the overwrite answer in
`api/routes.py`). State: `trashed_at` of the rows, the files of the vault.
Correct when a deletion removes only the files of the rows that were chosen.

**Not modelled**, with reasons, in section 5: reports, metadata and dates,
search and people, drivers, auth, configuration, desktop shell.

### How they interact

Handlers and task share the session row (through short transactions) and one
`asyncio.Event`. They are coroutines of one event loop, so they interleave at
every `await`. The hops share files with nobody but the cache purge and, inside
Hop 2, with each other through the copy threads. Recovery shares everything with
a task that no longer exists.

The services touch the engine at its edges: the scan asks the cutoff and may take
a listing from the preview; its readers are opened by the routing on AFC sessions;
the task and the handlers broadcast on the feed; the threads of both hops make
library thumbnails; the trash deletes what Hop 2 wrote. At each of these edges a
value passes once; no service reads a variable that another of them writes, except
through the row, the file or the phone that both models have as their own. Only
the feed and the window communicate by messages.

### What is hard

* A status read before an `await` and written after it: by start, pause and
  resolve, by the task's own pause, by finalize, which holds no lock.
* Recovery, which removes files one by one and stores its rows at the end, and
  which takes a file that it cannot read again for a bad one.
* Three records of one fact — row, batch, file — updated by separate steps; a
  crash may fall between any two.
* A batch is closed by Hop 1 *and* by Hop 2.
* Workers that look for a free name and create it, that let go of it and come
  back, and that find each other's unfinished work.
* Counts compared at the end with a total that was stored at the beginning.
* Caches with keys that are less than what they hold: row ids that are given
  again, names without versions, a snapshot of the top folder for a whole tree.
* Worker threads that go on after the coroutine that waited for them has gone.
* Lists and dictionaries walked across awaits while others change them.

The list with source lines and the property that covers each is `hazards` in
`PROJECT.json`.

## 2. The models

### TransferPipeline

A file is represented by its item: `i \in source`, `i \in cache`, `i \in vault`
say that the bytes of item `i` are there. Rows are functions on items
(`batchOf`, `hop1`, `final`, and the set `hashed`), batches a function from
`<<scan, number>>` to the batch status. `final` stands for `final_status` and
`hop2_status`, which are always written together.

| Code | Action |
|---|---|
| `start_session`, `pause_session`, `resolve_duplicates` up to their look at the status; from their commit on | `StartChecks`, `PauseChecks`, `ResolveChecks`; `StartSession`, `PauseSession`, `ResolveDuplicates` |
| `cancel_session`, purge | `CancelSession`, `PurgeCompletedCache` |
| `_phase_scan_and_create_batches` | `ScanReusesBatches`, `ScanSource`, `CreateBatches`, `StoreTotals`, `ScanFails` |
| `_phase_execute_batches` | `ExecuteStops`, `ExecuteDone`, `BatchWithoutDuplicates`, `BatchWithResolvedDuplicates`, `BatchWithNewDuplicates`, `DestinationLow`, `SelfPause` |
| `cache_batch`, `_cache_single_item` | `CacheFails`, `CacheHit`, `CopyToCache`, `StoreSourceHash`, `MarkHop1Completed`, `DeviceLost`, `Hop1Ends` |
| `import_batch`, `_import_single_item` | `EnterHop2`, `Hop2Chunk`, `ImportFails`, `PublishToVault`, `MarkHop2Completed`, `CleanupCacheFile`, `UnlinkSource`, `Hop2Ends` |
| `_phase_finalize` (the look at the status, then its own), exception path | `FinalizeSkips`, `FinalizeReads`, `FinalizeStores`, `TaskRaises` |
| lifespan, crash, `recover_interrupted_batches` | `Shutdown`, `Crash`, `Boot`, `RecoverLoadingBatch`, `RecoverPartialBatch`, `NextBatchToRecover`, `RecoveryDone` |
| `_recover_archived_batch`: begin, one item, commit, clean-up | `RecoverArchivedBatch`, `RecoveryVerifies`, `RecoveryMisreads`, `RecoveryRemovesStale`, `RecoveryFindsNothing`, `RecoveryStoresRows`, `RecoverySweeps` |

A step is what runs between two awaits at which another handler could do
something the properties see. `pc` is the phase of the task, `stage[i]` the
progress of one item inside a hop, so a crash, a pause or a purge can fall
between the copy and its hash, the publication and its commit, the commit and
the clean-up, the clean-up and the unlink. `event` has three values because the
code has three cases: no event registered (a task restarted by
`resolve_duplicates`), registered, and set.

A handler is in `asked` from its look at the status to its commit, and `holder` is
the handler that has the lock of the session. Finalize takes no lock, so it may
store an end in between, and the handler then overwrites it; when the task cleans
up it drops the lock from the dictionary, and another handler gets inside beside
the first. The recovery of an ARCHIVED batch goes through its items in order
(`todo`), collects those it has verified (`done`), and stores the rows of all of
them in one transaction at the end, so that a crash before that leaves rows that
still say COMPLETED although the file was removed: `HalfRecovered`. An item whose
hash is on record is verified by reading its file twice; when the second reading
raises, the code falls through to the removal, and `misread` keeps such items.

What is abstracted:

* `.partial` files: publication is atomic here; `ArchiveSlots` opens it up.
* The hash: a file of item `i` verifies against the hash of item `i` and against
  no other. Items of one session have distinct contents, bytes do not rot. A
  file *without* a hash on record is looked for by name and size only, and
  `LookAlike[i]` names the other files this can hit.
* Which batches contain duplicates: nondeterministic.
* Which failures occur: every one the code handles may occur at any time.
* Display counters, events, reports, thumbnails: left out.

The rest of the difference between model and code:

* There is one task at a time. In the code a start waits two seconds for the old
  task, `resolve_duplicates` does not look for one, and requests are served
  while recovery runs, so that two tasks may overlap: that is `SessionTasks`.
* From its commit on a start is one step (cancelling the old task, making the new
  one), and so are applying resolutions and clearing them. A recovery that fails as
  a whole is left out.
* Two items with one cache path and pre-scan sessions are left out; the resolution
  "overwrite" is in `LibraryCuration`, the deletion of sessions in `SessionTasks`; `BatchSize` is any positive number
  (the code clamps it to 10..500).
* Originals disappear only by the program's hand.

### VaultLedger and the refinement

`VaultLedger` has no batches, hops, cache or processes: four sets of items
(source, vault, ledger, verified) and six actions. It says that only what is in
the vault is written down, that only what is written down may leave the source,
that an unverified copy may be taken back, or one that cannot be read again given
up, if it is struck off the ledger in the same step, and that every other copy
stays. `ImplementsLedger` in `TransferPipeline` maps `verified` to the hashed items
that were not misread, and `ledger` to the rows in force: those that say COMPLETED,
are not skips, and whose file is there or whose batch no recovery has in hand. For
the code removes the file first and the row follows in a later transaction: until
then nobody but recovery reads it. Run `ledger` checks every step.

### ArchiveSlots

Here the vault has names. A slot is an item's file name with a number: 1 is the name
itself, 2 and up the conflict names of `claim_archive_path`. `archived[s]` and
`partial[s]` are the two files of a slot; a file is the *set of contents written
into it*, so an overlap of two writers is visible as a file that is neither's.

| Code | Action |
|---|---|
| `locate_archive_file` in `_import_single_item` | `AlreadyArchived` |
| `claim_archive_path` | `Claim` |
| early returns | `Refused` |
| `_copy_and_hash_sync` in its thread: open, write | `OpenPartial`, `EndCopy` |
| exception of copy, fsync or rename | `CopyFails` |
| `durable_replace`, hash compare and removal | `Publish`, `RejectCopy` |
| `_should_sample_verify`, read back | `CheckPasses`, `CheckFails` |
| row commit, failed commit | `MarkCompleted`, `MarkFailed` |
| import after cancel or rescan; after a crash | `StartedAgain`, `Recovered` |

`Publish` and `RejectCopy` are one step each from the rename to the end of the
comparison, because no await lies between; a crash exactly inside is not
modelled. A copy thread that outlives its cancelled coroutine is represented by
the `.partial` it leaves, not by its later writes. All items of the model have a
hash; `TransferPipeline` covers those that have not. One folder per name;
the search of other folders finds nothing new then. A copy that `_matches` cannot
read is not found: `Claim` may come although there is one, and `overlooked` keeps
its name. Recovery may find, verify or, when it cannot read a copy again, remove
it (`MayFind`), in one step; `removed` keeps the names concerned. `parallel` is drawn in
`Init` because `use_parallel` depends on the session only. `rejected` is a history
variable for the properties.

### SessionTasks

Follows the *tasks* of one session and leaves out its files. A task number also
names the `asyncio.Event` made for it: `event` is `_cancellation_events[id]`,
`listens[t]` the event task `t` got hold of, `fired` the events that are set,
`active` is `_active_tasks[id]`. `request[c]` is a handler between its awaits:
waiting for the session's lock, inside with the status read, stored with the
status committed, stopping while a start waits for the old task.

| Code | Action |
|---|---|
| start, pause, cancel, resolve under `_get_session_lock` | `Arrive`, `Enter`, `Refuse`, `Commit`, `PauseOrCancelSignals`, `StartStopsOldTask`, `StartHasWaited`, `StartFindsNoTask`, `ResolveQueuesTask` |
| delete, clear history | `DeleteChecks`, `DeleteRows`, `DeleteCleansUp` |
| `_run_transfer_background` | `TaskRegisters`, `ScanEnds`, `TakeBatch`, `BatchEnds`, `PauseItself`, `AllBatchesTaken`, `Finalize`, `TaskLeaves`, `TaskFails`, `FailureIsStored`, `TaskCancelled` |
| lifespan, recovery | `DrainSignals`, `EngineStops`, `EngineBoots`, `RecoverBatches`, `AutoResume`, `TriggerRecovery` |

A lock object dropped from the dictionary lives on with those that hold it, so
two handlers may be inside two locks of one session. All batches are one flag,
`stuck`. The history variable `lapses` names what the registries do not protect
from, and each property excepts exactly the lapses it needs: "overlap" (a task
begun by `resolve_duplicates` or auto-resume, or one that had not registered
yet), "timeout" (the two seconds passed), "deaf" (a task without an event),
"split" (a handler got inside beside another one, whose lock a clean-up had
dropped), "evicted" (a delete took the registration of an ended session's task
that was still there), "forgotten" (a stop between two batches, or `POST
/recovery` during the recovery at boot, which leaves it nothing to resume).

### ImportCutoff

Files appear on the phone in the order of their modification times, sessions scan
(`ScanDevice`), complete some of their items (`FinalizeImport`) and compute the
cutoff (`UpdateCutoff`, or `CutoffIsNotStored` when that raises). A scan compares
modification times with a cutoff made of capture dates, and the model keeps the
two clocks apart. `excused` records what takes the cutoff past a file it never
saw: a session of hand-picked files, a fall-back date (`created_at` or
`completed_at` of the session), a capture date later than the modification time.

### DeviceTiers

One phone. `RequestArrives`, `TierListsPhone`, `ListingEnds` are a listing, one
tier after the other and each an await; `TierFails`, `TierServes`,
`TierIsTerminal`, `OperationFails`, `RetryFails` are `_run_operation` on the chain
that `ResolveBackend` and `FallbackChain` compute. `due` are the tiers that an
operation has to ask before it fails: all that could be used when it began, except
those that the default order puts before the hint it began with (`PutBefore`),
because the chain behind a hint starts at the hint. Settings, detection and restart are the
other actions. What a tier does inside is a success or a failure.

### AfcSessions

A session is a number; `threads[n]` counts the worker threads inside it, also those
whose caller has gone. `AcquireSlot`, `Connected`, `ReleaseSlot`,
`OperationRaises`, `PhoneIsLocked`, `OperationCancelled` and `DropAllSlots` are
`pooled_afc_service` and its slots; `OpenReader`, `ClosesFile`, `ClosesSession`,
`CloseReader` the readers of a transfer; `ProbeBegins` to `TrustAges` the trust
cache. A partial read that timed out closes its file in a second thread
(`PartialReadCloses`), a reader closes its file and its session in threads of their
own, whether or not the read is over (`ended`): `overrun` names the sessions in
which this was the case. `ConnectTimesOut` gives up a connection that may still
open a session (`ConnectsLate`, `pending`). `lost` counts the sessions
that the code loses: a `CancelledError` passes both handlers of
`pooled_afc_service`, a reader that fails to open its file is never closed, and
nobody has the session of a connection that was given up.

### BridgeWatch

Every coroutine that may start the bridge has a `step` and the process it last
spawned; `pkill` ends all of them. `StartBridge` … `PollReaches` are
`start_bridge`, `StopBegins`, `Unhook`, `KillBridge` are `stop_bridge` inside it,
`CleanupBegins`, `CleanupChecks` the clean-up at boot, `DogWakes`, `DogProbes` the
watchdog loop. A watchdog that restarts the bridge cancels itself, drops the
`CancelledError` and goes on without being registered: `unhooked` names such dogs.

### TierSetup

`ResolveDistro` is `get_transfera_wsl_distro`, and `WslDistros` what it can return
when the file with the saved name, or the listing, cannot be read. `ProvisionBegins`,
`ProvisionFails`, `ProvisionDeploys`, then `ProvisionSaves` or `ProvisionCannotSave`
and `InstallDistro` are the wizard; `SetupRestarts` is a stop of the engine, which
may come between script and name or leave an empty file; `UserInstalls` and
`UserUnregisters` are what the user does in a terminal, `RecoveryBegins`,
`RecoveryAttaches`, `HandleAppleDevice` the USB attachment. `spoilt` are the
distributions the user removed or whose script could not be copied, a failure that
the step only logs.

### PreviewListing

The phone is two numbers, the version of its top folder and of what lies below. A
walk returns both, a snapshot the first only. Preview requests
(`PreviewHit` … `PreviewStores`), background refreshes (`RefreshBegins`,
`RefreshWalks`, `RefreshStores`), purges, and a transfer created from a preview
(`CreateWithScan`, `ScanReuses`) share the two caches. `reuse.how` says whether the
listing was compared with a snapshot of now: one that is in memory under the folder
of the transfer is, one that is only on disk is taken as it is. A change of the phone
between a walk and its snapshot is marked in the walk (`moved`), because the
listing is then stored under a snapshot it was not taken of.

### DeviceThumbs

One file with versions. A request (`RequestsThumb`, `ThumbLooksAround`,
`ThumbReadsPrefix`, `ThumbReadsWhole`, `ThumbGoesToRam`, `ThumbGoesToDisk`,
`ThumbIsGrey`) or the prefetch may decode the staged copy, a prefix or the whole
file, at a version later than the one it was asked for. A request has the version
its listing saw as its key, or `Unsized` when the listing had no size and time: all
versions share that key, and any staged copy serves it. `hasty` are the keys under
which a decoder was killed for its time, or a local file did not open
(`ThumbDoesNotOpen`), which the code takes for a file that cannot be decoded.

### LibraryThumbs

One row id and its successive owners. Makers of thumbnails — the grid, a
regeneration with its generation number, the threads of a transfer — know the row
by id once they have the picture (`Decodes`, `RegenDecodes`, `RegenKeeps`,
`MarksRow`). Deletion removes the picture and then the row, the LRU the picture
only (`evicted`). `late` are makers that make a picture once more — they began when
it had been evicted, or were at work when another stored it — and `causes` records
that one of them failed, or that a row was deleted while a picture was under way.

### EventFeed

`conns` is the very list that `broadcast` walks by index while `Connects`,
`EndpointEnds`, `CastEnds` and `KeeperEndsRound` change it; `listObject` tells an
emptied list from its successor. The keepalive task goes through a copy
(`KeeperClears` … `KeeperEndsRound`). `shifted` says that a listener the walk had
passed has left, after which the walk skips one.

### TransferView

The store slice (`view`), the query caches (`known`, `progress`), answers on their
way (`poll`), events on the wire, the start guard, and the rows of the engine
behind. React effects are actions of their own where they run later than the change
that triggers them (`PollIsShown`, `AutoStart`). `autoStarted` is the page's own
guard: set by an automatic start, let go only by an error, it keeps the Start button
inert for whatever the page shows then; but such a page starts a session that waits
itself once it has fetched it (`StartsItself`). `recycled`, `orphaned` and
`overtaken` name the exceptions: an id cached across "clear sessions", a start
whose callbacks went with the page or whose id was given again, an end that
overtook an older answer.

### LibraryCuration

Rows by id, files by content. `ItemIsImported` finds an earlier copy and makes
none, as Hop 2 does, so two rows may share a file. `TrashItem`, `RestoreItem`,
`ResolveGroup`, `OverwriteDuplicates` are requests; `EmptySelects`,
`EmptyUnlinks`, `EmptyCommits`, `EmptyIsLost` the emptying of the trash across its
awaits. `repeated` are contents that two rows are about, `interrupted` rows whose
file a failed deletion removed. `unhashed` are rows whose hash could not be stored:
for them any file of that name and size is located (`LocatedFiles`), and `misled`
are contents that went this way for another's.

### Composition

`MCServices` puts the twelve side by side. They share no variable, so a behaviour
steps in one of them, chosen at the start, while the others rest; the states are
the sum over the parts and not the product. The edges to the engine are inputs:
`ImportCutoff` lets any subset of a session's items complete, `SessionTasks` lets a
batch end or fail at any time, `EventFeed` broadcasts at any time. The
composition of models that do share state is `ImplementsLedger`, and the task,
handlers, recovery and files inside `TransferPipeline`.

## 3. Runs

Deadlock is not an error in any run: a session that ended and a batch that was
imported may rest for ever, and the bounds stop the rest.

| Run | Instance | Shows |
|---|---|---|
| `copy` | 3 items in batches of 2, two parallel workers, 2 scans, 3 disturbances, 2 failures | `CompletedInVault`, `CachedIsHashed`, `InterruptedIsResumed`, `CompletedMeansAll`, `EndedStaysEnded`, `TypeOK` |
| `move` | 3 items, a library file and item 1 that look like item 2; move mode, 3 disturbances, 1 failure | `NoLoss`, `VerifiedStays`, `UnlinkAfterCommit`, `CacheGoesLast` |
| `ledger` | 2 items in 2 batches, device source, move mode, fairness | `TaskEndsAgain`, `ImplementsLedger` |
| `slots` | 3 items of one name, two with the same bytes, the name taken by a foreign file; 1 or 2 workers, 2 attempts, 2 imports, 3 names | `ClaimIsExclusiveUntilRejected`, `CompletedHasFile`, `FilesStay`, `NoSecondCopy`, `ImportEnds`, `TypeOK` |
| `services` | the twelve components, bounds below; 1.49 million distinct states | one to three properties of each, 22 in all |

A *disturbance* is a request, a crash, a shutdown or an exception of the task; a
*failure* is a failed file operation that the disks do not force. Three
disturbances allow pause–start–crash, start–crash–cancel, and
resolve–pause–resume, each request with its look and its commit wherever they fall;
a second crash inside the recovery of the first is among them; two failures in a batch of two allow one
batch to fail and another to be partial. Three items in batches of two give one
full batch, one short one, and two workers in one chunk. Two scans let a row be
reused in a new batch; `MaxScans` is the only bound inside `TransferPipeline`
itself. In `slots`, three names for three items of which one name is taken make
the names run out, and two imports are what one crash and its recovery need.
Larger instances were not needed to find any of the violations below, and
the theorems of section 4 hold without these bounds.

Bounds of `services`, chosen so that the case each property is about happens; the
mutants show that it does:

| Part | Bounds | Why they suffice |
|---|---|---|
| tasks | 2 tasks, 2 requests, 2 clients; crashes and boots unbounded | an old and a new task, a pause or cancel against a start, a task of auto-resume beside one of a request |
| cutoff | 3 files (one undated, one modified after it was taken), 2 sessions | a failed file older than a completed one, and a second session that is to find it |
| tiers | 2 clients, 2 requests or settings, 2 misses to purge | a listing that overlaps an operation and rewrites its hint |
| afc | 2 callers, pool of 1, 1 cancellation or connection given up, 3 threads, trust windows of 1 tick; probes only while no session is open | a racer that fills the pool, a thread that outlives its caller, a second thread beside it |
| bridge | 1 starter, 2 watchdogs, 3 starts | a watchdog that restarts the bridge while a request starts it |
| setup | 2 wizards, 2 distributions, 1 phone | one prepared, another installed or removed meanwhile, a restart before the name is saved |
| listing | 1 viewer, 2 sorts, 1 change, one refresh at a time; a behaviour ends with the reuse | a walk, a change, a snapshot, a refresh in another sort and a reuse |
| thumbs | 1 request and the prefetch, 2 versions of sizes 1 and 2 and the key without a size, the second undecodable; one hasty key | the file replaced between listing and read |
| library | 1 request, 1 regeneration, the transfer, 2 owners of the id; a behaviour ends with a deletion that no maker saw | a deletion and a new row under a decode, an eviction and a second picture |
| feed | 2 connections, 2 broadcasts, 2 rounds | one dies while the other listens, an answer of an earlier round |
| view | 2 ids, 3 creations and starts; a behaviour ends when an id is recycled, and the second id comes without polls, events and cancellations | the id deleted and given again, a page that shows another session than it started |
| curation | 3 rows, one of which may have no hash, 2 contents of one name and look, 2 sessions | the same photo twice, a near duplicate, another of the same name |

The bounds after a semicolon are `InScope` in `MCServices`, a state constraint: TLC
checks the properties in the states it cuts off and does not go on from them. Where
a property has nothing more to say of what follows (a deletion no maker saw, a
recycled id, the listing that was taken) nothing is lost; the others keep the parts
apart that do not act on one another, and the proofs do without them. No run uses
symmetry.

### Disagreements between the code and what it says

Each run checks one sentence of a comment or document; TLC refutes it.

| Run | What happens |
|---|---|
| `pause_finalized` | A pause in the last batch: the batch loop still returns True and finalize writes FAILED or COMPLETED_WITH_ERRORS over PAUSED, with the batch half-way. |
| `cancel_lost` | The task's own pause and its exception path overwrite a CANCELLED that arrived since it last looked. |
| `move_loses_file` | Move mode; the source hash could not be stored. Hop 2 imports unverified, cleans up, unlinks the original; after a crash before the batch closes, recovery has no hash to check and removes the file. |
| `low_disk_strands` | Hop 1 has closed the batch when the disk guard pauses the session; a resume takes the open batches, and this batch's items stay PENDING. |
| `skip_imported` | A skipped item is cached and imported all the same. |
| `slots_retry` | After a rejected copy the worker has no name any more; its retry writes to it without a claim, while another worker has claimed it. |
| `empties_kept` | A photo imported twice is two rows and one file; both rows are near duplicates. Keeping one and emptying the trash unlinks the file of the kept one. |

Met while modelling, with no sentence to refute: a COMPLETED row goes back to
FAILED when a move-mode resume meets its batch again ("Cache file missing");
a crash between two batches leaves a session RUNNING with no task and no
auto-resume; a crash between the creation of the batches and the storing of the
total leaves 0, and a complete transfer ends FAILED; in move mode a rescan
lowers the total, so a session with failed items may end COMPLETED.
Also: the lock of a session is to "prevent concurrent start/resume/pause races"
(`routes.py:206`), but every clean-up drops it from the dictionary while a handler
may hold it, and the next handler makes another and gets inside beside the first;
that a "leftover `_active_tasks` entry ... is stale bookkeeping" (`routes.py:270`) is not so of the
task of a cancelled session that has not left yet: deleting takes its registration.
`OneTaskRuns` and `StoppedTaskIsSignalled` need both excepted: without "split" or
"evicted" TLC finds them violated, with up to three tasks and four or five
requests, which is more than run `services` has.
`POST /recovery` while the recovery at boot runs leaves that one nothing to
resume; a broadcast skips a listener when one it has passed leaves; a watchdog
that restarts the bridge goes on unregistered beside its successor, and a bridge
that exits is counted twice towards the limit of starts; a cancelled operation
leaves its AFC slot locked, and a reader that cannot open its file leaves a session
open; a partial read that timed out, and a reader whose read did, are closed from a
second thread while the first is inside, although "services are not safe for
concurrent use" (`ios_device.py:682`); a connection that timed out may open a session
nobody has; a hint hides the tiers before it from an operation; a listing that is only on
disk is reused without comparing it with the phone, although "reuse is ALWAYS
snapshot-gated" (`device_preview.py:928`); a decoder killed for its time, or a local
file that cannot be opened, makes a file "undecodable" for a day; a listing without
sizes files all versions of a picture under one key; a saved WSL distribution that
cannot be read is passed over for the default; a row without a hash takes a file of
the same name and size into the trash with it; a pause, start or resolve that looked
before finalize stored an end overwrites that end; recovery removes a good copy that
it could read once and not twice, and removes before it stores; "clear sessions" leaves cached sessions
behind; resolving a group does not look whether the keeper is in the trash, and a
restore during the emptying is lost.
The properties name these cases in their history variables and hold outside them.

The property `CompletedMeansAll` is stated for copy mode, and
`NoLoss` for items whose hash is on record and that look like no other, files
excepted that recovery could not read again.

### Fairness

`TaskStep`: the event loop runs a coroutine that is ready, and every I/O call
returns or raises. `Boot` and `Recovery`: the user starts the program again, and
the recovery loop is a `for` over finitely many batches. `WorkerStep` in
`ArchiveSlots`: the same for the workers and their threads. No fairness is
assumed of requests, failures or crashes, nor which of several possible steps is
taken, and only weak fairness is used. `TaskEndsAgain` holds because crashes and
requests are bounded in the instance; without that bound a user may restart for
ever. The `services` run assumes no fairness: its properties are safety.

### Mutants

Every property of a passing run has a mutant: a plausible bug in one mapped
definition (`InterruptedInHop1Only`, `CleanedBeforeCommit`,
`IgnoresReservations`, `LeavesTaskAlone`, `WithoutOverlap`, ...), stated in the module next to the
code it replaces, under which TLC finds that property violated.

## 4. Proofs

Every invariant and every action property of the passing runs is a theorem here, for
every value of the constants that satisfies the named assumptions of the modules,
and without the bounds of the MC modules:
`ConstantsAssumption` and `SlotsAssumption` (item ids are numbers, finitely many;
library files are not items; sizes are positive), `SessionAssumption` (the number of
tasks is a number; there may be any number of clients), `AfcAssumption` (finitely many
callers, pool size and cancellations are numbers), `DogsAssumption` (watchdogs are
positive numbers), `DistrosAssumption` (Ubuntu is a name, the empty name is none),
`VersionsAssumption` (at least one version), `CutoffAssumption` (finitely many
files, dates are numbers, the overlap is positive), `LibraryAssumption` (a grid is
neither a regeneration nor the transfer), `ViewAssumption` (session ids are positive
numbers).

### TransferPipelineProofs

| Theorem | Property |
|---|---|
| `TypeCorrect` | `TypeOK` |
| `NothingLost` | `NoLoss` |
| `RecordsAreTrue` | `CompletedInVault` |
| `VerifiedCopiesStay` | `VerifiedStays` |
| `OriginalGoesLast` | `UnlinkAfterCommit` |
| `CacheFileGoesLast` | `CacheGoesLast` |
| `CachedFilesAreHashed` | `CachedIsHashed` |
| `InterruptedAreResumed` | `InterruptedIsResumed` |
| `CompletedMeansAllItems` | `CompletedMeansAll` |
| `EndedSessionsStayEnded` | `EndedStaysEnded` |
| `PipelineImplementsLedger` | `ImplementsLedger` |

`TypeOK` is inductive. The two file properties are not: whether it is safe to
remove an original depends on what Hop 2 did some steps ago, and that is recorded
in `stage` only. The inductive invariant is

    IInv    == TypeOK /\ StageInv /\ FileInv
    FileInv == ItemInv /\ RecoverInv /\ NoLoss /\ CompletedInVault

`StageInv` says that items are in flight only inside a hop, each hop with its own
stages, and that no task runs while the process is down or recovering. `ItemInv`
says what a stage stands for: "copied" that the source was there,
"published" and later that the file is in the vault, "committed" and later that
the row is COMPLETED, "cleaned" that the session moves. `RecoverInv` says the same of
what recovery has in hand between two transactions: the batch is still ARCHIVED,
what it has verified is hashed and in the vault, and a file it gave up is gone. The
hard steps are those of `_recover_archived_batch` on one item (lemma
`FilesRecoverItem`); `RecoveryRemoves` shows that a stale file it removes looks like
an item without a hash, so never is an item that is `Distinct` and hashed or in
another batch, and every row whose file went is `HalfRecovered` until
`RecoveryStoresRows` (lemma `FilesStoreRows`). The three action properties follow
from `IInv` and `OnlyRemovals`, which names the few actions that
remove any file.

The others need one part more each. `HashInv`: an item at stage "hashed" has its
hash on record. `TotalInv`: in copy mode the source is complete, a scan takes up
all of it, and the stored total is 0 or the number of items, so that a COMPLETED
count equal to it means all of them (by the cardinality of subsets).
`EndedInv`: the task of a session that ended by itself never gets as far as a
hop, so that only a handler that has looked before can change the status. `InterruptedIsResumed` is inductive beside `IInv`.

`PipelineImplementsLedger` assumes that every item is `Distinct` (nothing in the
vault looks like it). Each action of the pipeline is then a step of the ledger under
the mapping, or leaves `source`, the items in the vault, the rows in force and the
verified items alone. The cases to argue are publication, the commit, the unlink and the
steps of recovery on an archived batch, which take back what is not hashed and give
up what cannot be read again (lemmas `RecoveryOfItem`, `RecoveryOfRows`,
`RecoveryAround`).

### ArchiveSlotsProofs

| Theorem | Property |
|---|---|
| `TypeCorrect` | `TypeOK` |
| `ClaimsExclude` | `ClaimIsExclusiveUntilRejected` |
| `CompletedIsArchived` | `CompletedHasFile` |
| `ArchiveStays` | `FilesStay` |
| `CopiesAreNotRepeated` | `NoSecondCopy` |

    IInv == TypeOK /\ SoloInv /\ SlotInv /\ ClaimIsExclusiveUntilRejected
              /\ FileInv /\ RowInv

Exclusion of names is not inductive on its own: a worker can only be refused a
name if the holder's files are there. `FileInv` says which file of the name
exists at every stage; `SlotInv` who holds a name; `SoloInv` that without
`parallel` one item is under way at a time. `RowInv` is the strengthening of
`CompletedHasFile`: the file a row counts on is not one that a single worker is
about to remove. With several workers this is false — an item may be
recorded against a copy that another worker is still checking — and then the
removal of that copy puts the name into `rejected`. The condition `Disturbed`
(a copy of the name was rejected in parallel mode) is thus
where the guarantees of the code end, which run `slots_retry` shows; the other
place is a recovery that removes a copy it cannot read, on which an earlier item of
the batch with the same bytes was verified (lemmas `RecoveredFiles`,
`RecoveredKeeps`).

`NoSecondCopy` counts, and needs what is not yet a copy but will be one without
another claim: `Places(i)` are the copies of an item and the names that an item with
its bytes holds. `PlacesInv` bounds their number; each step adds at most a name that
an item claims, and then all of them are held, one by each item (lemmas
`OnePlaceEach`, `FewerPlaces`); a name with a copy that was overlooked is excepted. `WaitingInv` says that a complete `.partial` belongs
to a worker that has not published it, or to nobody (lemma `CopyComesToHolder`).

### SessionTasksProofs

| Theorem | Property | Part of the invariant |
|---|---|---|
| `NoTwoTasks` | `OneTaskRuns` | `RegistryInv`, `DoomInv` |
| `StopReachesTask` | `StoppedTaskIsSignalled` | `HearInv`, `SignalInv` |
| `NoneStranded` | `RunningHasTask` | `CarryInv` |

    SessionInv == SessionTypeOK /\ BookInv /\ ChargeInv /\ RegistryInv /\ DoomInv
                    /\ HearInv /\ SignalInv /\ CarryInv

Nothing in the code says directly that one task runs: it follows from the row, the
registration, the event and the lock together, and each part below is about one of
them. `ChargeInv`: as long as no lock was dropped under it, a handler is alone
inside, and no other one cancels. `RegistryInv`: a task that goes on without its
registration is about to leave a session that has ended, and none is registered while
one is queued or a start waits. `DoomInv`: a task that was told to go has gone before
the start that told it goes on. So of two tasks at work, one is registered and the
other cannot be there (lemma `OneEngaged`). `HearInv`: the registered task listens to
the session's event. `SignalInv`: who stores PAUSED or CANCELLED has set that event,
or is about to. `CarryInv`: a RUNNING session is handed from handler to task to
recovery. Each part is kept by every step given those before it, and has a lemma of
its own (`NextCharge`, `NextRegistry`, ...).

### Proofs about the services

| Module | Theorem | Property | Inductive invariant |
|---|---|---|---|
| `ImportProofs` | `NothingIsPassedOver` | `NonePassedOver` | `CutoffInv` |
| | `ReusedListingIsFresh` | `ReuseIsFresh` | `ListInv` |
| | `DiskThumbsAreNotStale`, `RefusedAreUndecodable` | `DiskThumbNotStale`, `RefusedIsUndecodable` | `ThumbInv` |
| `DeviceProofs` | `ThreadsAreAlone` | `OneThreadPerSession` | `AfcInv` |
| | `SessionsAreAccounted` | `SessionsAccounted` | `AfcInv`, `AccountInv` |
| | `FailsOnlyAfterAllTiers`, `DriverIsUsedAgain` | `FailsAfterAllTiers`, `RecoveredDriverIsUsed` | `TierInv` |
| `BridgeProofs` | `WatchdogsAreRegistered` | `WatchdogIsRegistered` | `WatchInv` |
| | `BridgeIsWatchedAlways` | `BridgeIsWatched` | `WatchInv`, `WatchedInv` |
| | `BridgeIsWherePrepared` | `StartsWherePrepared` | `SetupInv` |
| `LibraryProofs` | `ThumbsAreOwn`, `FailuresAreRetried` | `ThumbIsOfItem`, `FailureIsRetried` | `LibraryInv` |
| | `OthersAreSpared` | `OthersKeepTheirFile` | `CurationInv` |
| `WindowProofs` | `AllListenersHear` | `ListenersHear` | `WalkInv` |
| | `AnswersDecide` | `PongDecides` | `FeedInv` |
| | `EndsAreReal`, `EndsAreComplete`, `WaitingSessionsCanStart` | `ShownEndIsReal`, `EndIsShownInFull`, `WaitingCanStart` | `ViewInv` |

* `CutoffInv`: the property alone says nothing of a session under way. `ScanInv` adds
  what its scan stands for: what it found is older than the session, and what it
  did not find, and nobody imported, is not. `ClockInv`: no date lies in the future.
  The cutoff is the oldest date of what failed, or the newest of what was found;
  lemma `LeastNatural` (well-foundedness of the numbers) and the boundedness of
  finite sets show that these dates exist. Then what failed is younger than the
  cutoff less the overlap.
* `AfcInv`: a caller that holds a session is the only one and has
  its lock, or reads outside the pool (`HoldInv`); a slot that can be handed out has
  no thread inside (`FreeSlotInv`); more than one thread is only where a caller has
  closed what a timed-out read still used (`CrowdInv`). So what is handed out is
  empty, although threads may outlive callers in slots that were dropped or stayed
  locked.
* `AccountInv`: of the sessions of the pool and those open outside it, only as many
  are nobody's as were counted in `lost`, less the connections that may still come. `SlotInv` says where the session of a caller
  is to be found, so that releasing it cannot leave it behind; a step that strays a
  session counts one (lemma `StillAccounted`).
* `TierInv`: a tier that is due was tried or comes later in the chain. The lemmas
  about the order of the tiers say that `WaterfallOrder` holds every tier that can be
  asked, whatever is moved to its front, and that nothing due comes before the tier
  that is resolved (`ChainHolds`, `OperationIsComplete`). `DriverIsUsedAgain` is about
  steps: only `ListingEnds` ends a listing whose row is there.
* `WatchInv` is the property and the types. `WatchedInv`: once a start has found the
  bridge reachable, somebody is stopping it, or a watchdog watches and it does not
  count as stopped. `SetupInv` says that what is saved, or deployed and about to be,
  is prepared or spoilt; the name that is saved is the one that was deployed, whatever
  came between.
* `ListInv`: a listing filed under a snapshot was walked over that top folder, in
  memory, on disk and in every walk that waits for its snapshot; reuse of what is in
  memory compares the snapshot with the phone's.
* `ThumbInv` follows the requests: a picture under way may stand for the version in
  its key, and a request that has lost has seen a version that cannot be decoded, or
  its key is hasty.
* `LibraryInv`: whoever may still put a picture knows the row that has the id, or was
  overtaken (`OwnerInv`). A row that names a picture says "ready", the picture is there
  or was evicted, and whoever is at work then is late (`AloneInv`): any number of
  makers may be, and only the failure of a late one can strand the row.
* `CurationInv`: a content that was never repeated is that of one row, counting those
  the emptying has selected (`OneRowPerContent`); then removing the files of chosen
  rows spares the others, except what a row without a hash was misled to (lemma
  `RemovalSpares`).
* `WalkInv`: whom a broadcast owes its event is in the list it walks, and whom it has
  passed has heard of it. The lemmas on `LeftWithout` say what remains of a list and
  in which order. `PongInv`: a round comes to each listener once, and while it waits
  for one the event tells whether this ping was answered.
* `ViewInv`: what was read of a session lags behind its row, and what is on its way
  is not older than what has arrived (`ReadInv`); only a mounted page has a link
  (`LinkInv`); the count of a completed session is shown, is about to be, or is on its
  way (`CountInv`); a guard is that of the request under way (`GuardInv`). `StartInv`: a page has started
  a session only if it is there and has fetched one, and of a session that waits
  nothing else is cached, so that a page that fetches it starts it. Lemma
  `NewIdIsFree` shows that the id of a new session is not that of a row.

TLC checked `SessionInv`, `ViewInv` and the other invariants on small instances
before they were proved.

### Only model-checked

* `TaskEndsAgain` and `ImportEnds`: liveness under fairness is out of the prover's
  reach.
* That the sentences of the runs that end in a violation are false: TLC's
  counterexamples show it.

## 5. Plan

The engine came first, then its abstract ledger, the names of the vault, the
tasks of a session, and the services by the harm they can do: imports that pass
over files, deletions, device access, caches, display. What would add most next:

1. Theorems: the refinement of the ledger without the assumption that no two files
   look alike; abstract specifications of the session's registries and of the vault's
   names, and that `SessionTasks` and `ArchiveSlots` implement them.
2. Liveness of the services: a request that waits for the session's lock is
   answered, a watchdog brings a dead bridge back, a round of pings ends.
3. `TransferPipeline` with the tasks of `SessionTasks`, so that two tasks that
   overlap can be followed through the items of one batch.

### Not modelled

* People and faces, embeddings, search, tags and their backfill: they analyse the
  library, write tables of their own, and neither move files nor change the rows of
  a transfer.
* Metadata and dates: pure functions of the content of a file; the models take the
  date of an item as given.
* The walk of the scanner, pre-scan sessions, editing the options of a session:
  the walk yields a set of files, which the models take as given.
* Reports and manifests: written after the end of a session and read by nobody.
* Auth and rate limit: checks of one request without influence on the state above.
* Configuration and launcher, desktop shell and native helper: processes, ports and
  windows; the constants they set are CONSTANTS here.
* Drivers: calls of Windows, WPD, usbipd and the phone. Their outcomes, failure
  and timeout among them, are choices of the models.
