-------------------------- MODULE TransferPipeline --------------------------
(***************************************************************************)
(* One transfer session of Transfera: the background task that scans the   *)
(* source, cuts the items into batches and takes every batch through Hop 1 *)
(* (source -> cache) and Hop 2 (cache -> vault), the HTTP handlers that    *)
(* start, pause, cancel and resume it, crash, shutdown, and the recovery   *)
(* of interrupted batches at the next boot.                                *)
(*                                                                         *)
(* A file is represented by the item it holds: i \in source, i \in cache   *)
(* and i \in vault say that the bytes of item i are at that place.  A      *)
(* step is what the code does between two awaits that another handler can  *)
(* use; a .partial file is never visible under a final name, so copying    *)
(* and publishing a file are one step.  A handler that looks at the status *)
(* and then stores another one does so in two steps.                       *)
(***************************************************************************)
EXTENDS Integers, FiniteSets

CONSTANTS
  Items,           \* media_items rows of the session, ordered by id
  Library,         \* files that were in the vault before the session
  LookAlike,       \* LookAlike[i]: other files with the name and size of i
  BatchSize,       \* TransferSession.batch_size
  CopyConcurrency, \* COPY_CONCURRENCY
  Move,            \* transfer_mode = "move"
  Local,           \* source_root is a local path, not ios:// or wpd://
  MaxScans         \* bound on the number of scans of the source

ASSUME ConstantsAssumption ==
  /\ Items \subseteq Nat \ {0} /\ IsFiniteSet(Items)
  /\ Library \subseteq Nat \ {0} /\ Library \cap Items = {}
  /\ LookAlike \in [Items -> SUBSET (Items \cup Library)]
  /\ BatchSize \in Nat \ {0} /\ CopyConcurrency \in Nat \ {0}
  /\ Move \in BOOLEAN /\ Local \in BOOLEAN
  /\ MaxScans \in Nat

VARIABLES
  \* the database
  status,      \* TransferSession.status
  total,       \* TransferSession.total_items
  resolved,    \* TransferSession.resolved_batch_id
  skips,       \* the "skip" entries of duplicate_resolutions_json
  batchStatus, \* TransferBatch.status of every batch created so far
  batchOf,     \* MediaItem.batch_id
  hop1,        \* MediaItem.hop1_status
  final,       \* MediaItem.final_status, always written with hop2_status
  hashed,      \* items with a MediaItem.source_hash
  scans,       \* scans completed so far
  skipped,     \* items whose COMPLETED comes from a "skip" alone
  \* the disks
  source, cache, vault,
  misread,     \* items whose hashed copy recovery removed because it could not
               \* read it a second time, until they are published again
  \* the engine process
  app,         \* the life of the process
  resumable,   \* recovery found an interrupted batch of the session
  event,       \* _cancellation_events[session_id]
  asked,       \* handlers that have checked the status and not yet stored one
  holder,      \* the handler that holds the lock _session_locks has now
  pc,          \* where _run_transfer_background stands
  queue,       \* batches the running task has still to take
  current,     \* batch the running task is in
  todo,        \* its items the current hop, or recovery, has not reached
  chunk,       \* items admitted past the last look at the cancel event
  stage,       \* progress of every item a hop is working on
  done         \* items the current hop has finished, or recovery verified

dbVars   == <<status, total, resolved, skips, batchStatus, batchOf, hop1,
              final, hashed, scans, skipped>>
diskVars == <<source, cache, vault, misread>>
taskVars == <<pc, queue, current, todo, chunk, stage, done>>
procVars == <<app, resumable, event, asked, holder>>
vars     == <<dbVars, diskVars, procVars, taskVars>>

SessionStatus == {"CREATED", "RUNNING", "PAUSED", "COMPLETED",
                  "COMPLETED_WITH_ERRORS", "FAILED", "CANCELLED"}
BatchStatus   == {"PENDING", "LOADING", "ARCHIVED", "COMPLETED", "FAILED",
                  "PARTIAL"}
HopStatus     == {"SCANNED", "PENDING", "COMPLETED", "FAILED"}
Closed        == {"COMPLETED", "FAILED", "PARTIAL"}
Ended         == {"COMPLETED", "COMPLETED_WITH_ERRORS", "FAILED", "CANCELLED"}

Handlers      == {"start", "pause", "resolve"}

NoBatch == <<0, 0>>

-----------------------------------------------------------------------------
(* Bugs the code could have; each stands in for a definition below.        *)

InterruptedInHop1Only  == {"LOADING", "PARTIAL"}
RemovesWhatItFinds     == Items
HashOnRecord(i)        == i \in hashed
NotStoppedByUser       == status \notin {"PAUSED", "CANCELLED"}
CachedOnce             == {i \in Items : hop1[i] = "COMPLETED"}
AnyCacheFile(i)        == i \in cache
BelowEveryBatch(b)     == b \in queue /\ \A c \in queue : b[2] < c[2]
CleanedBeforeCommit(i) == stage[i] \in {"published", "committed"}

SomeCompleted ==
  IF \E i \in Items : final[i] = "COMPLETED" THEN "COMPLETED" ELSE "FAILED"

BatchVocabulary ==
  IF \A i \in Items : final[i] = "COMPLETED" THEN "COMPLETED" ELSE "PARTIAL"

-----------------------------------------------------------------------------
(* Batches.  A batch is named by the scan that created it and its number.  *)

\* Batch states recovery looks for at boot.
Interrupted == {"LOADING", "ARCHIVED", "PARTIAL"}

Batches        == DOMAIN batchStatus
OpenBatches    == {b \in Batches : batchStatus[b] \notin Closed}
BatchItems(b)  == {i \in Items : batchOf[i] = b}
Unhashed       == Items \ hashed
Completed      == {i \in Items : final[i] = "COMPLETED"}
InFlight       == {i \in Items : stage[i] # "none"}
Idle           == [i \in Items |-> "none"]

\* create_batches: consecutive chunks of the scanned ids.
NumberIn(F, i) ==
  (Cardinality({j \in F : j <= i}) - 1) \div BatchSize + 1

\* The first n items of S.
FirstOf(n, S) == {i \in S : Cardinality({j \in S : j < i}) < n}

\* Both hops close a batch by counting the items that went through.
ClosedStatus(b) ==
  IF done = {} THEN "FAILED"
  ELSE IF done # BatchItems(b) THEN "PARTIAL" ELSE "COMPLETED"

Parallel    == Local /\ ~Move
Concurrency == IF Parallel THEN CopyConcurrency ELSE 1
ChunkSize   == IF Parallel THEN 2 * CopyConcurrency ELSE 1

\* locate_archive_file without a hash to check: any file with the right name
\* and size, the item's own included.
LocatedByName(i) == vault \cap ({i} \cup LookAlike[i])

Init ==
  /\ status = "CREATED" /\ total = 0
  /\ resolved = NoBatch /\ skips = {} /\ skipped = {}
  /\ batchStatus = [b \in {} |-> "PENDING"]
  /\ batchOf = [i \in Items |-> NoBatch]
  /\ hop1 = [i \in Items |-> "SCANNED"]
  /\ final = [i \in Items |-> "PENDING"]
  /\ hashed = {} /\ scans = 0
  /\ source = Items /\ cache = {} /\ vault = Library /\ misread = {}
  /\ app = "up" /\ resumable = FALSE /\ event = "absent"
  /\ asked = {} /\ holder = "none"
  /\ pc = "idle" /\ queue = {} /\ current = NoBatch
  /\ todo = {} /\ chunk = {} /\ stage = Idle /\ done = {}

\* The task is gone and everything it kept in memory with it; the task
\* itself goes on at p.
TaskAt(p) ==
  /\ pc' = p /\ queue' = {} /\ current' = NoBatch
  /\ todo' = {} /\ chunk' = {} /\ stage' = Idle /\ done' = {}

\* _active_tasks.pop and _cleanup_session_state on every way out of the task;
\* the lock goes with the rest, whoever holds it.
TaskEnds ==
  TaskAt("idle") /\ event' = "absent" /\ holder' = "none" /\ UNCHANGED asked

-----------------------------------------------------------------------------
(* HTTP handlers.  A handler takes the lock, reads the status and awaits   *)
(* before it stores its own: the task needs no lock to store another one   *)
(* meanwhile.  A handler keeps the lock it took; a later one may find a    *)
(* new lock, because cancelling and every end of the task remove the old.  *)

Takes(h) ==
  /\ app = "up" /\ holder = "none" /\ h \notin asked
  /\ asked' = asked \cup {h} /\ holder' = h
  /\ UNCHANGED <<dbVars, diskVars, app, resumable, event, taskVars>>

Stores(h) ==
  /\ app = "up" /\ h \in asked
  /\ asked' = asked \ {h}
  /\ holder' = IF holder = h THEN "none" ELSE holder
  /\ UNCHANGED <<total, batchStatus, batchOf, hop1, final, hashed, scans,
                 skipped, diskVars, app, resumable>>

\* A fresh start runs the preflight in a thread before it goes on.
StartChecks == status \in {"CREATED", "PAUSED"} /\ Takes("start")

\* A task of the session that is still alive is cancelled first.
StartSession ==
  /\ Stores("start")
  /\ status' = "RUNNING"
  /\ event' = "clear"
  /\ TaskAt("scan")
  /\ UNCHANGED <<resolved, skips>>

Signal == event' = IF event = "absent" THEN "absent" ELSE "set"

PauseChecks == status = "RUNNING" /\ Takes("pause")

PauseSession ==
  /\ Stores("pause")
  /\ status' = "PAUSED"
  /\ Signal
  /\ UNCHANGED <<resolved, skips, taskVars>>

\* Cancelling stores its status whatever it reads, and removes the lock.
CancelSession ==
  /\ app = "up" /\ holder = "none"
  /\ status' = "CANCELLED"
  /\ Signal
  /\ UNCHANGED <<total, resolved, skips, batchStatus, batchOf, hop1, final,
                 hashed, scans, skipped, diskVars, app, resumable, asked,
                 holder, taskVars>>

ResolveChecks == status = "PAUSED" /\ pc = "idle" /\ Takes("resolve")

\* The new task finds whatever event is registered: none, once the task that
\* reported the duplicates has cleaned up.
ResolveDuplicates(b, S) ==
  /\ pc = "idle" /\ Stores("resolve")
  /\ status' = "RUNNING" /\ resolved' = b /\ skips' = S
  /\ TaskAt("scan")
  /\ UNCHANGED event

Purgeable == Completed

PurgeCompletedCache ==
  /\ app = "up"
  /\ \E gone \in SUBSET Purgeable : cache' = cache \ gone
  /\ UNCHANGED <<dbVars, source, vault, misread, procVars, taskVars>>

Requests ==
  \/ StartChecks \/ PauseChecks \/ ResolveChecks
  \/ CancelSession \/ PurgeCompletedCache

Answers ==
  \/ StartSession \/ PauseSession
  \/ \E b \in Batches : \E S \in SUBSET BatchItems(b) : ResolveDuplicates(b, S)

-----------------------------------------------------------------------------
(* The task: scan phase.                                                   *)

ScanReusesBatches ==
  /\ pc = "scan" /\ OpenBatches # {}
  /\ pc' = "batch" /\ queue' = OpenBatches
  /\ UNCHANGED <<dbVars, diskVars, procVars, current, todo, chunk, stage, done>>

\* Without an open batch the source is scanned (again): a row that failed is
\* reset, any other row is reused as it is.
ScanSource ==
  /\ pc = "scan" /\ OpenBatches = {} /\ source # {} /\ scans < MaxScans
  /\ LET retried == {i \in source : final[i] = "FAILED"}
     IN  /\ hop1' = [i \in Items |-> IF i \in retried THEN "SCANNED" ELSE hop1[i]]
         /\ final' = [i \in Items |-> IF i \in retried THEN "PENDING" ELSE final[i]]
         /\ skipped' = skipped \ retried
  /\ pc' = "create" /\ todo' = source
  /\ UNCHANGED <<status, total, resolved, skips, batchStatus, batchOf, hashed,
                 scans, diskVars, procVars, queue, current, chunk, stage, done>>

\* Every row the scan returned goes into a new batch, the others stay behind.
CreateBatches ==
  /\ pc = "create"
  /\ scans' = scans + 1
  /\ LET BatchFor(i) == <<scans + 1, NumberIn(todo, i)>>
         new         == {BatchFor(i) : i \in todo}
     IN  /\ batchOf' = [i \in Items |-> IF i \in todo THEN BatchFor(i)
                                        ELSE batchOf[i]]
         /\ batchStatus' = [b \in Batches \cup new |->
                              IF b \in new THEN "PENDING" ELSE batchStatus[b]]
         /\ queue' = new
  /\ pc' = "totals"
  /\ UNCHANGED <<status, total, resolved, skips, hop1, final, hashed, skipped,
                 diskVars, procVars, current, todo, chunk, stage, done>>

\* The totals are stored by a transaction of their own.
StoreTotals ==
  /\ pc = "totals"
  /\ total' = Cardinality(todo)
  /\ pc' = "batch" /\ todo' = {}
  /\ UNCHANGED <<status, resolved, skips, batchStatus, batchOf, hop1, final,
                 hashed, scans, skipped, diskVars, procVars, queue, current,
                 chunk, stage, done>>

\* Nothing found or device locked; no room at the destination.
ScanFails ==
  /\ \/ pc = "scan" /\ OpenBatches = {}
     \/ pc = "create"
  /\ status' = "FAILED"
  /\ TaskEnds
  /\ UNCHANGED <<total, resolved, skips, batchStatus, batchOf, hop1, final,
                 hashed, scans, skipped, diskVars, app, resumable>>

-----------------------------------------------------------------------------
(* The task: the loop over the batches.                                    *)

\* The loop looks at the session again before every batch.
MayContinue == status = "RUNNING"

\* The batch the loop takes next: the lowest number.
IsNext(b) == b \in queue /\ \A c \in queue : b[2] <= c[2]

ExecuteStops ==
  /\ pc = "batch" /\ queue # {} /\ ~MayContinue
  /\ TaskEnds
  /\ UNCHANGED <<dbVars, diskVars, app, resumable>>

ExecuteDone ==
  /\ pc = "batch" /\ queue = {}
  /\ pc' = "finalize"
  /\ UNCHANGED <<dbVars, diskVars, procVars, queue, current, todo, chunk, stage, done>>

\* cache_batch marks the batch LOADING unless it has no items.
EnterHop1(b) ==
  /\ current' = b /\ queue' = queue \ {b} /\ done' = {}
  /\ todo' = BatchItems(b)
  /\ IF BatchItems(b) = {}
     THEN pc' = "disk" /\ UNCHANGED batchStatus
     ELSE pc' = "hop1" /\ batchStatus' = [batchStatus EXCEPT ![b] = "LOADING"]
  /\ UNCHANGED <<chunk, stage>>

BatchWithoutDuplicates(b) ==
  /\ pc = "batch" /\ MayContinue /\ IsNext(b)
  /\ EnterHop1(b)
  /\ UNCHANGED <<status, total, resolved, skips, batchOf, hop1, final, hashed,
                 scans, skipped, diskVars, procVars>>

BatchWithResolvedDuplicates(b) ==
  /\ pc = "batch" /\ MayContinue /\ IsNext(b)
  /\ BatchItems(b) # {} /\ resolved = b
  /\ resolved' = NoBatch /\ skips' = {}
  /\ final' = [i \in Items |-> IF i \in skips THEN "COMPLETED" ELSE final[i]]
  /\ skipped' = skipped \cup {i \in skips : final[i] # "COMPLETED"}
  /\ EnterHop1(b)
  /\ UNCHANGED <<status, total, batchOf, hop1, hashed, scans, diskVars, procVars>>

BatchWithNewDuplicates(b) ==
  /\ pc = "batch" /\ MayContinue /\ IsNext(b)
  /\ BatchItems(b) # {} /\ resolved # b
  /\ pc' = "selfpause"
  /\ UNCHANGED <<dbVars, diskVars, procVars, queue, current, todo, chunk, stage, done>>

\* New duplicates, a lost device and a full destination all end the task with
\* the session PAUSED, whatever its status has become meanwhile.
SelfPause ==
  /\ pc = "selfpause"
  /\ status' = "PAUSED"
  /\ TaskEnds
  /\ UNCHANGED <<total, resolved, skips, batchStatus, batchOf, hop1, final,
                 hashed, scans, skipped, diskVars, app, resumable>>

-----------------------------------------------------------------------------
(* The task: Hop 1, one item at a time.                                    *)

Hop1Takes(i) ==
  /\ pc = "hop1" /\ InFlight = {} /\ event # "set"
  /\ i \in todo /\ \A j \in todo : i <= j
  /\ todo' = todo \ {i}

CacheIsGood(i) == i \in cache /\ i \in hashed

\* Source missing, no room on the cache drive, read or hash failure.
CacheFails(i) ==
  /\ \/ Hop1Takes(i) /\ UNCHANGED stage
     \/ /\ pc = "hop1" /\ stage[i] \in {"copied", "hashed"}
        /\ stage' = [stage EXCEPT ![i] = "none"] /\ UNCHANGED todo
  /\ hop1' = [hop1 EXCEPT ![i] = "FAILED"]
  /\ UNCHANGED <<status, total, resolved, skips, batchStatus, batchOf, final,
                 hashed, scans, skipped, diskVars, procVars, pc, queue,
                 current, chunk, done>>

CacheHit(i) ==
  /\ Hop1Takes(i)
  /\ CacheIsGood(i) /\ (Local => i \in source)
  /\ hop1' = [hop1 EXCEPT ![i] = "COMPLETED"]
  /\ done' = done \cup {i}
  /\ UNCHANGED <<status, total, resolved, skips, batchStatus, batchOf, final,
                 hashed, scans, skipped, diskVars, procVars, pc, queue,
                 current, chunk, stage>>

CopyToCache(i) ==
  /\ Hop1Takes(i)
  /\ i \in source /\ ~CacheIsGood(i)
  /\ cache' = cache \cup {i}
  /\ stage' = [stage EXCEPT ![i] = "copied"]
  /\ UNCHANGED <<dbVars, source, vault, misread, procVars, pc, queue, current,
                 chunk, done>>

StoreSourceHash(i) ==
  /\ pc = "hop1" /\ stage[i] = "copied"
  /\ hashed' = hashed \cup {i}
  /\ stage' = [stage EXCEPT ![i] = "hashed"]
  /\ UNCHANGED <<status, total, resolved, skips, batchStatus, batchOf, hop1,
                 final, scans, skipped, diskVars, procVars, pc, queue, current,
                 todo, chunk, done>>

MarkHop1Completed(i) ==
  /\ pc = "hop1" /\ stage[i] = "hashed"
  /\ hop1' = [hop1 EXCEPT ![i] = "COMPLETED"]
  /\ stage' = [stage EXCEPT ![i] = "none"]
  /\ done' = done \cup {i}
  /\ UNCHANGED <<status, total, resolved, skips, batchStatus, batchOf, final,
                 hashed, scans, skipped, diskVars, procVars, pc, queue,
                 current, todo, chunk>>

\* DeviceDisconnectedError leaves cache_batch at once: the batch stays LOADING.
DeviceLost(i) ==
  /\ Hop1Takes(i) /\ Local /\ i \in source /\ ~CacheIsGood(i)
  /\ pc' = "selfpause"
  /\ UNCHANGED <<dbVars, diskVars, procVars, queue, current, chunk, stage, done>>

Hop1Ends ==
  /\ pc = "hop1" /\ InFlight = {} /\ (todo = {} \/ event = "set")
  /\ batchStatus' = [batchStatus EXCEPT ![current] =
                       IF todo = {} THEN ClosedStatus(current) ELSE "LOADING"]
  /\ pc' = "disk"
  /\ UNCHANGED <<status, total, resolved, skips, batchOf, hop1, final, hashed,
                 scans, skipped, diskVars, procVars, queue, current, todo,
                 chunk, stage, done>>

-----------------------------------------------------------------------------
(* The task: Hop 2.                                                        *)

DestinationLow ==
  /\ pc = "disk"
  /\ pc' = "selfpause"
  /\ UNCHANGED <<dbVars, diskVars, procVars, queue, current, todo, chunk, stage, done>>

EnterHop2 ==
  /\ pc = "disk"
  /\ todo' = BatchItems(current) /\ done' = {}
  /\ IF BatchItems(current) = {}
     THEN pc' = "batch" /\ UNCHANGED batchStatus
     ELSE pc' = "hop2" /\ batchStatus' = [batchStatus EXCEPT ![current] = "ARCHIVED"]
  /\ UNCHANGED <<status, total, resolved, skips, batchOf, hop1, final, hashed,
                 scans, skipped, diskVars, procVars, queue, current, chunk, stage>>

\* The cancel event is looked at once per chunk; a chunk is a single item
\* unless the copies run in parallel.
Hop2Chunk ==
  /\ pc = "hop2" /\ chunk = {} /\ InFlight = {} /\ todo # {} /\ event # "set"
  /\ chunk' = FirstOf(ChunkSize, todo)
  /\ todo' = todo \ chunk'
  /\ UNCHANGED <<dbVars, diskVars, procVars, pc, queue, current, stage, done>>

\* The semaphore lets the items of a chunk in one after the other.
Hop2Takes(i) ==
  /\ pc = "hop2" /\ Cardinality(InFlight) < Concurrency
  /\ i \in chunk /\ \A j \in chunk : i <= j
  /\ chunk' = chunk \ {i}

\* No cache file, no room, no destination, copy or hash failure, or the
\* commit of an archived file fails.
ImportFails(i) ==
  /\ \/ Hop2Takes(i) /\ UNCHANGED stage
     \/ /\ pc = "hop2" /\ stage[i] = "published"
        /\ stage' = [stage EXCEPT ![i] = "none"] /\ UNCHANGED chunk
  /\ final' = [final EXCEPT ![i] = "FAILED"]
  /\ skipped' = skipped \ {i}
  /\ UNCHANGED <<status, total, resolved, skips, batchStatus, batchOf, hop1,
                 hashed, scans, diskVars, procVars, pc, queue, current, todo, done>>

\* A verified copy already in the vault is kept, otherwise one is published.
PublishToVault(i) ==
  /\ Hop2Takes(i) /\ i \in cache
  /\ vault' = vault \cup {i} /\ misread' = misread \ {i}
  /\ stage' = [stage EXCEPT ![i] = "published"]
  /\ UNCHANGED <<dbVars, source, cache, procVars, pc, queue, current, todo, done>>

MarkHop2Completed(i) ==
  /\ pc = "hop2" /\ stage[i] = "published"
  /\ final' = [final EXCEPT ![i] = "COMPLETED"]
  /\ skipped' = skipped \ {i}
  /\ stage' = [stage EXCEPT ![i] = "committed"]
  /\ UNCHANGED <<status, total, resolved, skips, batchStatus, batchOf, hop1,
                 hashed, scans, diskVars, procVars, pc, queue, current, todo,
                 chunk, done>>

Committed(i) == stage[i] = "committed"

\* Removing the cache file and the source are best effort.
CleanupCacheFile(i) ==
  /\ pc = "hop2" /\ Committed(i)
  /\ cache' \in {cache, cache \ {i}}
  /\ IF Move
     THEN stage' = [stage EXCEPT ![i] = "cleaned"] /\ UNCHANGED done
     ELSE stage' = [stage EXCEPT ![i] = "none"] /\ done' = done \cup {i}
  /\ UNCHANGED <<dbVars, source, vault, misread, procVars, pc, queue, current,
                 todo, chunk>>

UnlinkSource(i) ==
  /\ pc = "hop2" /\ stage[i] = "cleaned"
  /\ source' \in {source, source \ {i}}
  /\ stage' = [stage EXCEPT ![i] = "none"]
  /\ done' = done \cup {i}
  /\ UNCHANGED <<dbVars, cache, vault, misread, procVars, pc, queue, current,
                 todo, chunk>>

Hop2Ends ==
  /\ pc = "hop2" /\ chunk = {} /\ InFlight = {} /\ (todo = {} \/ event = "set")
  /\ batchStatus' = [batchStatus EXCEPT ![current] =
                       IF todo = {} THEN ClosedStatus(current) ELSE "ARCHIVED"]
  /\ pc' = "batch"
  /\ UNCHANGED <<status, total, resolved, skips, batchOf, hop1, final, hashed,
                 scans, skipped, diskVars, procVars, queue, current, todo,
                 chunk, stage, done>>

-----------------------------------------------------------------------------
(* The task: finalize, and the two ways out on an exception.               *)

FinalStatus ==
  IF Completed = {} \/ total = 0 THEN "FAILED"
  ELSE IF Cardinality(Completed) < total THEN "COMPLETED_WITH_ERRORS"
  ELSE "COMPLETED"

FinalizeSkips ==
  /\ pc = "finalize" /\ status = "CANCELLED"
  /\ TaskEnds
  /\ UNCHANGED <<dbVars, diskVars, app, resumable>>

FinalizeReads ==
  /\ pc = "finalize" /\ status # "CANCELLED"
  /\ pc' = "verdict"
  /\ UNCHANGED <<dbVars, diskVars, procVars, queue, current, todo, chunk, stage, done>>

\* The verdict is stored at the end of the transaction, without a lock.
FinalizeStores ==
  /\ pc = "verdict"
  /\ status' = FinalStatus
  /\ TaskEnds
  /\ UNCHANGED <<total, resolved, skips, batchStatus, batchOf, hop1, final,
                 hashed, scans, skipped, diskVars, app, resumable>>

Finalize == FinalizeSkips \/ FinalizeReads \/ FinalizeStores

\* An exception outside the per-item handlers, for instance a database error.
TaskRaises ==
  /\ pc # "idle" /\ app \in {"up", "draining"}
  /\ pc = "hop2" /\ Parallel => InFlight = {}
  /\ status' = "FAILED"
  /\ TaskEnds
  /\ UNCHANGED <<total, resolved, skips, batchStatus, batchOf, hop1, final,
                 hashed, scans, skipped, diskVars, app, resumable>>

ScanPhase ==
  ScanReusesBatches \/ ScanSource \/ CreateBatches \/ StoreTotals \/ ScanFails

ExecutePhase ==
  \/ ExecuteStops \/ ExecuteDone \/ SelfPause
  \/ \E b \in queue : \/ BatchWithoutDuplicates(b)
                      \/ BatchWithResolvedDuplicates(b)
                      \/ BatchWithNewDuplicates(b)

Hop1Step ==
  \/ \E i \in Items : \/ CacheFails(i) \/ CacheHit(i) \/ CopyToCache(i)
                      \/ StoreSourceHash(i) \/ MarkHop1Completed(i)
                      \/ DeviceLost(i)
  \/ Hop1Ends

Hop2Step ==
  \/ DestinationLow \/ EnterHop2 \/ Hop2Chunk \/ Hop2Ends
  \/ \E i \in Items : \/ ImportFails(i) \/ PublishToVault(i)
                      \/ MarkHop2Completed(i) \/ CleanupCacheFile(i)
                      \/ UnlinkSource(i)

TaskStep == ScanPhase \/ ExecutePhase \/ Hop1Step \/ Hop2Step \/ Finalize

-----------------------------------------------------------------------------
(* The process: shutdown, crash, boot and recovery.                        *)

\* The server first answers the requests it has begun.  The lifespan's shutdown
\* then sets every event and waits for the tasks, for a bounded time; the
\* process ends as in Crash.
Shutdown ==
  /\ app = "up" /\ asked = {}
  /\ app' = "draining"
  /\ Signal
  /\ UNCHANGED <<dbVars, diskVars, resumable, asked, holder, taskVars>>

Crash ==
  /\ app # "down"
  /\ app' = "down" /\ resumable' = FALSE /\ event' = "absent"
  /\ asked' = {} /\ holder' = "none"
  /\ TaskAt("idle")
  /\ UNCHANGED <<dbVars, diskVars>>

Boot ==
  /\ app = "down"
  /\ app' = "recovering"
  /\ UNCHANGED <<dbVars, diskVars, resumable, event, asked, holder, taskVars>>

\* What every transaction of recovery ends with.
Requeue(b) ==
  /\ batchStatus' = [batchStatus EXCEPT ![b] = "PENDING"]
  /\ resumable' = TRUE
  /\ UNCHANGED <<status, total, resolved, skips, batchOf, hashed, scans,
                 source, vault, misread, app, event, asked, holder>>

RecoverLoadingBatch(b) ==
  /\ app = "recovering" /\ pc = "idle" /\ batchStatus[b] = "LOADING"
  /\ Requeue(b)
  /\ hop1' = [i \in Items |-> IF i \in BatchItems(b) /\ hop1[i] # "COMPLETED"
                              THEN "PENDING" ELSE hop1[i]]
  /\ UNCHANGED <<final, skipped, cache, taskVars>>

RecoverPartialBatch(b) ==
  /\ app = "recovering" /\ pc = "idle" /\ batchStatus[b] = "PARTIAL"
  /\ Requeue(b)
  /\ UNCHANGED <<hop1, final, skipped, cache, taskVars>>

\* An ARCHIVED batch is taken item by item; the rows are stored at the end.
RecoverArchivedBatch(b) ==
  /\ app = "recovering" /\ pc = "idle" /\ batchStatus[b] = "ARCHIVED"
  /\ pc' = "recover" /\ current' = b /\ todo' = BatchItems(b) /\ done' = {}
  /\ UNCHANGED <<dbVars, diskVars, procVars, queue, chunk, stage>>

RecoveryTakes(i) ==
  /\ pc = "recover" /\ i \in todo /\ \A j \in todo : i <= j
  /\ todo' = todo \ {i}
  /\ UNCHANGED <<dbVars, source, cache, procVars, pc, queue, current, chunk, stage>>

\* locate_archive_file can find, and _verify_hash accept, the file of item i.
HasVerifiedCopy(i) == i \in hashed /\ i \in vault

RecoveryVerifies(i) ==
  /\ RecoveryTakes(i) /\ HasVerifiedCopy(i)
  /\ done' = done \cup {i}
  /\ UNCHANGED <<vault, misread>>

\* No file is found, or one that is there cannot be read, or not be removed.
RecoveryFindsNothing(i) ==
  /\ RecoveryTakes(i)
  /\ UNCHANGED <<vault, misread, done>>

\* The copy was read and matched when it was located; an error at the second
\* reading is logged, and the file removed as if it did not match.
RecoveryMisreads(i) ==
  /\ RecoveryTakes(i) /\ HasVerifiedCopy(i)
  /\ vault' = vault \ {i} /\ misread' = misread \cup {i}
  /\ UNCHANGED done

\* Without a hash the first file of the name and size is removed as stale.
RecoveryRemovesStale(i) ==
  /\ RecoveryTakes(i) /\ i \in Unhashed
  /\ \E f \in LocatedByName(i) : vault' = vault \ {f}
  /\ UNCHANGED <<misread, done>>

RecoveryStoresRows ==
  /\ pc = "recover" /\ todo = {}
  /\ Requeue(current)
  /\ final' = [i \in Items |-> IF i \in done THEN "COMPLETED"
                               ELSE IF i \in BatchItems(current) THEN "PENDING"
                               ELSE final[i]]
  /\ skipped' = skipped \ BatchItems(current)
  /\ pc' = "sweep" /\ todo' = done /\ current' = NoBatch /\ done' = {}
  /\ UNCHANGED <<hop1, cache, queue, chunk, stage>>

\* Best effort, after the transaction: the cache files of the verified items.
RecoverySweeps(i) ==
  /\ pc = "sweep" /\ i \in todo /\ \A j \in todo : i <= j
  /\ todo' = todo \ {i}
  /\ cache' \in {cache, cache \ {i}}
  /\ UNCHANGED <<dbVars, source, vault, misread, procVars, pc, queue, current,
                 chunk, stage, done>>

NextBatchToRecover ==
  /\ pc = "sweep" /\ todo = {}
  /\ pc' = "idle"
  /\ UNCHANGED <<dbVars, diskVars, procVars, queue, current, todo, chunk, stage, done>>

\* Auto-resume: a task is spawned whatever the session's status.
RecoveryDone ==
  /\ app = "recovering" /\ pc = "idle"
  /\ \A b \in Batches : batchStatus[b] \notin Interrupted
  /\ app' = "up" /\ resumable' = FALSE
  /\ IF resumable THEN TaskAt("scan") /\ event' = "clear"
                  ELSE UNCHANGED <<taskVars, event>>
  /\ UNCHANGED <<dbVars, diskVars, asked, holder>>

Recovery ==
  \/ \E b \in Batches : \/ RecoverLoadingBatch(b) \/ RecoverArchivedBatch(b)
                        \/ RecoverPartialBatch(b)
  \/ \E i \in Items : \/ RecoveryVerifies(i) \/ RecoveryFindsNothing(i)
                      \/ RecoveryMisreads(i) \/ RecoveryRemovesStale(i)
                      \/ RecoverySweeps(i)
  \/ RecoveryStoresRows \/ NextBatchToRecover \/ RecoveryDone

ProcessStep == Shutdown \/ Crash \/ Boot \/ Recovery

Next == Requests \/ Answers \/ TaskStep \/ TaskRaises \/ ProcessStep

Spec == Init /\ [][Next]_vars

\* The event loop runs a task that can go on; a process that is down is
\* started again and its recovery ends.
FairSpec == Spec /\ WF_vars(TaskStep) /\ WF_vars(Boot) /\ WF_vars(Recovery)

-----------------------------------------------------------------------------
(* Properties.                                                             *)

Files == Items \cup Library

TypeOK ==
  /\ status \in SessionStatus /\ total \in Nat
  /\ resolved \in Nat \X Nat /\ skips \subseteq Items /\ skipped \subseteq Items
  /\ batchStatus \in [Batches -> BatchStatus] /\ Batches \subseteq Nat \X Nat
  /\ batchOf \in [Items -> Nat \X Nat]
  /\ hop1 \in [Items -> HopStatus] /\ final \in [Items -> HopStatus]
  /\ hashed \subseteq Items /\ scans \in Nat
  /\ source \subseteq Items /\ cache \subseteq Items /\ vault \subseteq Files
  /\ misread \subseteq Items
  /\ app \in {"up", "draining", "down", "recovering"} /\ resumable \in BOOLEAN
  /\ event \in {"absent", "clear", "set"}
  /\ asked \subseteq Handlers /\ holder \in {"none"} \cup Handlers
  /\ pc \in {"idle", "scan", "create", "totals", "batch", "selfpause", "hop1",
             "disk", "hop2", "finalize", "verdict", "recover", "sweep"}
  /\ queue \subseteq Nat \X Nat /\ current \in Nat \X Nat
  /\ todo \subseteq Items /\ chunk \subseteq Items /\ done \subseteq Items
  /\ stage \in [Items -> {"none", "copied", "hashed", "published", "committed",
                         "cleaned"}]

\* No other item has the name and size of i.
Distinct(i) == \A k \in Items \ {i} : i \notin LookAlike[k]

\* A file that was hashed on its way into the cache and has no look-alike is
\* at the source or in the vault, whatever crashes, pauses, failed imports,
\* recoveries and cache purges come between (_unlink_source, recovery.py).  The
\* one way to lose it is a recovery that could read it once and not twice.
NoLoss ==
  \A i \in Items : Distinct(i) /\ i \in hashed => i \in source \cup vault \cup misread

\* A copy that recovery has removed, or may have, before it stored the row: the
\* batch is still ARCHIVED and a recovery under way or due at the next boot.
HalfRecovered(i) ==
  /\ app \in {"down", "recovering"}
  /\ batchOf[i] \in Batches /\ batchStatus[batchOf[i]] = "ARCHIVED"
  /\ i \in misread \/ i \in Unhashed

\* A row that says COMPLETED has its file in the vault, a skipped one excepted:
\* crash recovery, failed imports and re-imports leave no false record once
\* recovery is done.
CompletedInVault ==
  \A i \in Completed \ skipped : Distinct(i) => i \in vault \/ HalfRecovered(i)

\* Recovery removes "stale" files from the vault (_recover_archived_batch), but
\* the file of an item whose hash it can check only after a read error.
VerifiedStays ==
  [][\A i \in Items \cap vault :
       Distinct(i) /\ i \in hashed => i \in vault' \cup misread']_vars

\* No original is removed before the row of its file is COMPLETED and the file
\* is in the vault, and never in copy mode (_unlink_source).
UnlinkAfterCommit ==
  [][\A i \in source \ source' : Move /\ final[i] = "COMPLETED" /\ i \in vault]_vars

\* The safety contract of cleanup_cache_file and the purge: a cache file goes
\* only when its item is in the vault, or was skipped by the user.
CacheGoesLast ==
  [][\A i \in cache \ cache' : Distinct(i) => i \in vault' \cup skipped]_vars

\* hop1_status is COMPLETED only for a file whose hash is on record, so every
\* item that Hop 1 accepted is verified by Hop 2.
CachedIsHashed == \A i \in Items : hop1[i] = "COMPLETED" => i \in hashed

\* A session that says RUNNING and has no task has no interrupted batch
\* either: what recovery requeues, auto-resume takes up.
InterruptedIsResumed ==
  app = "up" /\ pc = "idle" /\ status = "RUNNING"
    => \A b \in Batches : batchStatus[b] \notin {"LOADING", "ARCHIVED"}

\* In copy mode a session is reported COMPLETED only when every item is, even
\* after rescans and recoveries (_phase_finalize compares two counts).
CompletedMeansAll ==
  [][~Move /\ status # "COMPLETED" /\ status' = "COMPLETED" => Completed = Items]_vars

\* A session that ended by itself is RUNNING or PAUSED again only through a
\* handler that had read its status before it ended and stores its own after:
\* not through a later request, and not through the task that recovery starts
\* for a batch the session left behind.
EndedStaysEnded ==
  [][(status \in Ended \ {"CANCELLED"}) /\ status' \notin Ended
       => asked' # asked /\ asked' \subseteq asked]_vars

\* The task ends again and again: neither the loop over the batches nor the
\* hops can go on for ever.
TaskEndsAgain == []<>(pc = "idle")

-----------------------------------------------------------------------------
(* What comments and documents say, and the code does not do.              *)

\* The task reaches finalize only when it has taken every batch to its end:
\* _phase_execute_batches "returns True if all batches completed".
FinalizeAfterLastBatch == pc = "finalize" => \A b \in Batches : batchStatus[b] \in Closed

\* "Do not overwrite an explicit CANCELLED status" (_phase_finalize).
CancelledStays == [][status = "CANCELLED" => status' = "CANCELLED"]_vars

\* In move mode originals are deleted after a verified copy only: every file
\* of the session is somewhere.
NoFileLost == Items \subseteq source \cup cache \cup vault

\* "Free up disk space and resume": a paused session with work in open batches
\* has no unfinished item outside of them, where no resume looks for it.
PausedIsResumable ==
  status = "PAUSED" /\ pc = "idle" /\ OpenBatches # {}
    => \A i \in Items : final[i] = "PENDING" => batchOf[i] \in OpenBatches

\* "Skip: mark items as completed so importer skips them".
SkippedIsNotImported == [][\A i \in skipped : i \in vault' => i \in vault]_vars

-----------------------------------------------------------------------------
(* The pipeline implements the ledger when no two files look alike.  A row *)
(* whose copy recovery has removed counts as struck off from then on.      *)

RowsInForce == {i \in Completed \ skipped : i \in vault \/ ~HalfRecovered(i)}

Ledger == INSTANCE VaultLedger WITH vault <- vault \cap Items,
                                    ledger <- RowsInForce,
                                    verified <- hashed \ misread

\* Every step of the pipeline is a step of the abstract ledger.
ImplementsLedger == Ledger!Spec

=============================================================================
