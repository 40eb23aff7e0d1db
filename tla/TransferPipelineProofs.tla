----------------------- MODULE TransferPipelineProofs -----------------------
(***************************************************************************)
(* Proofs about TransferPipeline: type correctness, and the safety of the  *)
(* user's files, for any number of items, batches, look-alikes, crashes,   *)
(* requests and failures.                                                  *)
(***************************************************************************)
EXTENDS TransferPipeline, FiniteSetTheorems, TLAPS

LEMMA CardinalityInNat ==
  ASSUME NEW S \in SUBSET Items
  PROVE  IsFiniteSet(S) /\ Cardinality(S) \in Nat
<1>1. IsFiniteSet(S)
  BY FS_Subset, ConstantsAssumption DEF ConstantsAssumption
<1> QED
  BY <1>1, FS_CardinalityType

\* create_batches numbers its chunks from 1.
LEMMA NumberInNat ==
  ASSUME NEW F \in SUBSET Items, NEW i \in F
  PROVE  NumberIn(F, i) \in Nat
<1> DEFINE S == {j \in F : j <= i}
<1>1. Cardinality(S) \in Nat /\ IsFiniteSet(S)
  BY CardinalityInNat
<1>2. i \in S
  BY ConstantsAssumption DEF ConstantsAssumption
<1>3. Cardinality(S) # 0
  BY <1>1, <1>2, FS_EmptySet
<1>4. BatchSize \in Nat \ {0}
  BY ConstantsAssumption DEF ConstantsAssumption
<1>5. Cardinality(S) - 1 \in Nat
  BY <1>1, <1>3
<1>6. (Cardinality(S) - 1) \div BatchSize \in Nat
  BY <1>4, <1>5, SMT
<1> HIDE DEF S
<1> QED
  BY <1>6 DEF NumberIn, S

-----------------------------------------------------------------------------
(* Type correctness.                                                       *)

LEMMA TypeInit == Init => TypeOK
<1> SUFFICES ASSUME Init PROVE TypeOK
  OBVIOUS
<1> QED
  BY ConstantsAssumption DEF ConstantsAssumption, Init, TypeOK, SessionStatus,
     BatchStatus, HopStatus, NoBatch, Batches, Files, Idle, Handlers

LEMMA TypeRequests == TypeOK /\ Requests => TypeOK'
<1> SUFFICES ASSUME TypeOK, Requests PROVE TypeOK'
  OBVIOUS
<1> USE DEF TypeOK, SessionStatus, Batches, Files, Handlers, dbVars, diskVars, procVars, taskVars
<1>1. CASE StartChecks \/ PauseChecks \/ ResolveChecks
  BY <1>1 DEF StartChecks, PauseChecks, ResolveChecks, Takes
<1>2. CASE CancelSession
  BY <1>2 DEF CancelSession, Signal
<1>3. CASE PurgeCompletedCache
  BY <1>3 DEF PurgeCompletedCache
<1> QED
  BY <1>1, <1>2, <1>3 DEF Requests

LEMMA TypeAnswers == TypeOK /\ Answers => TypeOK'
<1> SUFFICES ASSUME TypeOK, Answers PROVE TypeOK'
  OBVIOUS
<1> USE DEF TypeOK, SessionStatus, Batches, Files, Handlers, diskVars, Stores
<1>1. CASE StartSession
  BY <1>1 DEF StartSession, TaskAt, NoBatch, Idle
<1>2. CASE PauseSession
  BY <1>2 DEF PauseSession, Signal, taskVars
<1>3. ASSUME NEW b \in Batches, NEW S \in SUBSET BatchItems(b), ResolveDuplicates(b, S)
      PROVE  TypeOK'
  BY <1>3 DEF ResolveDuplicates, TaskAt, NoBatch, Idle, BatchItems
<1> QED
  BY <1>1, <1>2, <1>3 DEF Answers

LEMMA TypeScanPhase == TypeOK /\ ScanPhase => TypeOK'
<1> SUFFICES ASSUME TypeOK, ScanPhase PROVE TypeOK'
  OBVIOUS
<1> USE DEF TypeOK, Batches, diskVars, procVars, taskVars
<1>1. CASE ScanReusesBatches
  BY <1>1 DEF ScanReusesBatches, OpenBatches, dbVars
<1>2. CASE ScanSource
  BY <1>2 DEF ScanSource, HopStatus
<1>3. CASE CreateBatches
  <2> DEFINE BatchFor(i) == <<scans + 1, NumberIn(todo, i)>>
             new         == {BatchFor(i) : i \in todo}
  <2>1. \A i \in todo : BatchFor(i) \in Nat \X Nat
    BY NumberInNat
  <2>2. batchOf' \in [Items -> Nat \X Nat]
    BY <1>3, <2>1 DEF CreateBatches
  <2>3. /\ batchStatus' \in [Batches' -> BatchStatus]
        /\ Batches' \subseteq Nat \X Nat
    BY <1>3, <2>1 DEF CreateBatches, BatchStatus
  <2>4. queue' \subseteq Nat \X Nat
    BY <1>3, <2>1 DEF CreateBatches
  <2> QED
    BY <1>3, <2>2, <2>3, <2>4 DEF CreateBatches, Files
<1>4. CASE StoreTotals
  BY <1>4, CardinalityInNat DEF StoreTotals
<1>5. CASE ScanFails
  BY <1>5 DEF ScanFails, TaskEnds, TaskAt, SessionStatus, NoBatch, Idle, Handlers
<1> QED
  BY <1>1, <1>2, <1>3, <1>4, <1>5 DEF ScanPhase

LEMMA TypeExecutePhase == TypeOK /\ ExecutePhase => TypeOK'
<1> SUFFICES ASSUME TypeOK, ExecutePhase PROVE TypeOK'
  OBVIOUS
<1> USE DEF TypeOK, Batches, diskVars, procVars, taskVars
<1>1. CASE ExecuteStops
  BY <1>1 DEF ExecuteStops, TaskEnds, TaskAt, dbVars, NoBatch, Idle
<1>2. CASE ExecuteDone
  BY <1>2 DEF ExecuteDone, dbVars
<1>3. CASE SelfPause
  BY <1>3 DEF SelfPause, TaskEnds, TaskAt, SessionStatus, NoBatch, Idle, Handlers
<1>4. ASSUME NEW b \in queue, BatchWithoutDuplicates(b)
      PROVE  TypeOK'
  BY <1>4 DEF BatchWithoutDuplicates, EnterHop1, BatchItems, BatchStatus
<1>5. ASSUME NEW b \in queue, BatchWithResolvedDuplicates(b)
      PROVE  TypeOK'
  BY <1>5 DEF BatchWithResolvedDuplicates, EnterHop1, BatchItems, BatchStatus,
     HopStatus, NoBatch
<1>6. ASSUME NEW b \in queue, BatchWithNewDuplicates(b)
      PROVE  TypeOK'
  BY <1>6 DEF BatchWithNewDuplicates, dbVars
<1> QED
  BY <1>1, <1>2, <1>3, <1>4, <1>5, <1>6 DEF ExecutePhase

LEMMA TypeHop1 == TypeOK /\ Hop1Step => TypeOK'
<1> SUFFICES ASSUME TypeOK, Hop1Step PROVE TypeOK'
  OBVIOUS
<1> USE DEF TypeOK, Batches, diskVars, procVars, taskVars
<1>1. ASSUME NEW i \in Items, CacheFails(i) PROVE TypeOK'
  BY <1>1 DEF CacheFails, Hop1Takes, HopStatus
<1>2. ASSUME NEW i \in Items, CacheHit(i) PROVE TypeOK'
  BY <1>2 DEF CacheHit, Hop1Takes, HopStatus
<1>3. ASSUME NEW i \in Items, CopyToCache(i) PROVE TypeOK'
  BY <1>3 DEF CopyToCache, Hop1Takes, dbVars
<1>4. ASSUME NEW i \in Items, StoreSourceHash(i) PROVE TypeOK'
  BY <1>4 DEF StoreSourceHash
<1>5. ASSUME NEW i \in Items, MarkHop1Completed(i) PROVE TypeOK'
  BY <1>5 DEF MarkHop1Completed, HopStatus
<1>6. ASSUME NEW i \in Items, DeviceLost(i) PROVE TypeOK'
  BY <1>6 DEF DeviceLost, Hop1Takes, dbVars
<1>7. CASE Hop1Ends
  BY <1>7 DEF Hop1Ends, ClosedStatus, BatchStatus
<1> QED
  BY <1>1, <1>2, <1>3, <1>4, <1>5, <1>6, <1>7 DEF Hop1Step

LEMMA TypeHop2 == TypeOK /\ Hop2Step => TypeOK'
<1> SUFFICES ASSUME TypeOK, Hop2Step PROVE TypeOK'
  OBVIOUS
<1> USE DEF TypeOK, Batches, diskVars, procVars, taskVars
<1>1. CASE DestinationLow
  BY <1>1 DEF DestinationLow, dbVars
<1>2. CASE EnterHop2
  BY <1>2 DEF EnterHop2, BatchItems, BatchStatus
<1>3. CASE Hop2Chunk
  BY <1>3 DEF Hop2Chunk, FirstOf, dbVars
<1>4. CASE Hop2Ends
  BY <1>4 DEF Hop2Ends, ClosedStatus, BatchStatus
<1>5. ASSUME NEW i \in Items, ImportFails(i) PROVE TypeOK'
  BY <1>5 DEF ImportFails, Hop2Takes, HopStatus
<1>6. ASSUME NEW i \in Items, PublishToVault(i) PROVE TypeOK'
  BY <1>6 DEF PublishToVault, Hop2Takes, dbVars, Files
<1>7. ASSUME NEW i \in Items, MarkHop2Completed(i) PROVE TypeOK'
  BY <1>7 DEF MarkHop2Completed, HopStatus
<1>8. ASSUME NEW i \in Items, CleanupCacheFile(i) PROVE TypeOK'
  BY <1>8 DEF CleanupCacheFile, dbVars
<1>9. ASSUME NEW i \in Items, UnlinkSource(i) PROVE TypeOK'
  BY <1>9 DEF UnlinkSource, dbVars
<1> QED
  BY <1>1, <1>2, <1>3, <1>4, <1>5, <1>6, <1>7, <1>8, <1>9 DEF Hop2Step

LEMMA TypeRecoverArchived ==
  ASSUME TypeOK, NEW i \in Items,
         \/ RecoveryVerifies(i) \/ RecoveryFindsNothing(i) \/ RecoveryMisreads(i)
         \/ RecoveryRemovesStale(i) \/ RecoverySweeps(i)
  PROVE  TypeOK'
<1> USE DEF TypeOK, Batches, Files, dbVars, procVars, RecoveryTakes
<1>1. CASE RecoveryVerifies(i) \/ RecoveryFindsNothing(i)
  BY <1>1 DEF RecoveryVerifies, RecoveryFindsNothing
<1>2. CASE RecoveryMisreads(i)
  BY <1>2 DEF RecoveryMisreads
<1>3. CASE RecoveryRemovesStale(i)
  BY <1>3 DEF RecoveryRemovesStale
<1>4. CASE RecoverySweeps(i)
  BY <1>4 DEF RecoverySweeps
<1> QED
  BY <1>1, <1>2, <1>3, <1>4

LEMMA TypeProcess == TypeOK /\ ProcessStep => TypeOK'
<1> SUFFICES ASSUME TypeOK, ProcessStep PROVE TypeOK'
  OBVIOUS
<1> USE DEF TypeOK, Batches, diskVars, procVars, taskVars, Handlers
<1>1. CASE Shutdown
  BY <1>1 DEF Shutdown, Signal, dbVars
<1>2. CASE Crash
  BY <1>2 DEF Crash, TaskAt, dbVars, NoBatch, Idle
<1>3. CASE Boot
  BY <1>3 DEF Boot, dbVars
<1>4. ASSUME NEW b \in Batches, RecoverLoadingBatch(b) PROVE TypeOK'
  BY <1>4 DEF RecoverLoadingBatch, Requeue, HopStatus, BatchStatus
<1>5. ASSUME NEW b \in Batches, RecoverArchivedBatch(b) PROVE TypeOK'
  BY <1>5 DEF RecoverArchivedBatch, BatchItems, dbVars
<1>6. ASSUME NEW b \in Batches, RecoverPartialBatch(b) PROVE TypeOK'
  BY <1>6 DEF RecoverPartialBatch, Requeue, BatchStatus
<1>7. CASE RecoveryDone
  <2>1. UNCHANGED <<dbVars, diskVars, asked, holder>> /\ app' = "up" /\ resumable' = FALSE
    BY <1>7 DEF RecoveryDone
  <2>2. CASE resumable
    <3>1. TaskAt("scan") /\ event' = "clear"
      BY <1>7, <2>2 DEF RecoveryDone
    <3> QED
      BY <2>1, <3>1 DEF TaskAt, dbVars, NoBatch, Idle
  <2>3. CASE ~resumable
    <3>1. UNCHANGED <<taskVars, event>>
      BY <1>7, <2>3 DEF RecoveryDone
    <3> QED
      BY <2>1, <3>1 DEF dbVars
  <2> QED
    BY <2>2, <2>3
<1>8. CASE RecoveryStoresRows
  BY <1>8 DEF RecoveryStoresRows, Requeue, HopStatus, BatchStatus, NoBatch
<1>9. CASE NextBatchToRecover
  BY <1>9 DEF NextBatchToRecover, dbVars
<1> QED
  BY <1>1, <1>2, <1>3, <1>4, <1>5, <1>6, <1>7, <1>8, <1>9, TypeRecoverArchived
  DEF ProcessStep, Recovery

LEMMA TypeNext == TypeOK /\ [Next]_vars => TypeOK'
<1> SUFFICES ASSUME TypeOK, [Next]_vars PROVE TypeOK'
  OBVIOUS
<1>1. CASE Finalize
  BY <1>1 DEF TypeOK, Finalize, FinalizeSkips, FinalizeReads, FinalizeStores, FinalStatus,
     SessionStatus, TaskEnds, TaskAt, Batches, dbVars, diskVars, procVars, NoBatch, Idle
<1>2. CASE TaskRaises
  BY <1>2 DEF TypeOK, TaskRaises, SessionStatus, TaskEnds, TaskAt, Batches,
     diskVars, NoBatch, Idle
<1>3. CASE UNCHANGED vars
  BY <1>3 DEF TypeOK, Batches, vars, dbVars, diskVars, procVars, taskVars
<1> QED
  BY <1>1, <1>2, <1>3, TypeRequests, TypeAnswers, TypeScanPhase, TypeExecutePhase, TypeHop1,
     TypeHop2, TypeProcess DEF Next, TaskStep

\* In every reachable state the database, the disks and the task have the
\* values TypeOK names, for all constants.
THEOREM TypeCorrect == Spec => []TypeOK
<1> QED
  BY TypeInit, TypeNext, PTL DEF Spec

-----------------------------------------------------------------------------
(* Safety of the files.  NoLoss and CompletedInVault alone are not         *)
(* inductive: what a hop has done to an item so far lives in stage, so the *)
(* strengthening says what each stage stands for, and that recovery, which *)
(* may remove files, never meets an item in the middle of a hop.           *)

\* Outside of the hops no item is in flight, and each hop has its own stages.
StageInv ==
  /\ pc \notin {"hop1", "hop2"} => \A i \in Items : stage[i] = "none"
  /\ pc = "hop1" => \A i \in Items : stage[i] \in {"none", "copied", "hashed"}
  /\ pc = "hop2" => \A i \in Items :
                      stage[i] \in {"none", "published", "committed", "cleaned"}
  /\ pc # "hop2" => chunk = {}
  /\ \A i \in chunk : stage[i] = "none"
  /\ app = "down" => pc = "idle"
  /\ app = "recovering" => pc \in {"idle", "recover", "sweep"}
  /\ pc \in {"recover", "sweep"} => app = "recovering"

\* What a stage says about the item's files and its row.
ItemInv ==
  \A i \in Items :
    /\ stage[i] = "copied" => i \in source
    /\ stage[i] \in {"published", "committed", "cleaned"} => i \in vault
    /\ stage[i] \in {"committed", "cleaned"}
         => final[i] = "COMPLETED" /\ i \notin skipped
    /\ stage[i] = "cleaned" => Move

\* What recovery has in hand between two transactions: the verified items of an
\* ARCHIVED batch, then those whose cache files are to go.
RecoverInv ==
  /\ misread \cap vault = {}
  /\ pc = "recover" =>
       /\ current \in Batches /\ batchStatus[current] = "ARCHIVED"
       /\ todo \cup done \subseteq BatchItems(current) /\ todo \cap done = {}
       /\ done \subseteq hashed
       /\ \A i \in done : Distinct(i) => i \in vault
  /\ pc = "sweep" => \A i \in todo : Distinct(i) => i \in vault

FileInv == ItemInv /\ RecoverInv /\ NoLoss /\ CompletedInVault

IInv == TypeOK /\ StageInv /\ FileInv

LEMMA SafeInit == Init => IInv
<1> SUFFICES ASSUME Init PROVE IInv
  OBVIOUS
<1>1. TypeOK
  BY TypeInit
<1> QED
  BY <1>1, ConstantsAssumption DEF ConstantsAssumption, Init, IInv, FileInv, StageInv, ItemInv,
     RecoverInv, NoLoss, CompletedInVault, Completed, Idle

LEMMA StageRequests == TypeOK /\ StageInv /\ (Requests \/ Answers) => StageInv'
<1> SUFFICES ASSUME TypeOK, StageInv, Requests \/ Answers PROVE StageInv'
  OBVIOUS
<1> USE DEF TypeOK, StageInv, diskVars, procVars, taskVars, dbVars
<1>1. CASE StartSession
  BY <1>1 DEF StartSession, Stores, TaskAt, Idle
<1>2. CASE PauseSession
  BY <1>2 DEF PauseSession, Stores
<1>3. ASSUME NEW b, NEW S, ResolveDuplicates(b, S) PROVE StageInv'
  BY <1>3 DEF ResolveDuplicates, Stores, TaskAt, Idle
<1>4. CASE Requests
  BY <1>4 DEF Requests, StartChecks, PauseChecks, ResolveChecks, Takes, CancelSession,
     PurgeCompletedCache
<1> QED
  BY <1>1, <1>2, <1>3, <1>4 DEF Answers

LEMMA StageScanPhase == TypeOK /\ StageInv /\ ScanPhase => StageInv'
<1> SUFFICES ASSUME TypeOK, StageInv, ScanPhase PROVE StageInv'
  OBVIOUS
<1> USE DEF TypeOK, StageInv, diskVars, procVars, taskVars, dbVars
<1>1. CASE ScanReusesBatches
  BY <1>1 DEF ScanReusesBatches
<1>2. CASE ScanSource
  BY <1>2 DEF ScanSource
<1>3. CASE CreateBatches
  BY <1>3 DEF CreateBatches
<1>4. CASE StoreTotals
  BY <1>4 DEF StoreTotals
<1>5. CASE ScanFails
  BY <1>5 DEF ScanFails, TaskEnds, TaskAt, Idle
<1> QED
  BY <1>1, <1>2, <1>3, <1>4, <1>5 DEF ScanPhase

LEMMA StageExecutePhase == TypeOK /\ StageInv /\ ExecutePhase => StageInv'
<1> SUFFICES ASSUME TypeOK, StageInv, ExecutePhase PROVE StageInv'
  OBVIOUS
<1> USE DEF TypeOK, StageInv, diskVars, procVars, taskVars, dbVars
<1>1. CASE ExecuteStops
  BY <1>1 DEF ExecuteStops, TaskEnds, TaskAt, Idle
<1>2. CASE ExecuteDone
  BY <1>2 DEF ExecuteDone
<1>3. CASE SelfPause
  BY <1>3 DEF SelfPause, TaskEnds, TaskAt, Idle
<1>4. ASSUME NEW b, BatchWithoutDuplicates(b) PROVE StageInv'
  BY <1>4 DEF BatchWithoutDuplicates, EnterHop1
<1>5. ASSUME NEW b, BatchWithResolvedDuplicates(b) PROVE StageInv'
  BY <1>5 DEF BatchWithResolvedDuplicates, EnterHop1
<1>6. ASSUME NEW b, BatchWithNewDuplicates(b) PROVE StageInv'
  BY <1>6 DEF BatchWithNewDuplicates
<1> QED
  BY <1>1, <1>2, <1>3, <1>4, <1>5, <1>6 DEF ExecutePhase

LEMMA StageHop1 == TypeOK /\ StageInv /\ Hop1Step => StageInv'
<1> SUFFICES ASSUME TypeOK, StageInv, Hop1Step PROVE StageInv'
  OBVIOUS
<1> USE DEF TypeOK, StageInv, diskVars, procVars, taskVars, dbVars
<1>1. ASSUME NEW i \in Items, CacheFails(i) PROVE StageInv'
  BY <1>1 DEF CacheFails, Hop1Takes, InFlight
<1>2. ASSUME NEW i \in Items, CacheHit(i) PROVE StageInv'
  BY <1>2 DEF CacheHit, Hop1Takes, InFlight
<1>3. ASSUME NEW i \in Items, CopyToCache(i) PROVE StageInv'
  BY <1>3 DEF CopyToCache, Hop1Takes, InFlight
<1>4. ASSUME NEW i \in Items, StoreSourceHash(i) PROVE StageInv'
  BY <1>4 DEF StoreSourceHash
<1>5. ASSUME NEW i \in Items, MarkHop1Completed(i) PROVE StageInv'
  BY <1>5 DEF MarkHop1Completed
<1>6. ASSUME NEW i \in Items, DeviceLost(i) PROVE StageInv'
  BY <1>6 DEF DeviceLost, Hop1Takes, InFlight
<1>7. CASE Hop1Ends
  BY <1>7 DEF Hop1Ends, InFlight
<1> QED
  BY <1>1, <1>2, <1>3, <1>4, <1>5, <1>6, <1>7 DEF Hop1Step

LEMMA StageHop2 == TypeOK /\ StageInv /\ Hop2Step => StageInv'
<1> SUFFICES ASSUME TypeOK, StageInv, Hop2Step PROVE StageInv'
  OBVIOUS
<1> USE DEF TypeOK, StageInv, diskVars, procVars, taskVars, dbVars
<1>1. CASE DestinationLow
  BY <1>1 DEF DestinationLow
<1>2. CASE EnterHop2
  BY <1>2 DEF EnterHop2
<1>3. CASE Hop2Chunk
  BY <1>3 DEF Hop2Chunk, FirstOf, InFlight
<1>4. CASE Hop2Ends
  BY <1>4 DEF Hop2Ends, InFlight
<1>5. ASSUME NEW i \in Items, ImportFails(i) PROVE StageInv'
  BY <1>5 DEF ImportFails, Hop2Takes
<1>6. ASSUME NEW i \in Items, PublishToVault(i) PROVE StageInv'
  BY <1>6 DEF PublishToVault, Hop2Takes
<1>7. ASSUME NEW i \in Items, MarkHop2Completed(i) PROVE StageInv'
  BY <1>7 DEF MarkHop2Completed
<1>8. ASSUME NEW i \in Items, CleanupCacheFile(i) PROVE StageInv'
  BY <1>8 DEF CleanupCacheFile, Committed
<1>9. ASSUME NEW i \in Items, UnlinkSource(i) PROVE StageInv'
  BY <1>9 DEF UnlinkSource
<1> QED
  BY <1>1, <1>2, <1>3, <1>4, <1>5, <1>6, <1>7, <1>8, <1>9 DEF Hop2Step

LEMMA StageProcess == TypeOK /\ StageInv /\ ProcessStep => StageInv'
<1> SUFFICES ASSUME TypeOK, StageInv, ProcessStep PROVE StageInv'
  OBVIOUS
<1> USE DEF TypeOK, StageInv, diskVars, procVars, taskVars, dbVars
<1>1. CASE Shutdown
  BY <1>1 DEF Shutdown
<1>2. CASE Crash
  BY <1>2 DEF Crash, TaskAt, Idle
<1>3. CASE Boot
  BY <1>3 DEF Boot
<1>4. ASSUME NEW b, RecoverLoadingBatch(b) \/ RecoverPartialBatch(b) PROVE StageInv'
  BY <1>4 DEF RecoverLoadingBatch, RecoverPartialBatch, Requeue
<1>5. ASSUME NEW b, RecoverArchivedBatch(b) PROVE StageInv'
  BY <1>5 DEF RecoverArchivedBatch
<1>6. ASSUME NEW i \in Items, \/ RecoveryVerifies(i) \/ RecoveryFindsNothing(i)
                             \/ RecoveryMisreads(i) \/ RecoveryRemovesStale(i)
      PROVE  StageInv'
  BY <1>6 DEF RecoveryVerifies, RecoveryFindsNothing, RecoveryMisreads, RecoveryRemovesStale,
     RecoveryTakes
<1>7. ASSUME NEW i \in Items, RecoverySweeps(i) PROVE StageInv'
  BY <1>7 DEF RecoverySweeps
<1>8. CASE RecoveryStoresRows \/ NextBatchToRecover
  BY <1>8 DEF RecoveryStoresRows, NextBatchToRecover, Requeue
<1>9. CASE RecoveryDone
  BY <1>9 DEF RecoveryDone, TaskAt, Idle
<1> QED
  BY <1>1, <1>2, <1>3, <1>4, <1>5, <1>6, <1>7, <1>8, <1>9 DEF ProcessStep, Recovery

LEMMA StageNext == TypeOK /\ StageInv /\ [Next]_vars => StageInv'
<1> SUFFICES ASSUME TypeOK, StageInv, [Next]_vars PROVE StageInv'
  OBVIOUS
<1>1. CASE Finalize
  BY <1>1 DEF StageInv, Finalize, FinalizeSkips, FinalizeReads, FinalizeStores, TaskEnds,
     TaskAt, Idle, procVars
<1>2. CASE TaskRaises
  BY <1>2 DEF StageInv, TaskRaises, TaskEnds, TaskAt, Idle
<1>3. CASE UNCHANGED vars
  BY <1>3 DEF StageInv, vars, procVars, taskVars
<1> QED
  BY <1>1, <1>2, <1>3, StageRequests, StageScanPhase, StageExecutePhase,
     StageHop1, StageHop2, StageProcess DEF Next, TaskStep

LEMMA FilesRequests == IInv /\ (Requests \/ Answers) => FileInv'
<1> SUFFICES ASSUME IInv, Requests \/ Answers PROVE FileInv'
  OBVIOUS
<1> USE DEF IInv, FileInv, TypeOK, StageInv, ItemInv, RecoverInv, NoLoss,
   CompletedInVault, Completed, HalfRecovered, dbVars, diskVars, procVars, taskVars
<1>1. CASE StartSession
  BY <1>1 DEF StartSession, Stores, TaskAt, Idle
<1>2. CASE PauseSession
  BY <1>2 DEF PauseSession, Stores
<1>3. ASSUME NEW b, NEW S, ResolveDuplicates(b, S) PROVE FileInv'
  BY <1>3 DEF ResolveDuplicates, Stores, TaskAt, Idle
<1>4. CASE StartChecks \/ PauseChecks \/ ResolveChecks \/ CancelSession
  BY <1>4 DEF StartChecks, PauseChecks, ResolveChecks, Takes, CancelSession
<1>5. CASE PurgeCompletedCache
  BY <1>5 DEF PurgeCompletedCache
<1> QED
  BY <1>1, <1>2, <1>3, <1>4, <1>5 DEF Requests, Answers

LEMMA FilesScanPhase == IInv /\ ScanPhase => FileInv'
<1> SUFFICES ASSUME IInv, ScanPhase PROVE FileInv'
  OBVIOUS
<1> USE DEF IInv, FileInv, TypeOK, StageInv, ItemInv, RecoverInv, NoLoss,
   CompletedInVault, Completed, HalfRecovered, diskVars, procVars, taskVars
<1>1. CASE ScanReusesBatches
  BY <1>1 DEF ScanReusesBatches, dbVars
<1>2. CASE ScanSource
  BY <1>2 DEF ScanSource
<1>3. CASE CreateBatches
  BY <1>3 DEF CreateBatches
<1>4. CASE StoreTotals
  BY <1>4 DEF StoreTotals
<1>5. CASE ScanFails
  BY <1>5 DEF ScanFails, TaskEnds, TaskAt, Idle
<1> QED
  BY <1>1, <1>2, <1>3, <1>4, <1>5 DEF ScanPhase

LEMMA FilesExecutePhase == IInv /\ ExecutePhase => FileInv'
<1> SUFFICES ASSUME IInv, ExecutePhase PROVE FileInv'
  OBVIOUS
<1> USE DEF IInv, FileInv, TypeOK, StageInv, ItemInv, RecoverInv, NoLoss,
   CompletedInVault, Completed, HalfRecovered, diskVars, procVars, taskVars
<1>1. CASE ExecuteStops
  BY <1>1 DEF ExecuteStops, TaskEnds, TaskAt, Idle, dbVars
<1>2. CASE ExecuteDone
  BY <1>2 DEF ExecuteDone, dbVars
<1>3. CASE SelfPause
  BY <1>3 DEF SelfPause, TaskEnds, TaskAt, Idle
<1>4. ASSUME NEW b, BatchWithoutDuplicates(b)
      PROVE  FileInv'
  BY <1>4 DEF BatchWithoutDuplicates, EnterHop1
<1>5. ASSUME NEW b, BatchWithResolvedDuplicates(b)
      PROVE  FileInv'
  BY <1>5 DEF BatchWithResolvedDuplicates, EnterHop1, HopStatus
<1>6. ASSUME NEW b, BatchWithNewDuplicates(b)
      PROVE  FileInv'
  BY <1>6 DEF BatchWithNewDuplicates, dbVars
<1> QED
  BY <1>1, <1>2, <1>3, <1>4, <1>5, <1>6 DEF ExecutePhase

LEMMA FilesHop1 == IInv /\ Hop1Step => FileInv'
<1> SUFFICES ASSUME IInv, Hop1Step PROVE FileInv'
  OBVIOUS
<1> USE DEF IInv, FileInv, TypeOK, StageInv, ItemInv, RecoverInv, NoLoss,
   CompletedInVault, Completed, HalfRecovered, diskVars, procVars, taskVars
<1>1. ASSUME NEW i \in Items, CacheFails(i)
      PROVE  FileInv'
  BY <1>1 DEF CacheFails, Hop1Takes, InFlight
<1>2. ASSUME NEW i \in Items, CacheHit(i)
      PROVE  FileInv'
  BY <1>2 DEF CacheHit, Hop1Takes, InFlight
<1>3. ASSUME NEW i \in Items, CopyToCache(i)
      PROVE  FileInv'
  BY <1>3 DEF CopyToCache, Hop1Takes, InFlight, dbVars
<1>4. ASSUME NEW i \in Items, StoreSourceHash(i)
      PROVE  FileInv'
  BY <1>4 DEF StoreSourceHash
<1>5. ASSUME NEW i \in Items, MarkHop1Completed(i)
      PROVE  FileInv'
  BY <1>5 DEF MarkHop1Completed
<1>6. ASSUME NEW i \in Items, DeviceLost(i)
      PROVE  FileInv'
  BY <1>6 DEF DeviceLost, Hop1Takes, InFlight, dbVars
<1>7. CASE Hop1Ends
  BY <1>7 DEF Hop1Ends, InFlight
<1> QED
  BY <1>1, <1>2, <1>3, <1>4, <1>5, <1>6, <1>7 DEF Hop1Step

LEMMA FilesHop2 == IInv /\ Hop2Step => FileInv'
<1> SUFFICES ASSUME IInv, Hop2Step PROVE FileInv'
  OBVIOUS
<1> USE DEF IInv, FileInv, TypeOK, StageInv, ItemInv, RecoverInv, NoLoss,
   CompletedInVault, Completed, HalfRecovered, diskVars, procVars, taskVars
<1>1. CASE DestinationLow
  BY <1>1 DEF DestinationLow, dbVars
<1>2. CASE EnterHop2
  BY <1>2 DEF EnterHop2
<1>3. CASE Hop2Chunk
  BY <1>3 DEF Hop2Chunk, FirstOf, InFlight, dbVars
<1>4. CASE Hop2Ends
  BY <1>4 DEF Hop2Ends, InFlight
<1>5. ASSUME NEW i \in Items, ImportFails(i)
      PROVE  FileInv'
  BY <1>5 DEF ImportFails, Hop2Takes
<1>6. ASSUME NEW i \in Items, PublishToVault(i)
      PROVE  FileInv'
  BY <1>6 DEF PublishToVault, Hop2Takes, dbVars
<1>7. ASSUME NEW i \in Items, MarkHop2Completed(i)
      PROVE  FileInv'
  BY <1>7 DEF MarkHop2Completed
<1>8. ASSUME NEW i \in Items, CleanupCacheFile(i)
      PROVE  FileInv'
  BY <1>8 DEF CleanupCacheFile, Committed, dbVars
<1>9. ASSUME NEW i \in Items, UnlinkSource(i)
      PROVE  FileInv'
  BY <1>9 DEF UnlinkSource, dbVars
<1> QED
  BY <1>1, <1>2, <1>3, <1>4, <1>5, <1>6, <1>7, <1>8, <1>9 DEF Hop2Step

\* What recovery may remove from the vault: a copy it could not read again, and
\* a file of the name and size of an item that has no hash on record.
LEMMA RecoveryRemoves ==
  ASSUME IInv, NEW k \in Items, RecoveryMisreads(k) \/ RecoveryRemovesStale(k),
         NEW i \in Items, Distinct(i), i \in vault
  PROVE  \/ i \in vault'
         \/ i = k /\ RecoveryMisreads(k) /\ i \in misread'
         \/ i = k /\ RecoveryRemovesStale(k) /\ i \in Unhashed
BY DEF RecoveryMisreads, RecoveryRemovesStale, LocatedByName, Distinct

LEMMA FilesRecoverItem ==
  ASSUME IInv, NEW k \in Items,
         \/ RecoveryVerifies(k) \/ RecoveryFindsNothing(k)
         \/ RecoveryMisreads(k) \/ RecoveryRemovesStale(k)
  PROVE  FileInv'
<1>1. /\ pc = "recover" /\ pc' = pc /\ app = "recovering" /\ k \in todo /\ todo' = todo \ {k}
      /\ UNCHANGED <<dbVars, source, app, current, stage>>
      /\ current \in Batches /\ batchStatus[current] = "ARCHIVED" /\ k \in BatchItems(current)
      /\ \A i \in Items : stage[i] = "none"
  BY DEF RecoveryVerifies, RecoveryFindsNothing, RecoveryMisreads, RecoveryRemovesStale,
     RecoveryTakes, procVars, IInv, StageInv, FileInv, RecoverInv
<1>2. UNCHANGED <<status, batchStatus, batchOf, final, hashed, skipped>>
  BY <1>1 DEF dbVars
<1>3. /\ vault' \subseteq vault /\ misread \subseteq misread' /\ misread' \cap vault' = {}
      /\ done' \subseteq done \cup {k}
      /\ k \in done' /\ k \notin done => HasVerifiedCopy(k) /\ vault' = vault
  BY DEF RecoveryVerifies, RecoveryFindsNothing, RecoveryMisreads, RecoveryRemovesStale, IInv,
     FileInv, RecoverInv
<1>4. ASSUME NEW i \in Items, Distinct(i), i \in vault, i \notin vault'
      PROVE  i = k /\ (i \in misread' \/ i \in Unhashed)
  BY <1>4, RecoveryRemoves DEF RecoveryVerifies, RecoveryFindsNothing
<1>5. ItemInv'
  BY <1>1 DEF ItemInv
<1>6. NoLoss'
  BY <1>1, <1>2, <1>3, <1>4 DEF IInv, FileInv, NoLoss, Distinct, Unhashed
<1>7. CompletedInVault'
  <2> SUFFICES ASSUME NEW i \in Items, final[i] = "COMPLETED", i \notin skipped, Distinct(i),
                      i \notin vault'
               PROVE  HalfRecovered(i)'
    BY <1>1, <1>2 DEF CompletedInVault, Completed, Distinct
  <2>1. CASE i \in vault
    BY <1>1, <1>2, <1>4, <2>1 DEF HalfRecovered, Unhashed, BatchItems, Batches
  <2>2. CASE i \notin vault
    BY <1>1, <1>2, <1>3, <2>2 DEF HalfRecovered, Unhashed, IInv, FileInv, CompletedInVault,
       Completed, Batches
  <2> QED BY <2>1, <2>2
<1>8. RecoverInv'
  <2>1. todo' \cap done' = {} /\ todo' \cup done' \subseteq BatchItems(current)
    BY <1>1, <1>3 DEF IInv, FileInv, RecoverInv
  <2>2. \A i \in done' : i \in hashed /\ (Distinct(i) => i \in vault')
    BY <1>1, <1>3, <1>4 DEF IInv, FileInv, RecoverInv, HasVerifiedCopy, BatchItems
  <2> QED
    BY <1>1, <1>2, <1>3, <2>1, <2>2 DEF RecoverInv, Batches, BatchItems, Distinct
<1> QED
  BY <1>5, <1>6, <1>7, <1>8 DEF FileInv

LEMMA FilesStoreRows ==
  ASSUME IInv, RecoveryStoresRows PROVE FileInv'
<1>1. /\ UNCHANGED <<source, vault, misread, hashed, stage, batchOf, app>> /\ pc = "recover"
      /\ pc' = "sweep" /\ todo' = done /\ skipped' = skipped \ BatchItems(current)
      /\ batchStatus' = [batchStatus EXCEPT ![current] = "PENDING"]
      /\ final' = [i \in Items |-> IF i \in done THEN "COMPLETED"
                                   ELSE IF i \in BatchItems(current) THEN "PENDING"
                                   ELSE final[i]]
  BY DEF RecoveryStoresRows, Requeue
<1>2. /\ \A i \in Items : stage[i] = "none"
      /\ \A i \in done : Distinct(i) => i \in vault
      /\ misread \cap vault = {} /\ done \subseteq BatchItems(current)
  BY <1>1 DEF IInv, StageInv, FileInv, RecoverInv
<1>3. ItemInv' /\ NoLoss' /\ RecoverInv'
  BY <1>1, <1>2 DEF ItemInv, RecoverInv, IInv, FileInv, NoLoss, Distinct
<1>4. ASSUME NEW i \in (Completed \ skipped)', Distinct(i) PROVE i \in vault' \/ HalfRecovered(i)'
  <2>1. i \in Items /\ final'[i] = "COMPLETED" /\ i \notin skipped'
    BY <1>4 DEF Completed
  <2>2. CASE i \in done
    BY <1>1, <1>2, <1>4, <2>2
  <2>3. CASE i \notin done
    <3>1. i \notin BatchItems(current) /\ final[i] = "COMPLETED" /\ i \notin skipped
      BY <1>1, <2>1, <2>3
    <3>2. i \in vault \/ HalfRecovered(i)
      BY <1>4, <2>1, <3>1 DEF IInv, FileInv, CompletedInVault, Completed
    <3> QED
      BY <1>1, <2>1, <3>1, <3>2 DEF HalfRecovered, BatchItems, Unhashed, Batches, IInv, TypeOK
  <2> QED BY <2>2, <2>3
<1> QED
  BY <1>3, <1>4 DEF FileInv, CompletedInVault, Distinct

LEMMA FilesProcess == IInv /\ ProcessStep => FileInv'
<1> SUFFICES ASSUME IInv, ProcessStep PROVE FileInv'
  OBVIOUS
<1> USE DEF IInv, FileInv, TypeOK, StageInv, ItemInv, RecoverInv, NoLoss, CompletedInVault,
        Completed, HalfRecovered, Unhashed, Batches, BatchItems, diskVars, dbVars, procVars,
        taskVars
<1>1. CASE Shutdown
  BY <1>1 DEF Shutdown
<1>2. CASE Crash
  BY <1>2 DEF Crash, TaskAt, Idle
<1>3. CASE Boot
  BY <1>3 DEF Boot
<1>4. ASSUME NEW b \in Batches, RecoverLoadingBatch(b) PROVE FileInv'
  BY <1>4 DEF RecoverLoadingBatch, Requeue, Batches
<1>5. ASSUME NEW b \in Batches, RecoverPartialBatch(b) PROVE FileInv'
  BY <1>5 DEF RecoverPartialBatch, Requeue, Batches
<1>6. ASSUME NEW b \in Batches, RecoverArchivedBatch(b) PROVE FileInv'
  BY <1>6 DEF RecoverArchivedBatch
<1>7. ASSUME NEW i \in Items, RecoverySweeps(i) PROVE FileInv'
  BY <1>7 DEF RecoverySweeps
<1>8. CASE NextBatchToRecover
  BY <1>8 DEF NextBatchToRecover
<1>9. CASE RecoveryDone
  BY <1>9 DEF RecoveryDone, TaskAt, Idle, Interrupted, Batches
<1> QED
  BY <1>1, <1>2, <1>3, <1>4, <1>5, <1>6, <1>7, <1>8, <1>9, FilesRecoverItem, FilesStoreRows
  DEF ProcessStep, Recovery

LEMMA SafeNext == IInv /\ [Next]_vars => IInv'
<1> SUFFICES ASSUME IInv, [Next]_vars PROVE IInv'
  OBVIOUS
<1>1. TypeOK' /\ StageInv'
  BY TypeNext, StageNext DEF IInv
<1>2. FileInv'
  <2> USE DEF IInv, FileInv, TypeOK, StageInv, ItemInv, RecoverInv, NoLoss, CompletedInVault,
          Completed, HalfRecovered, Unhashed, Batches
  <2>1. CASE Finalize
    BY <2>1 DEF Finalize, FinalizeSkips, FinalizeReads, FinalizeStores, TaskEnds, TaskAt, Idle,
       dbVars, diskVars, procVars
  <2>2. CASE TaskRaises
    BY <2>2 DEF TaskRaises, TaskEnds, TaskAt, Idle, diskVars
  <2>3. CASE UNCHANGED vars
    <3>1. ItemInv' /\ RecoverInv' /\ NoLoss'
      BY <2>3 DEF vars, dbVars, diskVars, procVars, taskVars, BatchItems, Distinct
    <3>2. CompletedInVault'
      BY <2>3 DEF vars, dbVars, diskVars, procVars, taskVars, Distinct
    <3> QED
      BY <3>1, <3>2
  <2> QED
    BY <2>1, <2>2, <2>3, FilesRequests, FilesScanPhase, FilesExecutePhase,
       FilesHop1, FilesHop2, FilesProcess DEF Next, TaskStep
<1> QED
  BY <1>1, <1>2 DEF IInv

LEMMA Safe == Spec => []IInv
<1> QED
  BY SafeInit, SafeNext, PTL DEF Spec

\* A file that was hashed once and has no look-alike is at the source or in the
\* vault in every reachable state, unless recovery could not read its copy the
\* second time and removed it.
THEOREM NothingLost == Spec => []NoLoss
<1>1. IInv => NoLoss
  BY DEF IInv, FileInv
<1> QED
  BY <1>1, Safe, PTL

\* A row says COMPLETED for a file that is not in the vault only when the user
\* chose to skip the file, or while recovery has yet to store what it removed.
THEOREM RecordsAreTrue == Spec => []CompletedInVault
<1>1. IInv => CompletedInVault
  BY DEF IInv, FileInv
<1> QED
  BY <1>1, Safe, PTL

-----------------------------------------------------------------------------
(* What no step may do to the files.                                       *)

\* The few steps that remove a file.
Removal ==
  \/ PurgeCompletedCache
  \/ \E i \in Items : \/ CleanupCacheFile(i) \/ UnlinkSource(i)
                      \/ RecoveryMisreads(i) \/ RecoveryRemovesStale(i) \/ RecoverySweeps(i)

FilesOnlyAdded == source \subseteq source' /\ cache \subseteq cache' /\ vault \subseteq vault'

LEMMA RequestsRemove ==
  Requests \/ Answers => Removal \/ FilesOnlyAdded
<1> USE DEF diskVars, FilesOnlyAdded
<1>1. StartChecks \/ PauseChecks \/ ResolveChecks \/ CancelSession => UNCHANGED <<source, cache, vault>>
  BY DEF StartChecks, PauseChecks, ResolveChecks, Takes, CancelSession
<1>2. StartSession \/ PauseSession => UNCHANGED <<source, cache, vault>>
  BY DEF StartSession, PauseSession, Stores
<1>3. ASSUME NEW b, NEW S, ResolveDuplicates(b, S) PROVE UNCHANGED <<source, cache, vault>>
  BY <1>3 DEF ResolveDuplicates, Stores
<1> QED
  BY <1>1, <1>2, <1>3 DEF Requests, Answers, Removal

LEMMA TaskRemoves ==
  TaskStep \/ TaskRaises
    => Removal \/ FilesOnlyAdded
<1> USE DEF diskVars, Removal, FilesOnlyAdded
<1>1. ScanPhase => source' = source /\ cache' = cache /\ vault' = vault
  BY DEF ScanPhase, ScanReusesBatches, ScanSource, CreateBatches, StoreTotals, ScanFails
<1>2. ExecutePhase => source' = source /\ cache' = cache /\ vault' = vault
  BY DEF ExecutePhase, ExecuteStops, ExecuteDone, SelfPause, BatchWithoutDuplicates,
     BatchWithResolvedDuplicates, BatchWithNewDuplicates
<1>3. Hop1Step => FilesOnlyAdded
  BY DEF Hop1Step, CacheFails, CacheHit, CopyToCache, StoreSourceHash, MarkHop1Completed,
     DeviceLost, Hop1Ends
<1>4. Hop2Step
        => Removal \/ FilesOnlyAdded
  <2>1. DestinationLow \/ EnterHop2 \/ Hop2Chunk \/ Hop2Ends => source' = source /\ cache' = cache /\ vault' = vault
    BY DEF DestinationLow, EnterHop2, Hop2Chunk, Hop2Ends
  <2>2. ASSUME NEW i \in Items, ImportFails(i) \/ PublishToVault(i) \/ MarkHop2Completed(i)
        PROVE  FilesOnlyAdded
    BY <2>2 DEF ImportFails, PublishToVault, MarkHop2Completed
  <2> QED
    BY <2>1, <2>2 DEF Hop2Step
<1>5. Finalize \/ TaskRaises => source' = source /\ cache' = cache /\ vault' = vault
  BY DEF Finalize, FinalizeSkips, FinalizeReads, FinalizeStores, TaskRaises
<1> QED
  BY <1>1, <1>2, <1>3, <1>4, <1>5 DEF TaskStep

LEMMA ProcessRemoves ==
  ProcessStep => Removal \/ FilesOnlyAdded
<1> USE DEF diskVars, FilesOnlyAdded
<1>1. Shutdown \/ Crash \/ Boot \/ RecoveryDone => UNCHANGED <<source, cache, vault>>
  BY DEF Shutdown, Crash, Boot, RecoveryDone
<1>2. ASSUME NEW b, RecoverLoadingBatch(b) \/ RecoverPartialBatch(b) \/ RecoverArchivedBatch(b)
      PROVE  UNCHANGED <<source, cache, vault>>
  BY <1>2 DEF RecoverLoadingBatch, RecoverPartialBatch, RecoverArchivedBatch, Requeue
<1>3. ASSUME NEW i, RecoveryVerifies(i) \/ RecoveryFindsNothing(i)
      PROVE  UNCHANGED <<source, cache, vault>>
  BY <1>3 DEF RecoveryVerifies, RecoveryFindsNothing, RecoveryTakes
<1>4. RecoveryStoresRows \/ NextBatchToRecover => UNCHANGED <<source, cache, vault>>
  BY DEF RecoveryStoresRows, NextBatchToRecover, Requeue
<1> QED
  BY <1>1, <1>2, <1>3, <1>4 DEF ProcessStep, Recovery, Removal

LEMMA OnlyRemovals ==
  [Next]_vars => Removal \/ FilesOnlyAdded
BY RequestsRemove, TaskRemoves, ProcessRemoves DEF Next, vars, diskVars, FilesOnlyAdded

\* Recovery removes the file of an item it could have verified in one case only:
\* it has located and read it, and cannot read it again.
THEOREM VerifiedCopiesStay == Spec => VerifiedStays
<1>1. IInv /\ [Next]_vars
        => [\A i \in Items \cap vault :
              Distinct(i) /\ i \in hashed => i \in vault' \cup misread']_vars
  <2> SUFFICES ASSUME IInv, [Next]_vars, NEW i \in Items \cap vault, Distinct(i), i \in hashed
               PROVE  i \in vault' \cup misread'
    OBVIOUS
  <2>1. CASE \E k \in Items : RecoveryMisreads(k) \/ RecoveryRemovesStale(k)
    BY <2>1, RecoveryRemoves DEF Unhashed
  <2>2. CASE PurgeCompletedCache \/ \E k \in Items : CleanupCacheFile(k) \/ UnlinkSource(k) \/ RecoverySweeps(k)
    BY <2>2 DEF PurgeCompletedCache, CleanupCacheFile, UnlinkSource, RecoverySweeps
  <2> QED
    BY <2>1, <2>2, OnlyRemovals DEF Removal, FilesOnlyAdded
<1> QED
  BY <1>1, Safe, PTL DEF Spec, VerifiedStays

\* An original goes only in move mode, and only once its copy is in the vault
\* and its row is committed.
THEOREM OriginalGoesLast == Spec => UnlinkAfterCommit
<1>1. IInv /\ [Next]_vars
        => [\A i \in source \ source' : Move /\ final[i] = "COMPLETED" /\ i \in vault]_vars
  <2> SUFFICES ASSUME IInv, [Next]_vars, NEW i \in source \ source'
               PROVE  Move /\ final[i] = "COMPLETED" /\ i \in vault
    OBVIOUS
  <2>1. PICK k \in Items : UnlinkSource(k)
    BY OnlyRemovals DEF Removal, FilesOnlyAdded, PurgeCompletedCache, CleanupCacheFile,
       RecoveryMisreads, RecoveryRemovesStale, RecoverySweeps, RecoveryTakes
  <2>2. k = i
    BY <2>1 DEF UnlinkSource
  <2> QED
    BY <2>1, <2>2 DEF UnlinkSource, IInv, FileInv, ItemInv
<1> QED
  BY <1>1, Safe, PTL DEF Spec, UnlinkAfterCommit

\* A cache file goes only when its item is in the vault or was skipped: by the
\* purge, by the clean-up after a commit or by recovery.
THEOREM CacheFileGoesLast == Spec => CacheGoesLast
<1>1. IInv /\ [Next]_vars
        => [\A i \in cache \ cache' : Distinct(i) => i \in vault' \cup skipped]_vars
  <2> SUFFICES ASSUME IInv, [Next]_vars, NEW i \in cache \ cache', Distinct(i)
               PROVE  i \in vault' \cup skipped
    OBVIOUS
  <2>0. i \in Items
    BY DEF IInv, TypeOK
  <2>1. CASE PurgeCompletedCache
    BY <2>1 DEF PurgeCompletedCache, Purgeable, IInv, FileInv, CompletedInVault, HalfRecovered
  <2>2. CASE \E k \in Items : CleanupCacheFile(k)
    BY <2>2 DEF CleanupCacheFile, Committed, IInv, FileInv, ItemInv
  <2>3. CASE \E k \in Items : RecoverySweeps(k)
    BY <2>3 DEF RecoverySweeps, IInv, FileInv, RecoverInv
  <2>4. CASE \E k \in Items : UnlinkSource(k) \/ RecoveryMisreads(k) \/ RecoveryRemovesStale(k)
    BY <2>4 DEF UnlinkSource, RecoveryMisreads, RecoveryRemovesStale, RecoveryTakes
  <2> QED
    BY <2>1, <2>2, <2>3, <2>4, OnlyRemovals DEF Removal, FilesOnlyAdded
<1> QED
  BY <1>1, Safe, PTL DEF Spec, CacheGoesLast
-----------------------------------------------------------------------------
(* What the rows say.                                                      *)

\* Between the two transactions of Hop 1 the hash is on record.
HashInv == \A i \in Items : stage[i] = "hashed" => i \in hashed

LEMMA HashesStay ==
  TypeOK /\ HashInv /\ CachedIsHashed /\ [Next]_vars => (HashInv /\ CachedIsHashed)'
<1> SUFFICES ASSUME TypeOK, HashInv, CachedIsHashed, [Next]_vars PROVE (HashInv /\ CachedIsHashed)'
  OBVIOUS
<1> USE DEF TypeOK, HashInv, CachedIsHashed, dbVars, taskVars, TaskEnds, TaskAt, Idle
<1>1. CASE Requests \/ Answers
  <2>1. StartChecks \/ PauseChecks \/ ResolveChecks \/ CancelSession \/ PurgeCompletedCache
          => (HashInv /\ CachedIsHashed)'
    BY DEF StartChecks, PauseChecks, ResolveChecks, Takes, CancelSession, PurgeCompletedCache
  <2>2. StartSession \/ PauseSession => (HashInv /\ CachedIsHashed)'
    BY DEF StartSession, PauseSession, Stores
  <2>3. ASSUME NEW b, NEW S, ResolveDuplicates(b, S) PROVE (HashInv /\ CachedIsHashed)'
    BY <2>3 DEF ResolveDuplicates, Stores
  <2> QED BY <1>1, <2>1, <2>2, <2>3 DEF Requests, Answers
<1>2. CASE ScanPhase
  BY <1>2 DEF ScanPhase, ScanReusesBatches, ScanSource, CreateBatches, StoreTotals, ScanFails
<1>3. CASE ExecutePhase
  <2>1. ExecuteStops \/ ExecuteDone \/ SelfPause => (HashInv /\ CachedIsHashed)'
    BY DEF ExecuteStops, ExecuteDone, SelfPause
  <2>2. ASSUME NEW b, \/ BatchWithoutDuplicates(b) \/ BatchWithResolvedDuplicates(b)
                      \/ BatchWithNewDuplicates(b)
        PROVE  (HashInv /\ CachedIsHashed)'
    BY <2>2 DEF BatchWithoutDuplicates, BatchWithResolvedDuplicates, BatchWithNewDuplicates, EnterHop1
  <2> QED BY <1>3, <2>1, <2>2 DEF ExecutePhase
<1>4. CASE Hop1Step
  <2>1. ASSUME NEW i \in Items, CacheFails(i) \/ CopyToCache(i) \/ DeviceLost(i)
        PROVE  (HashInv /\ CachedIsHashed)'
    BY <2>1 DEF CacheFails, CopyToCache, DeviceLost, Hop1Takes
  <2>2. ASSUME NEW i \in Items, CacheHit(i) PROVE (HashInv /\ CachedIsHashed)'
    BY <2>2 DEF CacheHit, Hop1Takes, CacheIsGood
  <2>3. ASSUME NEW i \in Items, StoreSourceHash(i) PROVE (HashInv /\ CachedIsHashed)'
    BY <2>3 DEF StoreSourceHash
  <2>4. ASSUME NEW i \in Items, MarkHop1Completed(i) PROVE (HashInv /\ CachedIsHashed)'
    BY <2>4 DEF MarkHop1Completed
  <2>5. CASE Hop1Ends
    BY <2>5 DEF Hop1Ends
  <2> QED BY <1>4, <2>1, <2>2, <2>3, <2>4, <2>5 DEF Hop1Step
<1>5. CASE Hop2Step
  <2>1. DestinationLow \/ EnterHop2 \/ Hop2Chunk \/ Hop2Ends => (HashInv /\ CachedIsHashed)'
    BY DEF DestinationLow, EnterHop2, Hop2Chunk, Hop2Ends
  <2>2. ASSUME NEW i \in Items, ImportFails(i) \/ PublishToVault(i) \/ MarkHop2Completed(i)
        PROVE  (HashInv /\ CachedIsHashed)'
    BY <2>2 DEF ImportFails, Hop2Takes, PublishToVault, MarkHop2Completed
  <2>3. ASSUME NEW i \in Items, CleanupCacheFile(i) \/ UnlinkSource(i) PROVE (HashInv /\ CachedIsHashed)'
    BY <2>3 DEF CleanupCacheFile, UnlinkSource
  <2> QED BY <1>5, <2>1, <2>2, <2>3 DEF Hop2Step
<1>6. CASE ProcessStep
  <2>1. Shutdown \/ Crash \/ Boot \/ RecoveryDone => (HashInv /\ CachedIsHashed)'
    BY DEF Shutdown, Crash, Boot, RecoveryDone
  <2>2. ASSUME NEW b, RecoverLoadingBatch(b) \/ RecoverArchivedBatch(b) \/ RecoverPartialBatch(b)
        PROVE  (HashInv /\ CachedIsHashed)'
    <3>1. UNCHANGED <<hashed, stage>>
      BY <2>2 DEF RecoverLoadingBatch, RecoverArchivedBatch, RecoverPartialBatch, Requeue
    <3>2. \A i \in Items : hop1'[i] = "COMPLETED" => hop1[i] = "COMPLETED"
      BY <2>2 DEF RecoverLoadingBatch, RecoverArchivedBatch, RecoverPartialBatch
    <3> QED BY <3>1, <3>2
  <2>3. ASSUME NEW i, \/ RecoveryVerifies(i) \/ RecoveryFindsNothing(i) \/ RecoveryMisreads(i)
                      \/ RecoveryRemovesStale(i) \/ RecoverySweeps(i)
        PROVE  (HashInv /\ CachedIsHashed)'
    BY <2>3 DEF RecoveryVerifies, RecoveryFindsNothing, RecoveryMisreads, RecoveryRemovesStale,
       RecoverySweeps, RecoveryTakes
  <2>4. RecoveryStoresRows \/ NextBatchToRecover => (HashInv /\ CachedIsHashed)'
    BY DEF RecoveryStoresRows, NextBatchToRecover, Requeue
  <2> QED BY <1>6, <2>1, <2>2, <2>3, <2>4 DEF ProcessStep, Recovery
<1>7. CASE Finalize \/ TaskRaises \/ UNCHANGED vars
  BY <1>7 DEF Finalize, FinalizeSkips, FinalizeReads, FinalizeStores, TaskRaises, vars
<1> QED BY <1>1, <1>2, <1>3, <1>4, <1>5, <1>6, <1>7 DEF Next, TaskStep

\* Hop 1 reports success only for a file whose hash is on record, whatever
\* fails or crashes between the copy, the hash and the row.
THEOREM CachedFilesAreHashed == Spec => []CachedIsHashed
<1>1. Init => HashInv /\ CachedIsHashed
  BY DEF Init, Idle, HashInv, CachedIsHashed
<1> QED
  BY <1>1, HashesStay, TypeCorrect, PTL DEF Spec

\* Until it is done, recovery leaves the session, the source and the totals alone.
LEMMA RecoveryKeepsStatus ==
  ASSUME IInv, Recovery
  PROVE  \/ RecoveryDone
         \/ /\ app = "recovering" /\ app' = app
            /\ UNCHANGED <<status, total, source, asked>>
            /\ pc' \in {"idle", "recover", "sweep"}
<1> USE DEF dbVars, diskVars, procVars, taskVars, IInv, StageInv
<1>1. ASSUME NEW b, RecoverLoadingBatch(b) \/ RecoverPartialBatch(b)
      PROVE  /\ app = "recovering" /\ app' = app /\ pc' = pc
             /\ UNCHANGED <<status, total, source, asked>>
  BY <1>1 DEF RecoverLoadingBatch, RecoverPartialBatch, Requeue
<1>2. ASSUME NEW b, RecoverArchivedBatch(b)
      PROVE  /\ app = "recovering" /\ app' = app /\ pc' = "recover"
             /\ UNCHANGED <<status, total, source, asked>>
  BY <1>2 DEF RecoverArchivedBatch
<1>3. ASSUME NEW i, \/ RecoveryVerifies(i) \/ RecoveryFindsNothing(i) \/ RecoveryMisreads(i)
                    \/ RecoveryRemovesStale(i) \/ RecoverySweeps(i)
      PROVE  /\ app = "recovering" /\ app' = app /\ pc' = pc
             /\ UNCHANGED <<status, total, source, asked>>
  BY <1>3 DEF RecoveryVerifies, RecoveryFindsNothing, RecoveryMisreads, RecoveryRemovesStale,
     RecoverySweeps, RecoveryTakes
<1>4. CASE RecoveryStoresRows \/ NextBatchToRecover
  BY <1>4 DEF RecoveryStoresRows, NextBatchToRecover, Requeue
<1> QED
  BY <1>1, <1>2, <1>3, <1>4 DEF Recovery

\* What interrupts a batch is a task that is alive, a stop by the user, or the
\* end of the process.
LEMMA InterruptedSteps ==
  ASSUME IInv, InterruptedIsResumed, [Next]_vars
  PROVE  InterruptedIsResumed'
<1> USE DEF InterruptedIsResumed, Batches, dbVars, procVars, taskVars, TaskEnds, TaskAt
<1>1. CASE Requests \/ Answers
  BY <1>1 DEF Requests, Answers, StartChecks, PauseChecks, ResolveChecks, Takes, CancelSession,
     PurgeCompletedCache, StartSession, PauseSession, ResolveDuplicates, Stores
<1>2. CASE ScanPhase
  BY <1>2 DEF ScanPhase, ScanReusesBatches, ScanSource, CreateBatches, StoreTotals, ScanFails
<1>3. CASE ExecutePhase
  BY <1>3 DEF ExecutePhase, ExecuteStops, ExecuteDone, SelfPause, BatchWithoutDuplicates,
     BatchWithResolvedDuplicates, BatchWithNewDuplicates, MayContinue, EnterHop1
<1>4. CASE Hop1Step
  BY <1>4 DEF Hop1Step, CacheFails, CacheHit, CopyToCache, StoreSourceHash, MarkHop1Completed,
     DeviceLost, Hop1Ends, Hop1Takes
<1>5. CASE Hop2Step
  BY <1>5 DEF Hop2Step, DestinationLow, EnterHop2, Hop2Chunk, Hop2Ends, ImportFails, Hop2Takes,
     PublishToVault, MarkHop2Completed, CleanupCacheFile, UnlinkSource
<1>6. CASE ProcessStep
  <2>1. CASE RecoveryDone
    BY <2>1 DEF RecoveryDone, Interrupted
  <2>2. CASE Shutdown \/ Crash \/ Boot
    BY <2>2 DEF Shutdown, Crash, Boot
  <2>3. CASE app = "recovering" /\ app' = app
    BY <2>3
  <2> QED BY <1>6, <2>1, <2>2, <2>3, RecoveryKeepsStatus DEF ProcessStep
<1>7. CASE Finalize \/ TaskRaises \/ UNCHANGED vars
  BY <1>7 DEF Finalize, FinalizeSkips, FinalizeReads, FinalizeStores, FinalStatus,
     TaskRaises, vars
<1> QED BY <1>1, <1>2, <1>3, <1>4, <1>5, <1>6, <1>7 DEF Next, TaskStep

\* A session that says RUNNING and has no task has no interrupted batch: what
\* recovery requeues, auto-resume takes up.
THEOREM InterruptedAreResumed == Spec => []InterruptedIsResumed
<1>1. Init => InterruptedIsResumed
  BY DEF Init, InterruptedIsResumed
<1>2. IInv /\ InterruptedIsResumed /\ [Next]_vars => InterruptedIsResumed'
  BY InterruptedSteps
<1> QED
  BY <1>1, <1>2, Safe, PTL DEF Spec

\* In copy mode every scan finds every item, so the total is their number, or 0
\* as long as none was stored.
TotalInv ==
  ~Move => /\ source = Items
           /\ pc \in {"create", "totals"} => todo = Items
           /\ total \in {0, Cardinality(Items)}

LEMMA TotalSteps ==
  ASSUME IInv, TotalInv, [Next]_vars
  PROVE  /\ TotalInv'
         /\ ~Move /\ status # "COMPLETED" /\ status' = "COMPLETED" => Completed = Items
<1> DEFINE Truth == ~Move /\ status # "COMPLETED" /\ status' = "COMPLETED" => Completed = Items
<1> SUFFICES TotalInv' /\ Truth
  OBVIOUS
<1> USE DEF TotalInv, dbVars, diskVars, procVars, taskVars, TaskEnds, TaskAt
<1>1. CASE Requests \/ Answers
  BY <1>1 DEF Requests, Answers, StartChecks, PauseChecks, ResolveChecks, Takes, CancelSession,
     PurgeCompletedCache, StartSession, PauseSession, ResolveDuplicates, Stores
<1>2. CASE ScanPhase
  BY <1>2 DEF ScanPhase, ScanReusesBatches, ScanSource, CreateBatches, StoreTotals, ScanFails
<1>3. CASE ExecutePhase
  BY <1>3 DEF ExecutePhase, ExecuteStops, ExecuteDone, SelfPause, BatchWithoutDuplicates,
     BatchWithResolvedDuplicates, BatchWithNewDuplicates, EnterHop1
<1>4. CASE Hop1Step
  BY <1>4 DEF Hop1Step, CacheFails, CacheHit, CopyToCache, StoreSourceHash, MarkHop1Completed,
     DeviceLost, Hop1Ends, Hop1Takes
<1>5. CASE Hop2Step
  <2>1. ASSUME NEW i \in Items, UnlinkSource(i) PROVE TotalInv' /\ Truth
    BY <2>1 DEF UnlinkSource, IInv, FileInv, ItemInv
  <2>2. CASE DestinationLow \/ EnterHop2 \/ Hop2Chunk \/ Hop2Ends
    BY <2>2 DEF DestinationLow, EnterHop2, Hop2Chunk, Hop2Ends
  <2>3. ASSUME NEW i \in Items, \/ ImportFails(i) \/ PublishToVault(i)
                                \/ MarkHop2Completed(i) \/ CleanupCacheFile(i)
        PROVE  TotalInv' /\ Truth
    BY <2>3 DEF ImportFails, Hop2Takes, PublishToVault, MarkHop2Completed, CleanupCacheFile
  <2> QED BY <1>5, <2>1, <2>2, <2>3 DEF Hop2Step
<1>6. CASE ProcessStep
  BY <1>6, RecoveryKeepsStatus DEF ProcessStep, Shutdown, Crash, Boot, RecoveryDone
<1>7. CASE Finalize
  <2> USE DEF Finalize, FinalizeSkips, FinalizeReads, FinalizeStores
  <2>1. TotalInv'
    BY <1>7
  <2>2. ASSUME ~Move, status # "COMPLETED", status' = "COMPLETED" PROVE Completed = Items
    <3>1. Completed # {} /\ total # 0 /\ ~(Cardinality(Completed) < total)
      BY <1>7, <2>2 DEF FinalStatus
    <3>2. total = Cardinality(Items) /\ Completed \in SUBSET Items
      BY <2>2, <3>1 DEF Completed
    <3>3. /\ IsFiniteSet(Items) /\ Cardinality(Items) \in Nat /\ Cardinality(Completed) \in Nat
          /\ Cardinality(Completed) <= Cardinality(Items)
      BY <3>2, ConstantsAssumption, CardinalityInNat, FS_Subset
    <3>4. Cardinality(Completed) = Cardinality(Items)
      BY <3>1, <3>2, <3>3
    <3> QED BY <3>2, <3>3, <3>4, FS_Subset
  <2> QED BY <2>1, <2>2
<1>8. CASE TaskRaises \/ UNCHANGED vars
  BY <1>8 DEF TaskRaises, vars
<1> QED BY <1>1, <1>2, <1>3, <1>4, <1>5, <1>6, <1>7, <1>8 DEF Next, TaskStep

\* In copy mode COMPLETED means that every item is, whatever was rescanned,
\* recovered and retried: the comparison of two counts tells the truth.
THEOREM CompletedMeansAllItems == Spec => CompletedMeansAll
<1>1. Init => TotalInv
  BY DEF Init, TotalInv
<1>2. IInv /\ TotalInv /\ [Next]_vars
        => [~Move /\ status # "COMPLETED" /\ status' = "COMPLETED" => Completed = Items]_vars
  BY TotalSteps
<1>3. IInv /\ TotalInv /\ [Next]_vars => TotalInv'
  BY TotalSteps
<1> QED
  BY <1>1, <1>2, <1>3, Safe, PTL DEF Spec, CompletedMeansAll

\* The task of a session that ended by itself, which recovery may start, never
\* gets as far as a batch.
EndedInv ==
  status \in Ended \ {"CANCELLED"}
    => pc \in {"idle", "scan", "create", "totals", "batch", "finalize", "verdict",
               "recover", "sweep"}

LEMMA EndedSteps ==
  ASSUME IInv, EndedInv, [Next]_vars
  PROVE  /\ EndedInv'
         /\ (status \in Ended \ {"CANCELLED"}) /\ status' \notin Ended
              => asked' # asked /\ asked' \subseteq asked
<1> DEFINE Goal == /\ EndedInv'
                   /\ (status \in Ended \ {"CANCELLED"}) /\ status' \notin Ended
                        => asked' # asked /\ asked' \subseteq asked
<1> SUFFICES Goal
  OBVIOUS
<1> USE DEF IInv, TypeOK, SessionStatus, EndedInv, Ended, dbVars, procVars, taskVars, TaskEnds, TaskAt
<1>0. CASE Answers
  BY <1>0 DEF Answers, StartSession, PauseSession, ResolveDuplicates, Stores
<1>1. CASE Requests
  BY <1>1 DEF Requests, StartChecks, PauseChecks, ResolveChecks, Takes, CancelSession,
     PurgeCompletedCache
<1>2. CASE ScanPhase
  BY <1>2 DEF ScanPhase, ScanReusesBatches, ScanSource, CreateBatches, StoreTotals, ScanFails
<1>3. CASE ExecutePhase
  BY <1>3 DEF ExecutePhase, ExecuteStops, ExecuteDone, SelfPause, BatchWithoutDuplicates,
     BatchWithResolvedDuplicates, BatchWithNewDuplicates, MayContinue
<1>4. CASE Hop1Step
  BY <1>4 DEF Hop1Step, CacheFails, CacheHit, CopyToCache, StoreSourceHash, MarkHop1Completed,
     DeviceLost, Hop1Ends, Hop1Takes
<1>5. CASE Hop2Step
  BY <1>5 DEF Hop2Step, DestinationLow, EnterHop2, Hop2Chunk, Hop2Ends, ImportFails, Hop2Takes,
     PublishToVault, MarkHop2Completed, CleanupCacheFile, UnlinkSource
<1>6. CASE ProcessStep
  BY <1>6, RecoveryKeepsStatus DEF ProcessStep, Shutdown, Crash, Boot, RecoveryDone
<1>7. CASE Finalize \/ TaskRaises \/ UNCHANGED vars
  BY <1>7 DEF Finalize, FinalizeSkips, FinalizeReads, FinalizeStores, FinalStatus,
     TaskRaises, vars
<1> QED BY <1>0, <1>1, <1>2, <1>3, <1>4, <1>5, <1>6, <1>7 DEF Next, TaskStep

\* A session that ended by itself is RUNNING or PAUSED again only when a handler
\* stores what it decided on a status it had read before the end: neither a
\* later request nor the task that recovery starts can do it.
THEOREM EndedSessionsStayEnded == Spec => EndedStaysEnded
<1>1. Init => EndedInv
  BY DEF Init, EndedInv, Ended
<1>2. IInv /\ EndedInv /\ [Next]_vars
        => [(status \in Ended \ {"CANCELLED"}) /\ status' \notin Ended
              => asked' # asked /\ asked' \subseteq asked]_vars
  BY EndedSteps
<1>3. IInv /\ EndedInv /\ [Next]_vars => EndedInv'
  BY EndedSteps
<1> QED
  BY <1>1, <1>2, <1>3, Safe, PTL DEF Spec, EndedStaysEnded

-----------------------------------------------------------------------------
(* The pipeline implements the ledger.                                     *)

AllDistinct == \A i \in Items : Distinct(i)

\* The variables of the ledger, in terms of the pipeline.
Vaulted     == vault \cap Items
Verified    == hashed \ misread
LedgerStays == UNCHANGED <<source, Vaulted, RowsInForce, Verified>>

\* While the process is up the rows in force are those that say COMPLETED.
LEMMA RowsWhenUp ==
  ASSUME IInv, AllDistinct, app \notin {"down", "recovering"}
  PROVE  /\ RowsInForce = Completed \ skipped
         /\ RowsInForce \subseteq vault
BY DEF IInv, FileInv, CompletedInVault, HalfRecovered, RowsInForce, AllDistinct, Completed

\* A step between two states that are up is judged by the plain rows.
LEMMA UpToUp ==
  ASSUME IInv, AllDistinct, app \notin {"down", "recovering"},
         app' \notin {"down", "recovering"}
  PROVE  /\ RowsInForce = Completed \ skipped /\ RowsInForce \subseteq vault
         /\ RowsInForce' = Completed' \ skipped'
<1>1. \A i \in Items : ~HalfRecovered(i)'
  BY DEF HalfRecovered
<1> QED
  BY <1>1, RowsWhenUp DEF RowsInForce, Completed

LEMMA StepsOfHops ==
  ASSUME IInv, AllDistinct, Hop1Step \/ Hop2Step
  PROVE  Ledger!Next \/ LedgerStays
<1>1. app \notin {"down", "recovering"} /\ app' = app
  BY DEF Hop1Step, CacheFails, CacheHit, CopyToCache, StoreSourceHash, MarkHop1Completed,
     DeviceLost, Hop1Ends, Hop1Takes, Hop2Step, DestinationLow, EnterHop2, Hop2Chunk, Hop2Ends,
     ImportFails, Hop2Takes, PublishToVault, MarkHop2Completed, CleanupCacheFile, UnlinkSource,
     procVars, IInv, StageInv
<1>2. /\ RowsInForce = Completed \ skipped /\ RowsInForce \subseteq vault
      /\ RowsInForce' = Completed' \ skipped'
  BY <1>1, UpToUp
<1> USE DEF dbVars, Completed, Vaulted, Verified, LedgerStays
<1>3. ASSUME NEW i \in Items, StoreSourceHash(i) PROVE Ledger!Verify(i) \/ LedgerStays
  BY <1>2, <1>3 DEF StoreSourceHash, diskVars, Ledger!Verify
<1>4. ASSUME NEW i \in Items, \/ CacheFails(i) \/ CacheHit(i) \/ CopyToCache(i)
                              \/ MarkHop1Completed(i) \/ DeviceLost(i)
      PROVE  LedgerStays
  BY <1>2, <1>4 DEF CacheFails, CacheHit, CopyToCache, MarkHop1Completed, DeviceLost, diskVars
<1>5. Hop1Ends \/ DestinationLow \/ EnterHop2 \/ Hop2Chunk \/ Hop2Ends => LedgerStays
  BY <1>2 DEF Hop1Ends, DestinationLow, EnterHop2, Hop2Chunk, Hop2Ends, diskVars
<1>6. ASSUME NEW i \in Items, PublishToVault(i) PROVE Ledger!Deposit(i)
  <2>1. /\ vault' = vault \cup {i} /\ misread' = misread \ {i}
        /\ UNCHANGED <<source, hashed, final, skipped>>
    BY <1>6 DEF PublishToVault
  <2>2. Verified' \in {Verified, Verified \cup {i}}
    BY <2>1
  <2>3. Vaulted' = Vaulted \cup {i} /\ RowsInForce' = RowsInForce
    BY <1>2, <2>1
  <2> QED
    BY <2>1, <2>2, <2>3 DEF Ledger!Deposit
<1>7. ASSUME NEW i \in Items, ImportFails(i) PROVE Ledger!Record({}, {i})
  BY <1>2, <1>7 DEF ImportFails, Ledger!Record, diskVars, IInv, TypeOK
<1>8. ASSUME NEW i \in Items, MarkHop2Completed(i) PROVE Ledger!Record({i}, {})
  BY <1>2, <1>8 DEF MarkHop2Completed, Ledger!Record, diskVars, IInv, TypeOK, FileInv, ItemInv
<1>9. ASSUME NEW i \in Items, CleanupCacheFile(i) PROVE LedgerStays
  BY <1>2, <1>9 DEF CleanupCacheFile
<1>10. ASSUME NEW i \in Items, UnlinkSource(i) PROVE Ledger!Release(i) \/ LedgerStays
  <2>1. i \in RowsInForce
    BY <1>2, <1>10 DEF UnlinkSource, IInv, FileInv, ItemInv
  <2> QED
    BY <1>2, <1>10, <2>1 DEF UnlinkSource, Ledger!Release
<1> QED
  BY <1>3, <1>4, <1>5, <1>6, <1>7, <1>8, <1>9, <1>10 DEF Hop1Step, Hop2Step, Ledger!Next

\* An item that recovery takes up loses its copy, and is struck off, or stays as
\* it is: the others are not touched.
LEMMA RecoveryOfItem ==
  ASSUME IInv, AllDistinct, NEW k \in Items,
         \/ RecoveryVerifies(k) \/ RecoveryFindsNothing(k)
         \/ RecoveryMisreads(k) \/ RecoveryRemovesStale(k)
  PROVE  Ledger!Next \/ LedgerStays
<1>1. /\ pc = "recover" /\ app = "recovering" /\ app' = app /\ UNCHANGED <<dbVars, source>>
      /\ current \in Batches /\ batchStatus[current] = "ARCHIVED" /\ batchOf[k] = current
      /\ misread \cap vault = {}
  BY DEF RecoveryVerifies, RecoveryFindsNothing, RecoveryMisreads, RecoveryRemovesStale,
     RecoveryTakes, procVars, IInv, StageInv, FileInv, RecoverInv, BatchItems
<1>2. UNCHANGED <<batchStatus, batchOf, final, hashed, skipped>>
  BY <1>1 DEF dbVars
<1> USE DEF Vaulted, Verified, LedgerStays, RowsInForce, Completed
<1>3. CASE vault' = vault /\ misread' = misread
  BY <1>1, <1>2, <1>3 DEF HalfRecovered, Unhashed, Batches
<1>4. ASSUME vault' \cap Items = Vaulted \ {k}, misread' \subseteq misread \cup {k}, misread \subseteq misread',
             k \in misread' \/ k \in Unhashed
      PROVE  RowsInForce' = RowsInForce \ {k}
  <2>1. k \notin vault' /\ HalfRecovered(k)'
    BY <1>1, <1>2, <1>4 DEF HalfRecovered, Unhashed, Batches
  <2>2. ASSUME NEW i \in Items, i # k
        PROVE  (i \in vault' \/ ~HalfRecovered(i)') <=> (i \in vault \/ ~HalfRecovered(i))
    BY <1>1, <1>2, <1>4, <2>2 DEF HalfRecovered, Unhashed, Batches
  <2> QED
    BY <1>2, <2>1, <2>2
<1>5. CASE RecoveryMisreads(k)
  <2>1. k \in hashed \cap vault /\ vault' = vault \ {k} /\ misread' = misread \cup {k}
    BY <1>5 DEF RecoveryMisreads, HasVerifiedCopy
  <2>2. Ledger!GiveUp(k)
    BY <1>1, <1>2, <1>4, <2>1 DEF Ledger!GiveUp
  <2> QED
    BY <2>2 DEF Ledger!Next
<1>6. CASE RecoveryRemovesStale(k)
  <2>1. PICK f \in LocatedByName(k) : vault' = vault \ {f}
    BY <1>6 DEF RecoveryRemovesStale
  <2>2. k \in Unhashed /\ misread' = misread
    BY <1>6 DEF RecoveryRemovesStale
  <2>3. \A i \in Items : i # k => i # f
    BY <2>1 DEF LocatedByName, AllDistinct, Distinct
  <2>4. CASE f = k
    <3>1. Ledger!TakeBack(k)
      BY <1>1, <1>2, <1>4, <2>1, <2>2, <2>4 DEF Ledger!TakeBack, Unhashed
    <3> QED
      BY <3>1 DEF Ledger!Next
  <2>5. CASE f # k
    <3>1. f \notin Items /\ Vaulted' = Vaulted /\ \A i \in Items : i \in vault' <=> i \in vault
      BY <2>1, <2>3, <2>5
    <3> QED
      BY <1>1, <1>2, <2>2, <3>1 DEF HalfRecovered, Unhashed, Batches
  <2> QED
    BY <2>4, <2>5
<1> QED
  BY <1>3, <1>5, <1>6 DEF RecoveryVerifies, RecoveryFindsNothing

\* The end of a batch strikes off what is not verified, and writes down the rest.
LEMMA RecoveryOfRows ==
  ASSUME IInv, AllDistinct, RecoveryStoresRows
  PROVE  \E R, F \in SUBSET Items : Ledger!Record(R, F)
<1> DEFINE F == BatchItems(current)
<1>1. /\ UNCHANGED <<source, vault, misread, hashed, batchOf, app>>
      /\ skipped' = skipped \ F
      /\ batchStatus' = [batchStatus EXCEPT ![current] = "PENDING"]
      /\ final' = [i \in Items |-> IF i \in done THEN "COMPLETED"
                                   ELSE IF i \in F THEN "PENDING" ELSE final[i]]
  BY DEF RecoveryStoresRows, Requeue
<1>2. done \subseteq F /\ done \subseteq vault /\ F \subseteq Items
  BY DEF RecoveryStoresRows, IInv, FileInv, RecoverInv, AllDistinct, BatchItems
<1>3. ASSUME NEW i \in Items, i \notin F
      PROVE  HalfRecovered(i)' <=> HalfRecovered(i)
  BY <1>1, <1>3 DEF HalfRecovered, Unhashed, Batches, BatchItems, IInv, TypeOK
<1>4. RowsInForce' = (RowsInForce \ F) \cup done
  BY <1>1, <1>2, <1>3 DEF RowsInForce, Completed
<1>5. Ledger!Record(done, F)
  BY <1>1, <1>2, <1>4 DEF Ledger!Record
<1> QED
  BY <1>2, <1>5

\* What recovery does around the items leaves the ledger alone.
LEMMA RecoveryAround ==
  ASSUME IInv, AllDistinct,
         \/ \E b \in Batches : \/ RecoverLoadingBatch(b) \/ RecoverPartialBatch(b)
                              \/ RecoverArchivedBatch(b)
         \/ \E i \in Items : RecoverySweeps(i)
         \/ NextBatchToRecover \/ RecoveryDone
  PROVE  LedgerStays
<1> USE DEF Vaulted, Verified, LedgerStays, RowsInForce, Completed, dbVars, diskVars, procVars
<1>1. ASSUME NEW b \in Batches, RecoverLoadingBatch(b) \/ RecoverPartialBatch(b)
      PROVE  LedgerStays
  <2>1. /\ UNCHANGED <<source, vault, misread, hashed, batchOf, app, final, skipped>>
        /\ batchStatus[b] # "ARCHIVED" /\ batchStatus' = [batchStatus EXCEPT ![b] = "PENDING"]
    BY <1>1 DEF RecoverLoadingBatch, RecoverPartialBatch, Requeue
  <2>2. \A i \in Items : HalfRecovered(i)' <=> HalfRecovered(i)
    BY <2>1 DEF HalfRecovered, Unhashed, Batches, IInv, TypeOK
  <2> QED
    BY <2>1, <2>2
<1>2. ASSUME UNCHANGED <<dbVars, source, vault, misread, app>> PROVE LedgerStays
  BY <1>2 DEF HalfRecovered, Unhashed, Batches
<1>3. ASSUME NEW b \in Batches, RecoverArchivedBatch(b) PROVE LedgerStays
  BY <1>2, <1>3 DEF RecoverArchivedBatch
<1>4. ASSUME NEW i \in Items, RecoverySweeps(i) PROVE LedgerStays
  BY <1>2, <1>4 DEF RecoverySweeps
<1>5. CASE NextBatchToRecover
  BY <1>2, <1>5 DEF NextBatchToRecover
<1>6. CASE RecoveryDone
  <2>1. \A i \in Items : ~HalfRecovered(i) /\ ~HalfRecovered(i)'
    BY <1>6 DEF RecoveryDone, HalfRecovered, Interrupted
  <2> QED
    BY <1>6, <2>1 DEF RecoveryDone
<1> QED
  BY <1>1, <1>3, <1>4, <1>5, <1>6

\* The end of the process and its start leave the ledger alone.
LEMMA ProcessAround ==
  ASSUME IInv, AllDistinct, Shutdown \/ Crash \/ Boot
  PROVE  LedgerStays
<1>1. UNCHANGED <<dbVars, diskVars>>
  BY DEF Shutdown, Crash, Boot
<1>2. UNCHANGED <<source, vault, misread, hashed, batchOf, batchStatus, final, skipped>>
  BY <1>1 DEF dbVars, diskVars
<1>3. RowsInForce' = RowsInForce
  <2>1. CASE app \in {"down", "recovering"}
    <3>1. app' \in {"down", "recovering"}
      BY <2>1 DEF Shutdown, Crash, Boot
    <3> QED
      BY <1>2, <2>1, <3>1 DEF RowsInForce, Completed, HalfRecovered, Unhashed, Batches
  <2>2. CASE app \notin {"down", "recovering"}
    BY <1>2, <2>2, RowsWhenUp DEF RowsInForce, Completed
  <2> QED
    BY <2>1, <2>2
<1> QED
  BY <1>2, <1>3 DEF LedgerStays, Vaulted, Verified

LEMMA StepsOutsideHops ==
  ASSUME IInv, AllDistinct,
         \/ Requests \/ Answers \/ ScanPhase \/ ExecutePhase \/ Finalize \/ TaskRaises
         \/ UNCHANGED vars
  PROVE  LedgerStays
<1> USE DEF dbVars, diskVars, procVars
<1>1. CASE UNCHANGED vars
  BY <1>1 DEF vars, LedgerStays, Vaulted, Verified, RowsInForce, Completed, HalfRecovered,
     Unhashed, Batches
<1>2. ASSUME app' = app, app \notin {"down", "recovering"},
             UNCHANGED <<source, vault, misread, hashed>>, Completed' \ skipped' = Completed \ skipped
      PROVE  LedgerStays
  BY <1>2, UpToUp DEF LedgerStays, Vaulted, Verified
<1>3. CASE Requests
  BY <1>2, <1>3 DEF Requests, StartChecks, PauseChecks, ResolveChecks, Takes, CancelSession,
     PurgeCompletedCache, Completed
<1>4. CASE Answers
  BY <1>2, <1>4 DEF Answers, StartSession, PauseSession, ResolveDuplicates, Stores, Completed
<1> USE DEF IInv, StageInv, TypeOK, TaskEnds
<1>5. CASE ScanPhase
  <2>1. CASE ScanSource
    BY <1>2, <2>1 DEF ScanSource, Completed
  <2> QED
    BY <1>2, <1>5, <2>1 DEF ScanPhase, ScanReusesBatches, CreateBatches, StoreTotals, ScanFails, Completed
<1>6. CASE ExecutePhase
  <2>1. ASSUME NEW b, BatchWithResolvedDuplicates(b) PROVE LedgerStays
    BY <1>2, <2>1 DEF BatchWithResolvedDuplicates, Completed
  <2> QED
    BY <1>2, <1>6, <2>1 DEF ExecutePhase, ExecuteStops, ExecuteDone, SelfPause, BatchWithoutDuplicates,
       BatchWithNewDuplicates, Completed
<1>7. CASE Finalize \/ TaskRaises
  BY <1>2, <1>7 DEF Finalize, FinalizeSkips, FinalizeReads, FinalizeStores, TaskRaises, Completed
<1> QED BY <1>1, <1>3, <1>4, <1>5, <1>6, <1>7

LEMMA NextImplements ==
  ASSUME IInv, AllDistinct, [Next]_vars
  PROVE  Ledger!Next \/ LedgerStays
<1>1. CASE Recovery
  BY <1>1, RecoveryOfItem, RecoveryOfRows, RecoveryAround DEF Recovery, Ledger!Next
<1>2. CASE Shutdown \/ Crash \/ Boot
  BY <1>2, ProcessAround
<1>3. CASE Hop1Step \/ Hop2Step
  BY <1>3, StepsOfHops
<1>4. CASE \/ Requests \/ Answers \/ ScanPhase \/ ExecutePhase \/ Finalize \/ TaskRaises
           \/ UNCHANGED vars
  BY <1>4, StepsOutsideHops
<1> QED BY <1>1, <1>2, <1>3, <1>4 DEF Next, TaskStep, ProcessStep

\* When no two files of a session have the same name and size, every step of
\* task, handlers, crashes and recovery is a step of the ledger.
THEOREM PipelineImplementsLedger == AllDistinct => (Spec => ImplementsLedger)
<1>1. Init => Ledger!Init
  BY ConstantsAssumption DEF ConstantsAssumption, Init, Ledger!Init, RowsInForce, Completed
<1>2. IInv /\ AllDistinct /\ [Next]_vars => [Ledger!Next]_(Ledger!vars)
  BY NextImplements DEF LedgerStays, Ledger!vars, Vaulted, Verified
<1> SUFFICES ASSUME AllDistinct PROVE Spec => ImplementsLedger
  OBVIOUS
<1>3. IInv /\ [Next]_vars => [Ledger!Next]_(Ledger!vars)
  BY <1>2
<1> QED
  BY <1>1, <1>3, Safe, PTL DEF Spec, ImplementsLedger, Ledger!Spec

=============================================================================
