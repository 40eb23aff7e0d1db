------------------------- MODULE MCTransferPipeline -------------------------
(***************************************************************************)
(* Small instances of TransferPipeline: which files look alike, how many   *)
(* requests, crashes and shutdowns disturb the session (a task that raises *)
(* counts as one) and how many file operations fail.  A request is counted *)
(* when its handler begins, not when it stores its status.                 *)
(***************************************************************************)
EXTENDS TransferPipeline

CONSTANTS MaxDisturbances, MaxFaults

VARIABLES disturbances, faults

mcVars == <<vars, disturbances, faults>>

NoLookAlikes == [i \in Items |-> {}]

\* Item 1 has the name and size of item 2 and of the files of the library.
SomeLookAlikes == [i \in Items |-> IF i = 1 THEN {2} \cup Library ELSE {}]

MCInit == Init /\ disturbances = 0 /\ faults = 0

\* A failure the disks force is not counted: the source or the cache file is
\* gone, or there is nothing (more) to scan.
Forced ==
  \/ \E i \in Items \ source : CacheFails(i)
  \/ \E i \in Items \ cache : ImportFails(i)
  \/ (source = {} \/ scans = MaxScans) /\ ScanFails

\* Nothing in the vault for recovery to find.
NothingThere(i) == i \notin vault /\ (i \in hashed \/ LocatedByName(i) = {})

Fault ==
  \/ \E i \in Items : \/ RecoveryMisreads(i)
                      \/ ~NothingThere(i) /\ RecoveryFindsNothing(i)
  \/ \E i \in source : CacheFails(i) \/ DeviceLost(i)
  \/ \E i \in cache : ImportFails(i)
  \/ DestinationLow
  \/ source # {} /\ ScanFails

Smooth ==
  \/ ScanReusesBatches \/ ScanSource \/ CreateBatches \/ StoreTotals
  \/ ExecutePhase \/ Hop1Ends \/ EnterHop2 \/ Hop2Chunk \/ Hop2Ends \/ Finalize
  \/ \E i \in Items : \/ CacheHit(i) \/ CopyToCache(i) \/ StoreSourceHash(i)
                      \/ MarkHop1Completed(i) \/ PublishToVault(i)
                      \/ MarkHop2Completed(i) \/ CleanupCacheFile(i)
                      \/ UnlinkSource(i)

SmoothRecovery ==
  \/ \E b \in Batches : \/ RecoverLoadingBatch(b) \/ RecoverArchivedBatch(b)
                        \/ RecoverPartialBatch(b)
  \/ \E i \in Items : \/ RecoveryVerifies(i) \/ RecoveryRemovesStale(i)
                      \/ NothingThere(i) /\ RecoveryFindsNothing(i)
                      \/ RecoverySweeps(i)
  \/ RecoveryStoresRows \/ NextBatchToRecover \/ RecoveryDone

MCTask    == (Smooth \/ Forced) /\ UNCHANGED <<disturbances, faults>>
MCRestart == (Boot \/ SmoothRecovery) /\ UNCHANGED <<disturbances, faults>>
MCAnswer  == Answers /\ UNCHANGED <<disturbances, faults>>

MCNext ==
  \/ /\ disturbances < MaxDisturbances /\ disturbances' = disturbances + 1
     /\ Requests \/ TaskRaises \/ Shutdown \/ Crash
     /\ UNCHANGED faults
  \/ /\ faults < MaxFaults /\ faults' = faults + 1
     /\ Fault
     /\ UNCHANGED disturbances
  \/ MCTask \/ MCRestart \/ MCAnswer

MCSpec == MCInit /\ [][MCNext]_mcVars

\* The event loop runs a task that can go on; a process that is down is started
\* again and its recovery ends.
MCFairSpec == MCSpec /\ WF_mcVars(MCTask) /\ WF_mcVars(MCRestart)

=============================================================================
