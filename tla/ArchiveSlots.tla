---------------------------- MODULE ArchiveSlots ----------------------------
(***************************************************************************)
(* Hop 2 inside the archive folders: how the workers of import_batch share *)
(* the file names of the vault.  An item is imported under its own name or *)
(* the first free conflict name; the name is claimed by creating its       *)
(* .partial file exclusively, the copy thread writes that file, and it     *)
(* replaces the final name before the hash is compared.  A rejected copy   *)
(* is deleted and copied again to the same name, after a pause and without *)
(* a new claim.                                                            *)
(*                                                                         *)
(* The bytes of a file are the set of contents written into it: {} for no  *)
(* file, {c} for a good copy of content c, anything else for a broken one. *)
(* What a coroutine does between two awaits is one step; the copy threads  *)
(* run between them.  Every item has its hash on record (TransferPipeline  *)
(* models the ones that have not).                                         *)
(***************************************************************************)
EXTENDS Integers, FiniteSets

CONSTANTS
  Items,       \* items of the batch, in the order of their ids
  Name,        \* Name[i]: the folder and file name the organizer gives item i
  Content,     \* Content[i]: the bytes of item i
  LastSlot,    \* _MAX_SUFFIX + 1, the number of names an item can go to
  Occupied,    \* Occupied[s]: bytes of the file at s before the session
  Sampled,     \* items _should_sample_verify picks
  Workers,     \* COPY_CONCURRENCY
  MaxAttempts, \* MAX_IMMEDIATE_RETRIES + 1
  MaxRuns      \* bound on the number of times the batch is imported

Slots == {Name[i] : i \in Items} \X (1 .. LastSlot)

Contents == {Content[i] : i \in Items}

\* What else a file can hold: nothing yet, what was misread from the cache,
\* somebody's file.
Bytes == SUBSET (Contents \cup {"empty", "garbled", "foreign"})

ASSUME SlotsAssumption ==
  /\ Items \subseteq Nat /\ IsFiniteSet(Items) /\ Sampled \subseteq Items
  /\ LastSlot \in Nat \ {0} /\ Workers \in Nat \ {0} /\ MaxAttempts \in Nat \ {0}
  /\ MaxRuns \in Nat \ {0}
  /\ Contents \cap {"empty", "garbled", "foreign"} = {}
  /\ Occupied \in [Slots -> SUBSET (Contents \cup {"foreign"})]

VARIABLES
  archived,  \* archived[s]: the file under the final name s
  partial,   \* partial[s]: the .partial file beside it
  row,       \* final_status of every item
  stage,     \* where _import_single_item stands
  slot,      \* the name it claimed
  attempt,   \* its number of copies so far
  todo,      \* items the running import has not taken
  runs,      \* imports of the batch so far
  parallel,  \* use_parallel, fixed by the session
  rejected,   \* names of items a copy of which was rejected,
  overlooked, \* names a copy under which could not be read when looked for,
  removed     \* and names a copy under which recovery removed (for the properties)

disk == <<archived, partial>>
task == <<stage, slot, attempt, todo, runs>>
past == <<overlooked, removed>>
vars == <<disk, row, task, parallel, rejected, past>>

Running   == {i \in Items : stage[i] # "idle"}
SlotsOf(i) == {s \in Slots : s[1] = Name[i]}
NoSlot    == <<"none", 0>>

-----------------------------------------------------------------------------
(* Bugs the code could have; each stands in for a definition below.        *)

IgnoresReservations(s) == archived[s] = {}
IgnoresFiles(s)        == partial[s] = {}
OwnNameOnly(i)         == {s \in SlotsOf(i) : s[2] = 1 /\ archived[s] = {Content[i]}}
SameNumber(i)          == attempt[i]
RetriesOnceMore(i)     == IF attempt[i] <= MaxAttempts THEN "retrying" ELSE "failing"

-----------------------------------------------------------------------------
\* What locate_archive_file with verify_hash finds if it can read it: the item's
\* own name, then the conflict names, then every folder of the vault.
Located(i) == {s \in SlotsOf(i) : archived[s] = {Content[i]}}

\* claim_archive_path: neither the final name nor its reservation exists.
IsFree(s) == archived[s] = {} /\ partial[s] = {}

IsFirstFree(i, s) ==
  /\ s \in SlotsOf(i) /\ IsFree(s)
  /\ \A r \in SlotsOf(i) : IsFree(r) => s[2] <= r[2]

Width == IF parallel THEN Workers ELSE 1

Init ==
  /\ archived = Occupied
  /\ partial = [s \in Slots |-> {}]
  /\ row = [i \in Items |-> "PENDING"]
  /\ stage = [i \in Items |-> "idle"]
  /\ slot = [i \in Items |-> NoSlot]
  /\ attempt = [i \in Items |-> 0]
  /\ todo = Items /\ runs = 1
  /\ parallel \in BOOLEAN
  /\ rejected = {} /\ overlooked = {} /\ removed = {}

Enters(i, s) == stage' = [stage EXCEPT ![i] = s]

-----------------------------------------------------------------------------
(* One item: locate or claim, copy, publish, compare, check, commit.       *)

\* The semaphore lets the items in one after the other.
Takes(i) ==
  /\ i \in todo /\ (\A j \in todo : i <= j) /\ Cardinality(Running) < Width
  /\ todo' = todo \ {i}

AlreadyArchived(i) ==
  /\ Takes(i) /\ Located(i) # {}
  /\ Enters(i, "published")
  /\ UNCHANGED <<disk, row, slot, attempt, runs, parallel, rejected, past>>

\* Nothing was found: there is nothing, or _matches could not read it.
Claim(i) ==
  /\ Takes(i)
  /\ \E s \in Slots : /\ IsFirstFree(i, s)
                      /\ partial' = [partial EXCEPT ![s] = {"empty"}]
                      /\ slot' = [slot EXCEPT ![i] = s]
  /\ attempt' = [attempt EXCEPT ![i] = 1]
  /\ Enters(i, "claimed")
  /\ overlooked' = IF Located(i) = {} THEN overlooked ELSE overlooked \cup {Name[i]}
  /\ UNCHANGED <<archived, row, runs, parallel, rejected, removed>>

\* No cache file, no room, no destination, or no name left.
Refused(i) ==
  /\ Takes(i)
  /\ Enters(i, "failing")
  /\ UNCHANGED <<disk, row, slot, attempt, runs, parallel, rejected, past>>

\* The number of the copy that starts when a rejected one is repeated.
NextAttempt(i) == attempt[i] + 1

\* The copy thread opens the .partial file, which creates or truncates it.
OpenPartial(i) ==
  /\ stage[i] \in {"claimed", "retrying"}
  /\ partial' = [partial EXCEPT ![slot[i]] = {"empty"}]
  /\ attempt' = IF stage[i] = "claimed" THEN attempt
                ELSE [attempt EXCEPT ![i] = NextAttempt(i)]
  /\ Enters(i, "writing")
  /\ UNCHANGED <<archived, row, slot, todo, runs, parallel, rejected, past>>

\* The thread has written all it read from the cache, right or wrong.  A file
\* that was renamed meanwhile takes the bytes along.
EndCopy(i) ==
  LET Add(f, c) == IF f = {} THEN {} ELSE (f \ {"empty"}) \cup {c}
      s         == slot[i]
  IN  /\ stage[i] = "writing"
      /\ \E c \in {Content[i], "garbled"} :
           /\ IF partial[s] # {}
              THEN /\ partial' = [partial EXCEPT ![s] = Add(@, c)]
                   /\ UNCHANGED archived
              ELSE /\ archived' = [archived EXCEPT ![s] = Add(@, c)]
                   /\ UNCHANGED partial
           /\ Enters(i, IF c = "garbled" THEN "misread" ELSE "written")
      /\ UNCHANGED <<row, slot, attempt, todo, runs, parallel, rejected, past>>

\* The copy, the fsync or the rename raises: the .partial file is removed.
CopyFails(i) ==
  /\ stage[i] \in {"claimed", "writing", "written", "misread"}
  /\ partial' = [partial EXCEPT ![slot[i]] = {}]
  /\ Enters(i, "failing")
  /\ UNCHANGED <<archived, row, slot, attempt, todo, runs, parallel, rejected, past>>

\* The copy replaces whatever has the final name; its hash is right.
Publish(i) ==
  /\ stage[i] = "written" /\ partial[slot[i]] # {}
  /\ archived' = [archived EXCEPT ![slot[i]] = partial[slot[i]]]
  /\ partial' = [partial EXCEPT ![slot[i]] = {}]
  /\ Enters(i, IF i \in Sampled THEN "checking" ELSE "published")
  /\ UNCHANGED <<row, slot, attempt, todo, runs, parallel, rejected, past>>

AfterRejection(i) == IF attempt[i] < MaxAttempts THEN "retrying" ELSE "failing"

\* The same with a wrong hash: what was put under the final name is removed.
RejectCopy(i) ==
  /\ stage[i] = "misread" /\ partial[slot[i]] # {}
  /\ archived' = [archived EXCEPT ![slot[i]] = {}]
  /\ partial' = [partial EXCEPT ![slot[i]] = {}]
  /\ Enters(i, AfterRejection(i))
  /\ rejected' = rejected \cup {Name[i]}
  /\ UNCHANGED <<row, slot, attempt, todo, runs, parallel, past>>

CheckPasses(i) ==
  /\ stage[i] = "checking" /\ archived[slot[i]] = {Content[i]}
  /\ Enters(i, "published")
  /\ UNCHANGED <<disk, row, slot, attempt, todo, runs, parallel, rejected, past>>

\* The file cannot be read back, or reads differently.
CheckFails(i) ==
  /\ stage[i] = "checking"
  /\ archived' = [archived EXCEPT ![slot[i]] = {}]
  /\ partial' = IF attempt[i] < MaxAttempts
                THEN [partial EXCEPT ![slot[i]] = {}] ELSE partial
  /\ Enters(i, AfterRejection(i))
  /\ rejected' = rejected \cup {Name[i]}
  /\ UNCHANGED <<row, slot, attempt, todo, runs, parallel, past>>

\* The worker has stored the outcome and takes another item.
Ends(i, status) ==
  /\ row' = [row EXCEPT ![i] = status]
  /\ Enters(i, "idle")
  /\ slot' = [slot EXCEPT ![i] = NoSlot]
  /\ attempt' = [attempt EXCEPT ![i] = 0]
  /\ UNCHANGED <<disk, todo, runs, parallel, rejected, past>>

MarkCompleted(i) == stage[i] = "published" /\ Ends(i, "COMPLETED")

\* Also when the row of an archived item cannot be committed.
MarkFailed(i) == stage[i] \in {"failing", "published"} /\ Ends(i, "FAILED")

Work(i) ==
  \/ AlreadyArchived(i) \/ Claim(i) \/ Refused(i) \/ OpenPartial(i)
  \/ EndCopy(i) \/ CopyFails(i) \/ Publish(i) \/ RejectCopy(i)
  \/ CheckPasses(i) \/ CheckFails(i) \/ MarkCompleted(i) \/ MarkFailed(i)

WorkerStep == \E i \in Items : Work(i)

-----------------------------------------------------------------------------
(* The batch is imported again.                                            *)

ImportsAgain ==
  /\ runs < MaxRuns /\ runs' = runs + 1
  /\ todo' = Items
  /\ stage' = [i \in Items |-> "idle"]
  /\ slot' = [i \in Items |-> NoSlot]
  /\ attempt' = [i \in Items |-> 0]
  /\ UNCHANGED <<parallel, rejected, overlooked>>

\* After a pause or a rescan; a task that is still busy is cancelled and
\* leaves its .partial files where they are.
StartedAgain == ImportsAgain /\ UNCHANGED <<disk, row, removed>>

\* What _recover_archived_batch finds of every item, one after the other: the
\* ones it can read twice are verified; of the others, the file is removed if
\* the first reading found it and the second one raised.
MayFind(found, verified, struck) ==
  /\ \A i \in Items : found[i] \in Located(i) \cup {NoSlot}
  /\ verified \cap struck = {}
  /\ \A i \in verified \cup struck : found[i] # NoSlot
  /\ \A i \in struck, j \in Items : i < j => found[j] # found[i]

\* After a crash: recovery also removes the .partial of the item's own name
\* and of the file it found.
Recovered ==
  /\ ImportsAgain
  /\ \E found \in [Items -> Slots \cup {NoSlot}] :
       \E verified, struck \in SUBSET {i \in Items : found[i] # NoSlot} :
         /\ MayFind(found, verified, struck)
         /\ row' = [i \in Items |-> IF i \in verified THEN "COMPLETED" ELSE "PENDING"]
         /\ partial' = [s \in Slots |-> IF s[2] = 1 \/ \E i \in Items : found[i] = s
                                        THEN {} ELSE partial[s]]
         /\ archived' = [s \in Slots |-> IF s \in {found[i] : i \in struck} THEN {} ELSE archived[s]]
         /\ removed' = removed \cup {Name[i] : i \in struck}

Next == WorkerStep \/ StartedAgain \/ Recovered

Spec == Init /\ [][Next]_vars

\* The event loop and the copy threads run what can go on.
FairSpec == Spec /\ WF_vars(WorkerStep)

-----------------------------------------------------------------------------
(* Properties.                                                             *)

TypeOK ==
  /\ archived \in [Slots -> Bytes] /\ partial \in [Slots -> Bytes]
  /\ row \in [Items -> {"PENDING", "COMPLETED", "FAILED"}]
  /\ stage \in [Items -> {"idle", "claimed", "writing", "written", "misread",
                          "checking", "published", "retrying", "failing"}]
  /\ slot \in [Items -> Slots \cup {NoSlot}]
  /\ attempt \in [Items -> 0 .. MaxAttempts]
  /\ todo \subseteq Items /\ runs \in 1 .. MaxRuns /\ parallel \in BOOLEAN
  /\ rejected \subseteq {Name[i] : i \in Items}
  /\ overlooked \subseteq {Name[i] : i \in Items} /\ removed \subseteq {Name[i] : i \in Items}

Holding == {i \in Items : stage[i] \notin {"idle", "failing"} /\ slot[i] # NoSlot}

\* Two workers were on one name: a rejected copy lets go of the name, and its
\* retry does not claim it again.
Disturbed(n) == parallel /\ n \in rejected

\* "Keeping it guarantees mutual exclusion against concurrent workers
\* attempting to claim the same filename" (claim_archive_path), until a copy
\* is rejected.
ClaimIsExclusiveUntilRejected ==
  \A i, j \in Holding : i # j /\ slot[i] = slot[j] => Disturbed(Name[i])

\* A row that says COMPLETED has its own bytes under one of its names, however
\* copies, rejections, cancellations and crashes interleave.  Recovery breaks
\* this for two items with the same bytes and name: the first is verified by
\* the file that is removed when it cannot be read for the second.
CompletedHasFile ==
  \A i \in Items : row[i] = "COMPLETED" =>
    Located(i) # {} \/ Disturbed(Name[i]) \/ Name[i] \in removed

\* A file under a final name is never replaced, and removed only by the worker
\* that put it there and could not verify it, or by recovery (runs changes):
\* an import leaves files of earlier sessions and of other items alone.
FilesStay ==
  [][\A s \in Slots :
       archived[s] # {} /\ archived'[s] # archived[s]
         => \/ Disturbed(s[1])'
            \/ /\ archived'[s] = {}
               /\ runs' # runs \/ \E i \in Items : stage[i] = "checking" /\ slot[i] = s]_vars

\* Importing again after a crash, a cancellation or a failed commit makes no
\* second copy: there are no more copies of some bytes under a name than items,
\* unless a copy was there that could not be read.
NoSecondCopy ==
  \A i \in Items :
    LET Copies(files) == Cardinality({s \in SlotsOf(i) : files[s] = {Content[i]}})
        alike == {j \in Items : Name[j] = Name[i] /\ Content[j] = Content[i]}
    IN  \/ Copies(archived) <= Copies(Occupied) \/ Copies(archived) <= Cardinality(alike)
        \/ Name[i] \in overlooked

\* Every import of the batch ends, with retries and failures at any moment.
ImportEnds == []<>(Running = {} /\ todo = {})

-----------------------------------------------------------------------------
(* What a comment says without exception.                                  *)

\* "Atomically claim a free destination path [...] the winner keeps the slot".
ClaimIsExclusive == \A i, j \in Holding : i # j => slot[i] # slot[j]

=============================================================================
