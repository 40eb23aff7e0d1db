---------------------------- MODULE LibraryThumbs ----------------------------
(***************************************************************************)
(* The thumbnail of one library row: its bytes live in memory only         *)
(* (thumbnail_cache.py), its status in the row.  Requests of the grid, the *)
(* threads of "regenerate thumbnails" and the threads of a running         *)
(* transfer make thumbnails at the same time (routes.py,                   *)
(* thumbnail_ops.py, cache_manager.py, importer.py).                       *)
(*                                                                         *)
(* A row that is deleted gives its id to the next one: owners of the id    *)
(* are numbered, and 0 is no row.                                          *)
(***************************************************************************)
EXTENDS Integers, FiniteSets

CONSTANTS
  Grids,      \* thumbnail requests that run at once
  LastRegen,  \* bound on the regeneration requests
  LastOwner   \* bound on the rows that get the id

VARIABLES
  owner,        \* the row that has the id
  born,         \* the last row that got it
  removal,      \* how a deletion of the row stands
  thumbStatus,  \* MediaItem.thumbnail_status
  inMemory,     \* MediaItem.thumbnail_path = 'memory', else NULL
  bytesOf,      \* the row whose picture thumbnail_cache has under the id
  reachable,    \* the file of the row, in archive, cache or source
  generation,   \* _regen_generation
  maker,        \* what every maker of thumbnails is doing
  sentinels,    \* the start of the engine has reset stale paths
  evicted,      \* history: the LRU has dropped the picture of the row
  late,         \* history: makers of a picture that was made before
  causes        \* history: what the code does not protect the row from

repeats == <<evicted, late>>
libraryVars == <<owner, born, removal, thumbStatus, inMemory, bytesOf, reachable,
                 generation, maker, sentinels, repeats, causes>>

Regens   == 1 .. LastRegen
Transfer == 0     \* the threads of a scan, of hop 1 and of hop 2
Makers   == Grids \cup Regens \cup {Transfer}

ASSUME LibraryAssumption == LastRegen \in Nat /\ Grids \cap (Regens \cup {Transfer}) = {}

Free     == [at |-> "idle", of |-> 0]
Busy(m)  == maker[m].at # "idle"

-----------------------------------------------------------------------------
(* Bugs the code could have; each stands in for a definition below.        *)

KeepsTheSentinel == inMemory' = inMemory
NoSecondLook(g)  == TRUE

-----------------------------------------------------------------------------

LibraryInit ==
  /\ owner = 1 /\ born = 1 /\ removal = "none" /\ thumbStatus = "pending"
  /\ inMemory = FALSE /\ bytesOf = 0 /\ reachable = TRUE /\ generation = 0
  /\ maker = [m \in Makers |-> Free] /\ sentinels = TRUE
  /\ evicted = FALSE /\ late = {} /\ causes = {}

\* A maker goes on with its row; once the picture is kept, or there is none, it
\* knows the row by its id only.
Makes(m, p) == maker' = [maker EXCEPT ![m].at = p]
Told(p)     == [at |-> p, of |-> 0]
Tells(m, p) == maker' = [maker EXCEPT ![m] = Told(p)]
Rests(m)    == maker' = [maker EXCEPT ![m] = Free]

\* A decode that begins after an eviction, or in a transfer although the row has
\* its picture, is late.  "removal": one that begins while the row is being
\* deleted, or that a deletion does not stop.
Begins(m, p) ==
  /\ ~Busy(m) /\ owner # 0
  /\ maker' = [maker EXCEPT ![m] = IF p = "missing" THEN Told(p) ELSE [at |-> p, of |-> owner]]
  /\ late' = IF evicted \/ (m = Transfer /\ inMemory) THEN late \cup {m} ELSE late
  /\ causes' = IF removal # "none" THEN causes \cup {"removal"} ELSE causes

\* resolve_thumbnail_source_path, then generate_thumbnail_bytes.
FirstStep == IF reachable THEN "decoding" ELSE "missing"

-----------------------------------------------------------------------------
(* GET /media/{id}/thumbnail: a failed row and a cached picture are        *)
(* answered at once.                                                       *)

GridAsks(c) ==
  /\ thumbStatus # "failed" /\ bytesOf = 0
  /\ Begins(c, FirstStep)
  /\ UNCHANGED <<owner, born, removal, thumbStatus, inMemory, bytesOf, reachable, generation,
                 sentinels, evicted>>

\* The transfer knows its file.  The threads of a scan mark a row that cannot be
\* decoded as failed; the batches of hop 1 and hop 2 leave it.
TransferThumb(p) ==
  /\ Begins(Transfer, p)
  /\ UNCHANGED <<owner, born, removal, thumbStatus, inMemory, bytesOf, reachable, generation,
                 sentinels, evicted>>

ScanThumb  == TransferThumb("decoding")
BatchThumb == TransferThumb("batch")

\* thumbnail_cache.put, with the row it began with.
Keeps(m) ==
  /\ bytesOf' = maker[m].of /\ evicted' = FALSE
  /\ Tells(m, "made") /\ UNCHANGED late

Decodes(m) ==
  /\ maker[m].at \in {"decoding", "batch"} /\ m \notin Regens
  /\ \/ Keeps(m)
     \/ /\ IF maker[m].at = "batch" THEN Rests(m) /\ late' = late \ {m}
                                  ELSE Tells(m, "unmade") /\ UNCHANGED late
        /\ UNCHANGED <<bytesOf, evicted>>
  /\ UNCHANGED <<owner, born, removal, thumbStatus, inMemory, reachable, generation, causes, sentinels>>

\* mark_thumbnail_ready, _failed, _not_found, and the queue of cache_manager.
\* The row is found by its id.
MarkReady == thumbStatus' = "ready" /\ inMemory' = TRUE
Mark(s)   == thumbStatus' = s /\ UNCHANGED inMemory

Verdict(p) ==
  CASE p = "made"    -> MarkReady
    [] p = "unmade"  -> Mark("failed")
    [] p = "missing" -> Mark("not_found")

\* Whoever is still at work when a picture is recorded is late; "late" is a
\* failure that it reports.
MarksRow(m) ==
  LET v == maker[m].at IN
  /\ v \in {"made", "unmade", "missing"}
  /\ IF owner = 0 THEN UNCHANGED <<thumbStatus, inMemory>> ELSE Verdict(v)
  /\ Rests(m)
  /\ late' = IF owner # 0 /\ v = "made" THEN {n \in Makers \ {m} : Busy(n)} ELSE late \ {m}
  /\ causes' = IF owner # 0 /\ v # "made" /\ inMemory /\ m \in late
               THEN causes \cup {"late"} ELSE causes
  /\ UNCHANGED <<owner, born, removal, bytesOf, reachable, generation, sentinels, evicted>>

-----------------------------------------------------------------------------
(* POST /media/regenerate-thumbnails: rows without a path.                 *)

Regenerate(g) ==
  /\ g = generation + 1 /\ generation' = g
  /\ IF owner # 0 /\ ~inMemory
     THEN /\ Begins(g, "check")
          /\ thumbStatus' = IF thumbStatus \in {"failed", "not_found"} THEN "pending" ELSE thumbStatus
     ELSE UNCHANGED <<maker, late, causes, thumbStatus>>
  /\ UNCHANGED <<owner, born, removal, inMemory, bytesOf, reachable, sentinels, evicted>>

GivesUp(m) == Rests(m) /\ late' = late \ {m}

RegenLooksForFile(g) ==
  /\ maker[g].at = "check"
  /\ CASE g # generation              -> GivesUp(g)
       [] g = generation /\ ~reachable -> Tells(g, "missing") /\ UNCHANGED late
       [] OTHER                        -> Makes(g, "decoding") /\ UNCHANGED late
  /\ UNCHANGED <<owner, born, removal, thumbStatus, inMemory, bytesOf, reachable, generation, causes,
                 sentinels, evicted>>

Newest(g) == g = generation

\* The generation is looked at again before the picture is kept; the lock is
\* released in between.
RegenDecodes(g) ==
  /\ maker[g].at = "decoding"
  /\ \/ Tells(g, "unmade") /\ UNCHANGED late
     \/ IF Newest(g) THEN Makes(g, "keeping") /\ UNCHANGED late ELSE GivesUp(g)
  /\ UNCHANGED <<owner, born, removal, thumbStatus, inMemory, bytesOf, reachable, generation, causes,
                 sentinels, evicted>>

RegenKeeps(g) ==
  /\ maker[g].at = "keeping"
  /\ Keeps(g)
  /\ UNCHANGED <<owner, born, removal, thumbStatus, inMemory, reachable, generation, causes, sentinels>>

-----------------------------------------------------------------------------
(* Deletion: the picture goes first, then the row.                         *)

NewGeneration == generation' = generation + 1

\* What a deletion does not stop: makers that put a picture, or mark the row by
\* its id, when the id has a new owner.
Unstopped(stopped) == \E m \in Makers : Busy(m) /\ ~(m \in stopped /\ maker[m].at \in {"check", "decoding"})

\* POST /media/clear stops the regeneration, and clears everything.
ClearLibrary ==
  /\ owner # 0 /\ removal = "none" /\ generation <= LastRegen /\ NewGeneration
  /\ removal' = "evicted" /\ bytesOf' = 0 /\ evicted' = FALSE
  /\ causes' = IF Unstopped(Regens) THEN causes \cup {"removal"} ELSE causes
  /\ UNCHANGED <<owner, born, thumbStatus, inMemory, reachable, maker, sentinels, late>>

\* DELETE of sessions, emptying the trash, overwritten duplicates.
DeleteItem ==
  /\ owner # 0 /\ removal = "none"
  /\ removal' = "evicted" /\ bytesOf' = 0 /\ evicted' = FALSE
  /\ causes' = IF Unstopped({}) THEN causes \cup {"removal"} ELSE causes
  /\ UNCHANGED <<owner, born, thumbStatus, inMemory, reachable, generation, maker, sentinels, late>>

RowIsDeleted ==
  /\ removal = "evicted" /\ removal' = "none"
  /\ owner' = 0 /\ thumbStatus' = "pending" /\ inMemory' = FALSE
  /\ UNCHANGED <<born, bytesOf, reachable, generation, maker, causes, sentinels, repeats>>

\* A scan inserts a row, and SQLite gives it the id.
ItemIsScanned ==
  /\ owner = 0 /\ born < LastOwner
  /\ owner' = born + 1 /\ born' = owner' /\ reachable' = TRUE
  /\ UNCHANGED <<removal, thumbStatus, inMemory, bytesOf, generation, maker, causes, sentinels, repeats>>

-----------------------------------------------------------------------------

DriveComesOrGoes ==
  /\ owner # 0 /\ reachable' = ~reachable
  /\ UNCHANGED <<owner, born, removal, thumbStatus, inMemory, bytesOf, generation, maker, causes,
                 sentinels, repeats>>

\* _evict: 500 pictures, 50 MB.  The row still says memory.
LruEvicts ==
  /\ bytesOf # 0 /\ bytesOf' = 0 /\ evicted' = TRUE
  /\ UNCHANGED <<owner, born, removal, thumbStatus, inMemory, reachable, generation, maker, causes,
                 sentinels, late>>

ResetSentinel == inMemory' = FALSE

LibraryRestarts ==
  /\ bytesOf' = 0 /\ sentinels' = FALSE
  /\ maker' = [m \in Makers |-> Free] /\ removal' = "none" /\ generation' = 0
  /\ evicted' = FALSE /\ late' = {}
  /\ UNCHANGED <<owner, born, thumbStatus, inMemory, reachable, causes>>

\* Requests are served before the start gets here.
ResetSentinels ==
  /\ ~sentinels /\ sentinels' = TRUE /\ ResetSentinel
  /\ UNCHANGED <<owner, born, removal, thumbStatus, bytesOf, reachable, generation, maker, causes, repeats>>

LibraryNext ==
  \/ ClearLibrary \/ DeleteItem \/ RowIsDeleted \/ ItemIsScanned
  \/ DriveComesOrGoes \/ LruEvicts \/ LibraryRestarts \/ ResetSentinels
  \/ \E c \in Grids : GridAsks(c)
  \/ ScanThumb \/ BatchThumb
  \/ \E g \in Regens : Regenerate(g) \/ RegenLooksForFile(g) \/ RegenDecodes(g) \/ RegenKeeps(g)
  \/ \E m \in Makers : Decodes(m) \/ MarksRow(m)

LibrarySpec == LibraryInit /\ [][LibraryNext]_libraryVars

-----------------------------------------------------------------------------
(* Properties.                                                             *)

\* The picture under an id is the picture of the row that has the id, although
\* ids are used again, unless a row was deleted while one was being made.
ThumbIsOfItem ==
  "removal" \notin causes /\ bytesOf # 0 => bytesOf = owner

\* "Never strand items in a terminal state": a row that failed, or whose file
\* was missing, has no path, so that the next regeneration takes it up, with
\* any number of makers, evictions and restarts.  Excepted is only a failure
\* reported by a maker that was at work when another's picture was recorded, or
\* made an evicted one again (and the rows whose deletion stops no maker).
FailureIsRetried ==
  causes = {} /\ sentinels /\ thumbStatus \in {"failed", "not_found"} => ~inMemory

=============================================================================
