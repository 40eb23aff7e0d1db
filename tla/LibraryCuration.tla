--------------------------- MODULE LibraryCuration ---------------------------
(***************************************************************************)
(* What happens to archived items after the transfer: the trash, its       *)
(* emptying, the page of near duplicates (intelligence_routes.py), and the *)
(* "overwrite" answer to a duplicate (routes.py).                          *)
(*                                                                         *)
(* Rows are looked up in the vault by name, size and hash, never by a      *)
(* stored path; a row without a hash by name and size alone.  A photo that *)
(* is imported twice is found there the second time and not copied: two    *)
(* rows, one file.  A file is named by the row whose import copied it.     *)
(***************************************************************************)
EXTENDS Integers, FiniteSets

CONSTANTS
  LibraryItems,  \* ids of media_items rows; each is used once
  PhotoOf,       \* what the row of every id is about
  NameOf,        \* file name of every content; contents of one name have one size
  Look,          \* contents of one look are near duplicates
  SessionOf,     \* the session that imports every id
  Hashless       \* ids whose hash Hop 1 may fail to store

VARIABLES
  itemState,     \* state of every row
  unhashed,      \* ids of rows without a source_hash
  vault,         \* the files in the destination
  shown,         \* ids of the group the duplicates page shows
  emptying,      \* the running empty_trash: its step, and the rows it selected
  repeated,      \* history: contents two rows, or one and the emptying, were about
  misled,        \* history: contents of which a row without a hash, and about
                 \* another content, removed a file
  interrupted    \* history: rows whose file a deletion removed, but not the row

curationRows == <<itemState, unhashed>>
curationHistory == <<repeated, misled, interrupted>>
curationVars == <<curationRows, vault, shown, emptying, curationHistory>>

NoEmptying == [at |-> "idle", ids |-> {}]

-----------------------------------------------------------------------------
(* A bug the code could have; it stands in for the definition below.       *)

LocatedByNameAndSize(i) == {f \in vault : NameOf[PhotoOf[f]] = NameOf[PhotoOf[i]]}

-----------------------------------------------------------------------------

CurationInit ==
  /\ itemState = [i \in LibraryItems |-> "absent"] /\ vault = {} /\ shown = {}
  /\ unhashed = {} /\ emptying = NoEmptying
  /\ repeated = {} /\ misled = {} /\ interrupted = {}

Become(I, s) == itemState' = [i \in LibraryItems |-> IF i \in I THEN s ELSE itemState[i]]
InLibrary(i) == itemState[i] \in {"kept", "trashed"}

FilesOf(p) == {f \in vault : PhotoOf[f] = p}

\* The candidates of locate_archive_file with verify_hash: the hash is compared
\* only if the row has one.
LocatedFiles(i) ==
  IF i \in unhashed THEN {f \in vault : NameOf[PhotoOf[f]] = NameOf[PhotoOf[i]]}
  ELSE FilesOf(PhotoOf[i])

\* The file each of the rows I leads to is removed, unless it cannot be read or
\* is in use.
RemovesFiles(I) ==
  \E J \in SUBSET I : \E file \in [J -> vault] :
    /\ \A j \in J : file[j] \in LocatedFiles(j)
    /\ vault' = vault \ {file[j] : j \in J}
    /\ misled' = misled \cup {PhotoOf[file[j]] :
                            j \in {k \in J \cap unhashed : PhotoOf[file[k]] # PhotoOf[k]}}

\* Hop 1 caches the item, and stores its hash or fails to.
ItemIsQueued(i) ==
  /\ itemState[i] = "absent" /\ Become({i}, "pending")
  /\ unhashed' \in {unhashed, unhashed \cup ({i} \cap Hashless)}
  /\ UNCHANGED <<vault, shown, emptying, curationHistory>>

\* "Check if file was already safely archived", which takes a hash; else copy it.
ItemIsImported(i) ==
  /\ itemState[i] = "pending" /\ Become({i}, "kept")
  /\ vault' = IF i \notin unhashed /\ FilesOf(PhotoOf[i]) # {} THEN vault ELSE vault \cup {i}
  /\ repeated' = IF \E j \in {k \in LibraryItems : InLibrary(k)} \cup emptying.ids :
                         j # i /\ PhotoOf[j] = PhotoOf[i]
                 THEN repeated \cup {PhotoOf[i]} ELSE repeated
  /\ UNCHANGED <<unhashed, shown, emptying, misled, interrupted>>

-----------------------------------------------------------------------------
(* _apply_duplicate_resolutions                                            *)

\* Rows of the same hash in any session, and of the same name in this one.
Overwritten(i) ==
  {j \in LibraryItems \ {i} :
     /\ InLibrary(j)
     /\ \/ PhotoOf[j] = PhotoOf[i] /\ {i, j} \cap unhashed = {}
        \/ NameOf[PhotoOf[j]] = NameOf[PhotoOf[i]] /\ SessionOf[j] = SessionOf[i]}

\* The files go first, the rows with the commit, which may fail.
OverwriteDuplicates(i, committed) ==
  /\ itemState[i] = "pending" /\ Overwritten(i) # {}
  /\ RemovesFiles(Overwritten(i))
  /\ IF committed THEN Become(Overwritten(i), "deleted") /\ UNCHANGED interrupted
     ELSE interrupted' = interrupted \cup Overwritten(i) /\ UNCHANGED itemState
  /\ UNCHANGED <<unhashed, shown, emptying, repeated>>

-----------------------------------------------------------------------------
(* Trash and near duplicates.                                              *)

TrashItem(i) ==
  /\ itemState[i] = "kept" /\ Become({i}, "trashed")
  /\ UNCHANGED <<unhashed, vault, shown, emptying, curationHistory>>

RestoreItem(i) ==
  /\ itemState[i] = "trashed" /\ Become({i}, "kept")
  /\ UNCHANGED <<unhashed, vault, shown, emptying, curationHistory>>

\* group_near_duplicates
NearDuplicates(i) ==
  {j \in LibraryItems : itemState[j] = "kept" /\ Look[PhotoOf[j]] = Look[PhotoOf[i]]}

ShowGroup(i) ==
  /\ itemState[i] = "kept" /\ Cardinality(NearDuplicates(i)) > 1 /\ shown # NearDuplicates(i)
  /\ shown' = NearDuplicates(i)
  /\ UNCHANGED <<curationRows, vault, emptying, curationHistory>>

\* "Keep #id, move rest to Trash".  The page may be stale: that the keeper is
\* not in the trash itself is not looked at.
ResolveGroup(keep) ==
  /\ keep \in shown /\ itemState[keep] # "deleted"
  /\ Become({i \in shown \ {keep} : InLibrary(i)}, "trashed")
  /\ shown' = {} /\ UNCHANGED <<unhashed, vault, emptying, curationHistory>>

\* empty_trash reads the rows, and then their sessions.
EmptySelects ==
  /\ emptying.at = "idle" /\ \E i \in LibraryItems : itemState[i] = "trashed"
  /\ emptying' = [at |-> "selected", ids |-> {i \in LibraryItems : itemState[i] = "trashed"}]
  /\ UNCHANGED <<curationRows, vault, shown, curationHistory>>

\* The loop over the rows does not wait for anything.  A row whose file stays
\* goes all the same.
EmptyUnlinks ==
  /\ emptying.at = "selected" /\ RemovesFiles(emptying.ids)
  /\ emptying' = [emptying EXCEPT !.at = "unlinked"]
  /\ UNCHANGED <<curationRows, shown, repeated, interrupted>>

\* Rows are deleted by id, whatever has been written to them since.
EmptyCommits ==
  /\ emptying.at = "unlinked" /\ Become(emptying.ids, "deleted")
  /\ emptying' = NoEmptying /\ UNCHANGED <<unhashed, vault, shown, curationHistory>>

\* The engine stops, or the database is locked.
EmptyIsLost ==
  /\ emptying.at # "idle" /\ emptying' = NoEmptying
  /\ interrupted' = IF emptying.at = "unlinked" THEN interrupted \cup emptying.ids ELSE interrupted
  /\ UNCHANGED <<curationRows, vault, shown, repeated, misled>>

CurationNext ==
  \/ \E i \in LibraryItems :
       \/ ItemIsQueued(i) \/ ItemIsImported(i) \/ TrashItem(i) \/ RestoreItem(i)
       \/ ShowGroup(i) \/ ResolveGroup(i) \/ \E ok \in BOOLEAN : OverwriteDuplicates(i, ok)
  \/ EmptySelects \/ EmptyUnlinks \/ EmptyCommits \/ EmptyIsLost

CurationSpec == CurationInit /\ [][CurationNext]_curationVars

-----------------------------------------------------------------------------
(* Properties.                                                             *)

HasItsFile(i) ==
  InLibrary(i) /\ i \notin emptying.ids /\ i \notin interrupted => FilesOf(PhotoOf[i]) # {}

\* "Hash-verified": neither emptying the trash nor overwriting a duplicate
\* takes the file of an item that was not chosen, even one of the same name and
\* size, unless two items were about that content.  A chosen row that has no
\* hash is not verified: what it took by mistake is excepted.
OthersKeepTheirFile ==
  \A i \in LibraryItems : PhotoOf[i] \notin repeated \cup misled => HasItsFile(i)

\* "Keep #id, move rest to Trash": emptying the trash never removes the file of
\* an item that was kept, also when the trash holds a duplicate of it (and
\* every row in it has its hash).
EmptyingSparesKept ==
  [][\A i \in LibraryItems :
       /\ itemState[i] = "kept" /\ i \notin emptying.ids /\ FilesOf(PhotoOf[i]) # {}
       /\ emptying.ids \cap unhashed = {}
       /\ emptying.at = "selected" /\ emptying'.at = "unlinked"
       => FilesOf(PhotoOf[i])' # {}]_curationVars

=============================================================================
