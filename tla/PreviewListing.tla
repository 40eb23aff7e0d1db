--------------------------- MODULE PreviewListing ---------------------------
(***************************************************************************)
(* Listings of an iPhone's photos: the cache that pages of the preview are *)
(* cut from, its copy in SQLite, and the transfer that reuses a listing    *)
(* instead of walking the phone again (device_preview.py, routes.py).      *)
(*                                                                         *)
(* A walk takes long and goes through all folders.  A snapshot is one      *)
(* browse of the top folder; it decides whether a listing is current.      *)
(***************************************************************************)
EXTENDS Integers, FiniteSets

CONSTANTS
  Viewers,     \* preview requests that run at once
  Sorts,       \* sort_by values, one cache key each
  LastChange   \* bound on the changes of the phone's folders

VARIABLES
  top,         \* version of the top folder
  nested,      \* version of what lies in the folders below
  plugged,     \* list_devices() shows the phone
  memory,      \* _listing_cache of the recursive listings
  disk,        \* device_listings.db
  viewer,      \* what every request is doing
  refresher,   \* _listing_refresh_inflight, and how far each refresh is
  reuse        \* the transfer's use of a listing

listVars == <<top, nested, plugged, memory, disk, viewer, refresher, reuse>>
phoneVars == <<top, nested, plugged>>
cacheVars == <<memory, disk>>

Versions == 0 .. LastChange
NoSnap  == -1
Nothing == [top |-> NoSnap, nested |-> NoSnap, moved |-> FALSE]
NoEntry == [snap |-> NoSnap, items |-> Nothing]
Quiet   == [at |-> "idle", sort |-> "none", items |-> Nothing]
NoReuse == [at |-> "none", id |-> NoSnap, how |-> "none", items |-> Nothing, top |-> NoSnap]
Cached(e) == e.items # Nothing

-----------------------------------------------------------------------------
(* Bugs the code could have; each stands in for a definition below.        *)

AnySnapshot(e, s)   == s # NoSnap /\ Cached(e)

-----------------------------------------------------------------------------

ListInit ==
  /\ top = 0 /\ nested = 0 /\ plugged = TRUE
  /\ memory = [s \in Sorts |-> NoEntry] /\ disk = [s \in Sorts |-> NoEntry]
  /\ viewer = [v \in Viewers |-> Quiet] /\ refresher = [s \in Sorts |-> Quiet]
  /\ reuse = NoReuse

\* What a step of a walk, a browse or a snapshot finds.
Walked  == [top |-> top, nested |-> nested, moved |-> FALSE]
Browsed == IF plugged THEN {top, NoSnap} ELSE {NoSnap}

\* A row per key, whatever snapshot it replaces.
StoreOnDisk(s, e) == disk' = [disk EXCEPT ![s] = e]

\* _listing_store: the listing goes under the snapshot taken after the walk,
\* and its scan id is derived from that snapshot alone.
Store(s, items, snap) ==
  LET e == [snap |-> snap, items |-> items] IN
  memory' = [memory EXCEPT ![s] = e] /\ StoreOnDisk(s, e)

Reusable(e, snap) == snap # NoSnap /\ Cached(e) /\ e.snap = snap

\* The same walk under another sort, in the cache or in the database.
KeptInMemory(snap) == {e \in {memory[k] : k \in Sorts} : Reusable(e, snap)}
KeptOnDisk(snap)   == {e \in {disk[k] : k \in Sorts} : Reusable(e, snap)}

\* A cached listing of any age is served at once and refreshed in the background,
\* once per key.
PreviewHit(v, s) ==
  /\ plugged /\ viewer[v].at = "idle" /\ Cached(memory[s])
  /\ refresher[s].at = "idle" /\ refresher' = [refresher EXCEPT ![s].at = "listing"]
  /\ UNCHANGED <<phoneVars, cacheVars, viewer, reuse>>

PreviewMiss(v, s) ==
  /\ plugged /\ viewer[v].at = "idle" /\ ~Cached(memory[s])
  /\ viewer' = [viewer EXCEPT ![v] = [at |-> "snapshot", sort |-> s, items |-> Nothing]]
  /\ UNCHANGED <<phoneVars, cacheVars, refresher, reuse>>

\* A listing that was kept is sorted anew and stored; else the phone is walked.
PreviewSnapshot(v, snap) ==
  /\ viewer[v].at = "snapshot" /\ snap \in Browsed
  /\ \/ \E e \in IF KeptInMemory(snap) # {} THEN KeptInMemory(snap) ELSE KeptOnDisk(snap) :
          /\ Store(viewer[v].sort, e.items, snap)
          /\ viewer' = [viewer EXCEPT ![v] = Quiet]
     \/ /\ KeptInMemory(snap) \cup KeptOnDisk(snap) = {} /\ viewer' = [viewer EXCEPT ![v].at = "walking"]
        /\ UNCHANGED cacheVars
  /\ UNCHANGED <<phoneVars, refresher, reuse>>

\* A walk that is partial or fails is shown or reported, never stored.
PreviewWalks(v) ==
  /\ viewer[v].at = "walking"
  /\ viewer' = [viewer EXCEPT ![v] = IF plugged THEN [@ EXCEPT !.at = "resnap", !.items = Walked] ELSE Quiet]
  /\ UNCHANGED <<phoneVars, cacheVars, refresher, reuse>>

WalkFails(v) ==
  /\ viewer[v].at = "walking" /\ viewer' = [viewer EXCEPT ![v] = Quiet]
  /\ UNCHANGED <<phoneVars, cacheVars, refresher, reuse>>

PreviewStores(v, snap) ==
  /\ viewer[v].at = "resnap" /\ snap \in Browsed
  /\ Store(viewer[v].sort, viewer[v].items, snap)
  /\ viewer' = [viewer EXCEPT ![v] = Quiet]
  /\ UNCHANGED <<phoneVars, refresher, reuse>>

\* Locked or not trusted, POST retry: nothing of the phone stays cached.
PurgeForSerial ==
  /\ memory' = [s \in Sorts |-> NoEntry] /\ disk' = memory'
  /\ \/ UNCHANGED viewer
     \/ \E v \in Viewers : viewer[v].at = "walking" /\ viewer' = [viewer EXCEPT ![v] = Quiet]
  /\ UNCHANGED <<phoneVars, refresher, reuse>>

\* The request of another phone purges this one, once it is unplugged; its own
\* requests end before they get so far.
PurgeDisconnected ==
  /\ ~plugged /\ \E s \in Sorts : Cached(memory[s])
  /\ memory' = [s \in Sorts |-> NoEntry] /\ disk' = memory'
  /\ UNCHANGED <<phoneVars, viewer, refresher, reuse>>

-----------------------------------------------------------------------------
(* _refresh_ios_listing                                                    *)

RefreshBegins(s) ==
  /\ refresher[s].at = "listing"
  /\ IF plugged THEN refresher' = [refresher EXCEPT ![s].at = "walking"] /\ UNCHANGED memory
                ELSE refresher' = [refresher EXCEPT ![s] = Quiet] /\ memory' = [memory EXCEPT ![s] = NoEntry]
  /\ UNCHANGED <<phoneVars, disk, viewer, reuse>>

RefreshWalks(s, whole) ==
  /\ refresher[s].at = "walking"
  /\ refresher' = [refresher EXCEPT ![s] =
       IF plugged /\ whole THEN [@ EXCEPT !.at = "resnap", !.items = Walked] ELSE Quiet]
  /\ UNCHANGED <<phoneVars, cacheVars, viewer, reuse>>

\* The phone's presence was looked at before the walk, not before the store.
RefreshStores(s, snap) ==
  /\ refresher[s].at = "resnap" /\ snap \in Browsed
  /\ Store(s, refresher[s].items, snap)
  /\ refresher' = [refresher EXCEPT ![s] = Quiet]
  /\ UNCHANGED <<phoneVars, viewer, reuse>>

ListingEvicted(s) ==
  /\ Cached(memory[s]) /\ memory' = [memory EXCEPT ![s] = NoEntry]
  /\ UNCHANGED <<phoneVars, disk, viewer, refresher, reuse>>

-----------------------------------------------------------------------------
(* A transfer that was created with the scan id of a preview.              *)

InMemory(id) == {s \in Sorts : Cached(memory[s]) /\ memory[s].snap = id}
OnDisk(id)   == {s \in Sorts : Cached(disk[s]) /\ disk[s].snap = id}

CreateWithScan(id) ==
  /\ reuse.at # "created" /\ InMemory(id) \cup OnDisk(id) # {}
  /\ reuse' = [NoReuse EXCEPT !.at = "created", !.id = id]
  /\ UNCHANGED <<phoneVars, cacheVars, viewer, refresher>>

\* "Reuse only when the live top-level snapshot still matches": what is compared
\* is the cached listing of the transfer's own root.  A listing that is only on
\* disk, or that was made for the same root under another spelling, is compared
\* with nothing.
SnapshotMatches(e, snap) == e.snap = snap

TakesListing(how, items, snap) ==
  reuse' = [reuse EXCEPT !.at = "reused", !.how = how, !.items = items, !.top = snap]

ScanReuses(snap, sameRoot) ==
  /\ reuse.at = "created" /\ snap \in Browsed
  /\ LET cached   == InMemory(reuse.id)
         kept     == IF cached # {} THEN {memory[s] : s \in cached}
                                    ELSE {disk[s] : s \in OnDisk(reuse.id)}
         compared == cached # {} /\ sameRoot
     IN
     \/ \E e \in kept :
          /\ snap # NoSnap /\ (compared => SnapshotMatches(e, snap))
          /\ TakesListing(IF compared THEN "compared" ELSE "unchecked", e.items, snap)
     \/ /\ \/ snap = NoSnap \/ kept = {}
           \/ compared /\ \E e \in kept : ~SnapshotMatches(e, snap)
        /\ reuse' = NoReuse
  /\ UNCHANGED <<phoneVars, cacheVars, viewer, refresher>>

-----------------------------------------------------------------------------

\* A walk that has ended but is not stored yet is overtaken by the change.
Moved(w) == [w EXCEPT !.items.moved = w.at = "resnap"]

PhoneChanges ==
  /\ top + nested < LastChange
  /\ \/ top' = top + 1 /\ UNCHANGED nested
     \/ nested' = nested + 1 /\ UNCHANGED top
  /\ viewer' = [v \in Viewers |-> Moved(viewer[v])]
  /\ refresher' = [s \in Sorts |-> Moved(refresher[s])]
  /\ UNCHANGED <<plugged, cacheVars, reuse>>

PlugOrUnplug ==
  plugged' = ~plugged /\ UNCHANGED <<top, nested, cacheVars, viewer, refresher, reuse>>

ListEngineRestarts ==
  /\ memory' = [s \in Sorts |-> NoEntry]
  /\ viewer' = [v \in Viewers |-> Quiet] /\ refresher' = [s \in Sorts |-> Quiet]
  /\ reuse' = NoReuse /\ UNCHANGED <<phoneVars, disk>>

ListNext ==
  \/ PurgeForSerial \/ PurgeDisconnected \/ PhoneChanges \/ PlugOrUnplug \/ ListEngineRestarts
  \/ \E v \in Viewers : PreviewWalks(v) \/ WalkFails(v)
  \/ \E s \in Sorts :
       \/ RefreshBegins(s) \/ ListingEvicted(s)
       \/ \E whole \in BOOLEAN : RefreshWalks(s, whole)
       \/ \E v \in Viewers : PreviewHit(v, s) \/ PreviewMiss(v, s)
  \/ \E id \in Versions \cup {NoSnap} :
       \/ CreateWithScan(id)
       \/ \E sameRoot \in BOOLEAN : ScanReuses(id, sameRoot)
       \/ \E v \in Viewers : PreviewSnapshot(v, id) \/ PreviewStores(v, id)
       \/ \E s \in Sorts : RefreshStores(s, id)

ListSpec == ListInit /\ [][ListNext]_listVars

-----------------------------------------------------------------------------
(* Properties.                                                             *)

\* A transfer that takes a cached listing for the files on the phone takes the
\* one that the user saw under that scan id, even when it was sorted anew,
\* refreshed, or read back after a restart.  "Stale: normal walk": where the
\* listing was compared, the top folder is also the one on the phone now.  The
\* phone may always have changed between the walk and the snapshot.  A listing
\* that is on disk only is used without the comparison that the comment on the
\* store promises ("reuse is ALWAYS snapshot-gated"): nothing is said of it here
\* but that it is the listing of the scan id.
ReuseIsFresh ==
  reuse.at = "reused" /\ ~reuse.items.moved =>
    /\ reuse.id # NoSnap => reuse.items.top = reuse.id
    /\ reuse.how = "compared" => reuse.items.top = reuse.top

=============================================================================
