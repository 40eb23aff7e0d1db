----------------------------- MODULE MCServices -----------------------------
(***************************************************************************)
(* One instance of every component around the pipeline.  They meet only in *)
(* the pipeline: no action of one reads or writes a variable of another.   *)
(* So a behaviour runs one part, chosen at the start, while the others     *)
(* rest; the states explored are the sum over the parts.                   *)
(***************************************************************************)
EXTENDS SessionTasks, ImportCutoff, DeviceTiers, AfcSessions, BridgeWatch,
        TierSetup, PreviewListing, DeviceThumbs, LibraryThumbs, EventFeed,
        TransferView, LibraryCuration

CONSTANTS
  Parts,                \* the parts that are explored
  c1, c2, grid,         \* model values: two callers, a page of the library,
  date, name            \* two sort orders

VARIABLE part

servicesVars ==
  <<sessionVars, cutoffVars, tierVars, afcVars, bridgeVars, setupVars, listVars,
    thumbVars, libraryVars, feedVars, viewVars, curationVars, part>>

\* Three files: the second has no capture date, the third is modified last.
FileTimes    == <<2, 3, 4>>
CaptureTimes == <<2, 0, 3>>

\* Two versions of the file on the phone, of different sizes.
VersionSizes == <<1, 2>>

\* Two sessions import the same photo, the first also another one; the camera
\* gave both photos one name, and they look alike.
Photos         == <<"shot", "shot", "burst">>
PhotoNames     == [p \in {"shot", "burst"} |-> "IMG"]
PhotoLooks     == [p \in {"shot", "burst"} |-> "sea"]
PhotoSessions  == <<1, 2, 1>>

\* States that are not gone on from.  Some leave nothing to find: once the
\* transfer has taken its listing, that listing stays what it is; and a property
\* says nothing any more of a deletion that does not stop the makers (library)
\* or of an id that is recycled (view).  Others are bounds: at most MaxThreads
\* threads (afc); probes with no session open, as no step of a session reads
\* their verdict (afc); one refresh at a time (listing); one hasty key (thumbs);
\* no lost callbacks together with an overtaken answer, and a second session
\* only for the page that has started the first, without polls, events and
\* cancellations (view).
MaxThreads == 3
Fun        == INSTANCE Functions

InScope ==
  /\ part = "library" => "removal" \notin causes
  /\ part = "thumbs" => Cardinality(hasty) <= 1
  /\ part = "view" => recycled = {} /\ (overtaken => orphaned = {})
  /\ part = "view" =>
       \/ highest <= 1
       \/ /\ orphaned = {} /\ ~linked /\ cancelled = 0
          /\ \A s \in SessionIds : progress[s] = NoRecord /\ poll[s] = NoRecord
  /\ part = "listing" =>
       /\ reuse.at # "reused"
       /\ Cardinality({s \in Sorts : refresher[s].at # "idle"}) <= 1
  /\ part = "afc" =>
       \/ open = {}
       \/ /\ verdict = NoVerdict /\ \A c \in Callers : caller[c].at # "probing"
          /\ Fun!FoldFunction(LAMBDA n, sum : n + sum, 0, threads) <= MaxThreads

\* The parts with more than one initial state begin in one of them when they rest.
AtRest ==
  /\ part # "tasks"  => boot = "ready"
  /\ part # "setup"  => registered = {}
  /\ part # "thumbs" => media = "photo"

ServicesInit ==
  /\ part \in Parts
  /\ SessionInit /\ CutoffInit /\ TierInit /\ AfcInit /\ BridgeInit /\ SetupInit
  /\ ListInit /\ ThumbInit /\ LibraryInit /\ FeedInit /\ ViewInit /\ CurationInit
  /\ AtRest

\* One turn per part: a step of it while the rest keeps still.
SessionTurn ==
  /\ part = "tasks"
  /\ UNCHANGED <<part, cutoffVars, tierVars, afcVars, bridgeVars, setupVars,
                 listVars, thumbVars, libraryVars, feedVars, viewVars,
                 curationVars>>
  /\ SessionNext

CutoffTurn ==
  /\ part = "cutoff"
  /\ UNCHANGED <<part, sessionVars, tierVars, afcVars, bridgeVars,
                 setupVars, listVars, thumbVars, libraryVars, feedVars,
                 viewVars, curationVars>>
  /\ CutoffNext

TierTurn ==
  /\ part = "tiers"
  /\ UNCHANGED <<part, sessionVars, cutoffVars, afcVars, bridgeVars,
                 setupVars, listVars, thumbVars, libraryVars, feedVars,
                 viewVars, curationVars>>
  /\ TierNext

AfcTurn ==
  /\ part = "afc"
  /\ UNCHANGED <<part, sessionVars, cutoffVars, tierVars, bridgeVars,
                 setupVars, listVars, thumbVars, libraryVars, feedVars,
                 viewVars, curationVars>>
  /\ AfcNext

BridgeTurn ==
  /\ part = "bridge"
  /\ UNCHANGED <<part, sessionVars, cutoffVars, tierVars, afcVars,
                 setupVars, listVars, thumbVars, libraryVars, feedVars,
                 viewVars, curationVars>>
  /\ BridgeNext

SetupTurn ==
  /\ part = "setup"
  /\ UNCHANGED <<part, sessionVars, cutoffVars, tierVars, afcVars,
                 bridgeVars, listVars, thumbVars, libraryVars, feedVars,
                 viewVars, curationVars>>
  /\ SetupNext

ListTurn ==
  /\ part = "listing"
  /\ UNCHANGED <<part, sessionVars, cutoffVars, tierVars, afcVars,
                 bridgeVars, setupVars, thumbVars, libraryVars, feedVars,
                 viewVars, curationVars>>
  /\ ListNext

ThumbTurn ==
  /\ part = "thumbs"
  /\ UNCHANGED <<part, sessionVars, cutoffVars, tierVars, afcVars,
                 bridgeVars, setupVars, listVars, libraryVars, feedVars,
                 viewVars, curationVars>>
  /\ ThumbNext

LibraryTurn ==
  /\ part = "library"
  /\ UNCHANGED <<part, sessionVars, cutoffVars, tierVars, afcVars,
                 bridgeVars, setupVars, listVars, thumbVars, feedVars,
                 viewVars, curationVars>>
  /\ LibraryNext

FeedTurn ==
  /\ part = "feed"
  /\ UNCHANGED <<part, sessionVars, cutoffVars, tierVars, afcVars,
                 bridgeVars, setupVars, listVars, thumbVars, libraryVars,
                 viewVars, curationVars>>
  /\ FeedNext

ViewTurn ==
  /\ part = "view"
  /\ UNCHANGED <<part, sessionVars, cutoffVars, tierVars, afcVars,
                 bridgeVars, setupVars, listVars, thumbVars, libraryVars,
                 feedVars, curationVars>>
  /\ ViewNext

CurationTurn ==
  /\ part = "curation"
  /\ UNCHANGED <<part, sessionVars, cutoffVars, tierVars, afcVars,
                 bridgeVars, setupVars, listVars, thumbVars, libraryVars,
                 feedVars, viewVars>>
  /\ CurationNext

ServicesNext ==
  \/ SessionTurn \/ CutoffTurn \/ TierTurn \/ AfcTurn \/ BridgeTurn \/ SetupTurn
  \/ ListTurn \/ ThumbTurn \/ LibraryTurn \/ FeedTurn \/ ViewTurn \/ CurationTurn

ServicesSpec == ServicesInit /\ [][ServicesNext]_servicesVars

=============================================================================
