---------------------------- MODULE DeviceThumbs ----------------------------
(***************************************************************************)
(* The thumbnail of one file of the device preview: the RAM cache, the     *)
(* cache on disk, the persistent list of files that cannot be decoded, the *)
(* two endpoints, and the background prefetch of a page                    *)
(* (device_preview.py, thumb_worker.py).                                   *)
(*                                                                         *)
(* The file may be replaced under its name.  A number stands for one of    *)
(* its versions, and also for the size and time that a listing gave for    *)
(* it.  A listing whose stat failed gives no size and no time: every       *)
(* version then goes under the one key Unsized.  A read takes the version  *)
(* that is there at that moment.                                           *)
(***************************************************************************)
EXTENDS Integers, FiniteSets

CONSTANTS
  Foreground,   \* requests of the viewer that run at once
  LastVersion,  \* bound on the versions of the file
  SizeOf,       \* file size of every version, 0 for an empty file
  Undecodable   \* versions that no decoder accepts

ASSUME VersionsAssumption ==
  LastVersion \in Nat \ {0} /\ Undecodable \subseteq 1 .. LastVersion

VARIABLES
  media,      \* what the file is: a photo or video on the phone, or local
  version,    \* the version now on the device
  staged,     \* the version in the hop-1 cache
  thumbRam,   \* _thumb_cache: the version shown, Grey, or NoThumb
  thumbDisk,  \* device_thumbs: the version shown, for every key
  refused,    \* thumb_fail_cache: keys
  thumb,      \* what every request, and the prefetch, is doing
  hasty       \* history: keys of requests that lost although nothing was
              \* decoded: the decoder was killed, or the file did not open

thumbVars == <<media, version, staged, thumbRam, thumbDisk, refused, thumb, hasty>>
deviceVars == <<media, version, staged>>

NoThumb   == -1
Grey      == 0
Listed    == 1 .. LastVersion
Unsized   == 0
Keys      == Listed \cup {Unsized}
Resting   == [at |-> "idle", key |-> NoThumb, full |-> FALSE, shows |-> NoThumb, transient |-> FALSE]
Requesters == Foreground \cup {"prefetch"}

-----------------------------------------------------------------------------
(* Bugs the code could have; each stands in for a definition below.        *)

AnyStaged(k)          == staged # NoThumb
PrefixIsConclusive(r) == "lost"

-----------------------------------------------------------------------------

ThumbInit ==
  /\ media \in {"photo", "video", "local"} /\ version = 1 /\ staged = NoThumb
  /\ thumbRam = NoThumb /\ thumbDisk = [k \in Keys |-> NoThumb] /\ refused = {}
  /\ thumb = [r \in Requesters |-> Resting] /\ hasty = {}

\* _run_in_worker: a child that crashes is replaced by a decode in process; one
\* that hangs is killed, and only the decoder of video frames says so.
Decoded(v)  == IF v \in Undecodable THEN {"none", "timeout"} ELSE {"image", "timeout"}
\* A prefix may hold no preview although the file has a picture.
PrefixOf(v) == Decoded(v) \cup {"none"}

Step(r, p)   == thumb' = [thumb EXCEPT ![r].at = p]
Done(r)      == thumb' = [thumb EXCEPT ![r] = Resting]
Shows(r, v)  == thumb' = [thumb EXCEPT ![r].at = "got", ![r].shows = v]
Undecided(r) == hasty' = hasty \cup {thumb[r].key}

\* RAM goes by the name of the file, the disk by name, size and time.
RequestsThumb(r, k, full) ==
  /\ thumb[r].at = "idle" /\ k <= version /\ thumbRam = NoThumb
  /\ IF thumbDisk[k] # NoThumb
     THEN thumbRam' = thumbDisk[k] /\ UNCHANGED thumb
     ELSE /\ thumb' = [thumb EXCEPT ![r] = [Resting EXCEPT !.at = "asked", !.key = k, !.full = full]]
          /\ UNCHANGED thumbRam
  /\ UNCHANGED <<deviceVars, thumbDisk, refused, hasty>>

\* GET /device-thumbnail, of a file on this computer: it stats the file when
\* the request names no size and no time.
LocalRequest(r, k) == k \in Listed /\ media = "local" /\ r \in Foreground /\ RequestsThumb(r, k, FALSE)

\* GET /ios-thumbnail and the prefetch of a page; only a request may ask for
\* the whole file.
DeviceRequest(r, k, full) ==
  media # "local" /\ (full => r \in Foreground) /\ RequestsThumb(r, k, full)

\* _thumb_fail_get
KnownUndecodable(r) ==
  /\ thumb[r].key \in refused /\ ~thumb[r].full
  /\ media = "video" => r = "prefetch"

\* A size of 0 counts as not known, and then any hop-1 copy will do.
ListedSize(k) == IF k = Unsized THEN 0 ELSE SizeOf[k]
StagedIsTrusted(k) == staged # NoThumb /\ ListedSize(k) \in {0, SizeOf[staged]}

AfterStaged(r) ==
  IF media = "video" /\ r # "prefetch" THEN "idle"
  ELSE IF thumb[r].full THEN "whole" ELSE "prefix"

ThumbLooksAround(r) ==
  /\ thumb[r].at = "asked"
  /\ \/ KnownUndecodable(r) /\ Done(r)
     \/ /\ ~KnownUndecodable(r) /\ media # "local" /\ StagedIsTrusted(thumb[r].key)
        /\ \E o \in Decoded(staged) :
             IF o = "image" THEN Shows(r, staged)
             ELSE IF AfterStaged(r) = "idle" THEN Done(r) ELSE Step(r, AfterStaged(r))
     \/ /\ ~KnownUndecodable(r) /\ (media = "local" \/ ~StagedIsTrusted(thumb[r].key))
        /\ Step(r, IF thumb[r].full \/ media = "local" THEN "whole" ELSE "prefix")
  /\ UNCHANGED <<deviceVars, thumbRam, thumbDisk, refused, hasty>>

AfterPrefix(r) == IF media = "video" /\ r = "prefetch" THEN "lost" ELSE "whole"

\* 256 KB of a photo, 4 MB of a video.
ThumbReadsPrefix(r) ==
  /\ thumb[r].at = "prefix"
  /\ \/ \E o \in PrefixOf(version) :
          IF o = "image" THEN Shows(r, version)
          ELSE IF o = "timeout" /\ media = "video" /\ r # "prefetch" THEN Done(r)
          ELSE Step(r, AfterPrefix(r))
     \/ IF media = "video" THEN Done(r)
        ELSE thumb' = [thumb EXCEPT ![r].at = "whole", ![r].transient = r # "prefetch"]
  /\ UNCHANGED <<deviceVars, thumbRam, thumbDisk, refused, hasty>>

ThumbReadsWhole(r) ==
  /\ thumb[r].at = "whole"
  /\ \E o \in Decoded(version) :
       /\ IF o = "image" THEN Shows(r, version) ELSE Step(r, "lost")
       /\ IF o = "timeout" THEN Undecided(r) ELSE UNCHANGED hasty
  /\ UNCHANGED <<deviceVars, thumbRam, thumbDisk, refused>>

\* The read from the phone fails or takes too long: 503, and nothing is
\* remembered.
ThumbReadFails(r) ==
  /\ thumb[r].at = "whole" /\ media # "local" /\ Done(r)
  /\ UNCHANGED <<deviceVars, thumbRam, thumbDisk, refused, hasty>>

\* A local file that does not open has no picture, like one that does not decode.
ThumbDoesNotOpen(r) ==
  /\ thumb[r].at = "whole" /\ media = "local" /\ Step(r, "lost") /\ Undecided(r)
  /\ UNCHANGED <<deviceVars, thumbRam, thumbDisk, refused>>

\* _put_thumb_cache leaves a thumbnail that is already there.
PutRam(v) == thumbRam' = IF thumbRam = NoThumb THEN v ELSE thumbRam

ThumbGoesToRam(r) ==
  /\ thumb[r].at = "got"
  /\ PutRam(thumb[r].shows) /\ Step(r, "kept")
  /\ UNCHANGED <<deviceVars, thumbDisk, refused, hasty>>

ThumbGoesToDisk(r) ==
  /\ thumb[r].at = "kept"
  /\ thumbDisk' = [thumbDisk EXCEPT ![thumb[r].key] = thumb[r].shows]
  /\ refused' = refused \ {thumb[r].key}
  /\ Done(r) /\ UNCHANGED <<deviceVars, thumbRam, hasty>>

\* _thumb_fail_put: photos on a phone, and every local file.
Remembered(r) ==
  \/ media = "local"
  \/ media = "photo" /\ ~thumb[r].transient /\ r # "prefetch"

ThumbIsGrey(r) ==
  /\ thumb[r].at = "lost"
  /\ \/ Remembered(r) /\ refused' = refused \cup {thumb[r].key}
     \/ ~Remembered(r) /\ UNCHANGED refused
  /\ IF media = "local" THEN PutRam(Grey) ELSE UNCHANGED thumbRam
  /\ Done(r) /\ UNCHANGED <<deviceVars, thumbDisk, hasty>>

-----------------------------------------------------------------------------

FileIsReplaced ==
  /\ version < LastVersion /\ version' = version + 1
  /\ UNCHANGED <<media, staged, thumbRam, thumbDisk, refused, thumb, hasty>>

\* A transfer copies the file, and removes its copy.
FileIsStaged ==
  /\ media # "local" /\ staged' \in {version, NoThumb} \ {staged}
  /\ UNCHANGED <<media, version, thumbRam, thumbDisk, refused, thumb, hasty>>

ThumbForgotten ==
  /\ \/ thumbRam # NoThumb /\ thumbRam' = NoThumb /\ UNCHANGED <<thumbDisk, refused>>
     \/ \E k \in Keys : thumbDisk[k] # NoThumb /\ thumbDisk' = [thumbDisk EXCEPT ![k] = NoThumb]
        /\ UNCHANGED <<thumbRam, refused>>
     \/ \E k \in refused : refused' = refused \ {k} /\ UNCHANGED <<thumbRam, thumbDisk>>
  /\ UNCHANGED <<deviceVars, thumb, hasty>>

ThumbEngineRestarts ==
  /\ thumbRam' = NoThumb /\ thumb' = [r \in Requesters |-> Resting]
  /\ UNCHANGED <<deviceVars, thumbDisk, refused, hasty>>

ThumbNext ==
  \/ FileIsReplaced \/ FileIsStaged \/ ThumbForgotten \/ ThumbEngineRestarts
  \/ \E r \in Requesters :
       \/ \E k \in Keys : LocalRequest(r, k) \/ \E full \in BOOLEAN : DeviceRequest(r, k, full)
       \/ ThumbLooksAround(r) \/ ThumbReadsPrefix(r) \/ ThumbReadsWhole(r)
       \/ ThumbReadFails(r) \/ ThumbDoesNotOpen(r)
       \/ ThumbGoesToRam(r) \/ ThumbGoesToDisk(r) \/ ThumbIsGrey(r)

ThumbSpec == ThumbInit /\ [][ThumbNext]_thumbVars

-----------------------------------------------------------------------------
(* Properties.                                                             *)

\* "Exact invalidation": a thumbnail on disk never shows an older version than
\* the listing it is filed under, not even when the hop-1 copy was decoded,
\* unless the two versions have the same size.  The invalidation is exact only
\* where the listing knew the size: under a size of 0 the hop-1 copy goes
\* unchecked, and the key without size and time is the same for all versions.
DiskThumbNotStale ==
  \A k \in Keys :
    thumbDisk[k] # NoThumb /\ ListedSize(k) \notin {0, SizeOf[thumbDisk[k]]} => thumbDisk[k] >= k

\* "Only recorded after a full decode fails": a file that is refused for a day
\* has had a version that cannot be decoded, the listed one or a later one,
\* except for keys under which a decoder was killed or a local file did not
\* open, which the code records in the same way.
RefusedIsUndecodable ==
  \A k \in refused \ hasty : \E v \in Undecodable : k <= v /\ v <= version

=============================================================================
