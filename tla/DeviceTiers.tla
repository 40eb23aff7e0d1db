----------------------------- MODULE DeviceTiers -----------------------------
(***************************************************************************)
(* The three ways to reach a phone (device_backend.py): AFC through the    *)
(* Apple driver (tier1), WPD, and the bridge in WSL (tier2).  One phone    *)
(* and the requests about it: a listing asks every tier in turn, an        *)
(* operation goes down the tiers until one answers, and both write what    *)
(* later requests prefer.  Every call of a tier is an await, so that       *)
(* requests overlap.  WPD may name the phone by a PnP id that embeds the   *)
(* UDID: one canonical key, two serials.                                   *)
(***************************************************************************)
EXTENDS Integers, Sequences, SequencesExt, FiniteSets

CONSTANTS
  DeviceClients,  \* requests under way at once
  LastCall,       \* bound on the number of requests, settings and restarts
  OneShots,       \* tiers that a retry may name
  Threshold       \* _EMPTY_LIST_PURGE_THRESHOLD, and failed retries before a reset

VARIABLES
  configured,  \* tiers that can be tried; tier1 always
  preferTier2, \* "I do not want the Apple driver"
  userTier,    \* _device_tier_user_prefs: persistent, "auto" when there is none
  hint,        \* _device_tier_prefs: the tier that served the phone last
  savedHint,   \* the hint in its file
  tierMap,     \* _device_tier_map: the tier a file reader is made for
  emptyPolls,  \* _empty_list_polls
  streak,      \* _retry_fail_counts
  call,        \* what every client's request is doing
  calls        \* requests, settings and restarts so far

tierVars == <<configured, preferTier2, userTier, hint, savedHint, tierMap,
              emptyPolls, streak, call, calls>>
settings == <<preferTier2, userTier>>

Tiers     == {"tier1", "wpd", "tier2"}
Unknown   == "none"
NoRow     == [tier |-> Unknown, ready |-> FALSE]
NoCall    == [kind |-> "none", at |-> "idle", row |-> NoRow, serial |-> "udid",
              rest |-> <<>>, tried |-> {}, due |-> {}]

-----------------------------------------------------------------------------
(* Bugs the code could have; each stands in for a definition below.        *)

NothingElse(first, order) == <<>>
NeverDemoted(row)         == FALSE

-----------------------------------------------------------------------------
(* The order of the tiers.                                                 *)

\* _is_ios_device: a PnP id is never treated as an iPhone.
IsIos(serial) == serial = "udid"

\* WPD is stripped for an iPhone; a tier that is not configured is skipped later.
Candidates(ios) ==
  {"tier1", "tier2"} \cup IF ios THEN {} ELSE configured \cap {"wpd"}

DefaultOrder == IF preferTier2 THEN <<"tier2", "wpd", "tier1">>
                               ELSE <<"tier1", "wpd", "tier2">>
OnlyIf(b, taken) == IF taken THEN <<b>> ELSE <<>>

\* _waterfall_order: "want" is the one-shot or the user's override, moved to
\* the front when it can be used.
WaterfallOrder(ios, want) ==
  LET first   == want \in Candidates(ios) \cap configured
      Rest(i) == OnlyIf(DefaultOrder[i], /\ DefaultOrder[i] \in Candidates(ios)
                                         /\ ~(first /\ DefaultOrder[i] = want))
  IN  OnlyIf(want, first) \o (Rest(1) \o Rest(2) \o Rest(3))

Effective(oneShot) == IF oneShot # "auto" THEN oneShot ELSE userTier

Usable(serial) == Candidates(IsIos(serial)) \cap configured

FirstOf(order, S) ==
  order[CHOOSE i \in 1 .. Len(order) : /\ order[i] \in S
                                       /\ \A j \in 1 .. i - 1 : order[j] \notin S]

\* _resolve_backend: override, then hint, then the first that is configured.
ResolveBackend(serial, want) ==
  IF want \in Usable(serial) THEN want
  ELSE IF hint \in Usable(serial) THEN hint
  ELSE FirstOf(WaterfallOrder(IsIos(serial), "auto"), Usable(serial))

\* _fallback_chain: what comes after the preferred tier in the order.
FallbackChain(first, order) ==
  IF Contains(order, first)
  THEN SubSeq(order, 1 + CHOOSE i \in 1 .. Len(order) : order[i] = first, Len(order))
  ELSE order

-----------------------------------------------------------------------------

TierInit ==
  /\ configured = {"tier1"} /\ preferTier2 = FALSE /\ userTier = "auto"
  /\ hint = Unknown /\ savedHint = Unknown /\ tierMap = Unknown
  /\ emptyPolls = 0 /\ streak = 0 /\ calls = 0
  /\ call = [c \in DeviceClients |-> NoCall]

Accepted == calls < LastCall /\ calls' = calls + 1

Poll(k) == [NoCall EXCEPT !.kind = k, !.at = "listing"]

\* GET /ios-devices, and the listing before a browse, a file-info or a retry;
\* a retry forgets the tier that served the phone.
RequestArrives(c, k) ==
  /\ call[c].at = "idle" /\ Accepted
  /\ call' = [call EXCEPT ![c] = Poll(k)]
  /\ tierMap' = IF k = "retry" THEN Unknown ELSE tierMap
  /\ UNCHANGED <<configured, settings, hint, savedHint, emptyPolls, streak>>

-----------------------------------------------------------------------------
(* list_devices                                                            *)

\* The first tier that returns a row for the phone: rows of later tiers with
\* the same canonical serial are dropped, a tier that has none changes nothing.
TierListsPhone(c, t, ready) ==
  /\ call[c].at = "listing" /\ call[c].row = NoRow /\ t \in configured
  /\ call' = [call EXCEPT ![c].row = [tier |-> t, ready |-> ready]]
  /\ tierMap' = t /\ hint' = t
  /\ UNCHANGED <<configured, settings, savedHint, emptyPolls, streak, calls>>

\* A ready row of the Apple driver proves that it has recovered from WPD.
Demoted(row) == row.tier = "tier1" /\ row.ready

\* One empty listing is usually a miss, not an unplugged phone.
EmptyPolls(found) == IF found THEN 0 ELSE (emptyPolls + 1) % Threshold

\* The request ends with the listing, or when the row says locked or not
\* trusted; without a row the tiers are asked all the same.
ListingSuffices(k) == k.kind = "list" \/ (k.kind = "browse" /\ ~k.row.ready)

PutBefore(t) ==
  {u \in Tiers : \E i, j \in 1 .. 3 : i < j /\ DefaultOrder[i] = u /\ DefaultOrder[j] = t}

Operation(k, serial, want) ==
  LET first == ResolveBackend(serial, want)
  IN  [k EXCEPT !.at = "trying", !.row = NoRow, !.serial = serial, !.tried = {},
         !.rest = <<first>> \o FallbackChain(first, WaterfallOrder(IsIos(serial), want)),
         !.due  = IF first = want THEN Usable(serial) ELSE Usable(serial) \ PutBefore(first)]

AfterListing(c) ==
  \/ /\ ListingSuffices(call[c])
     /\ call' = [call EXCEPT ![c] = NoCall]
  \/ /\ call[c].kind # "list" /\ (call[c].row = NoRow \/ call[c].row.ready \/ call[c].kind # "browse")
     /\ \E serial \in {"udid", "pnp"} :
        \E oneShot \in IF call[c].kind = "browse" THEN {"auto"} ELSE OneShots \cup {"auto"} :
          call' = [call EXCEPT ![c] = Operation(@, serial, Effective(oneShot))]

\* "others" says that the listing named other devices.
ListingEnds(c, others) ==
  /\ call[c].at = "listing"
  /\ LET row   == call[c].row
         found == row # NoRow \/ others
         lost  == others \/ EmptyPolls(FALSE) = 0
         gone  == row = NoRow /\ lost /\ tierMap # Unknown
         keep(t) == IF gone THEN Unknown
                    ELSE IF Demoted(row) /\ t = "wpd" THEN "tier1" ELSE t
     IN  /\ tierMap' = keep(tierMap) /\ hint' = keep(hint)
         /\ savedHint' = IF found \/ gone THEN keep(hint) ELSE savedHint
         /\ emptyPolls' = EmptyPolls(found)
  /\ AfterListing(c)
  /\ UNCHANGED <<configured, settings, streak, calls>>

-----------------------------------------------------------------------------
(* _run_operation                                                          *)

Trying(c, t) == call[c].at = "trying" /\ call[c].rest # <<>> /\ t = Head(call[c].rest)

\* The tier is not configured, does not answer, or fails.
TierFails(c, t) ==
  /\ Trying(c, t)
  /\ call' = [call EXCEPT ![c].rest = Tail(@), ![c].tried = @ \cup {t}]
  /\ UNCHANGED <<configured, settings, hint, savedHint, tierMap, emptyPolls, streak, calls>>

\* The hint follows only when another tier than the preferred one served.
TierServes(c, t) ==
  /\ Trying(c, t) /\ t \in configured
  /\ tierMap' = t
  /\ IF call[c].tried # {} THEN hint' = t /\ savedHint' = t ELSE UNCHANGED <<hint, savedHint>>
  /\ streak' = IF call[c].kind \in {"retry", "reset"} THEN 0 ELSE streak
  /\ call' = [call EXCEPT ![c] = NoCall]
  /\ UNCHANGED <<configured, settings, emptyPolls, calls>>

\* Locked or not trusted: no other tier is asked.
TierIsTerminal(c, t) ==
  /\ Trying(c, t) /\ t \in configured
  /\ call' = [call EXCEPT ![c] = NoCall]
  /\ streak' = IF call[c].kind = "reset" THEN 0 ELSE streak
  /\ UNCHANGED <<configured, settings, hint, savedHint, tierMap, emptyPolls, calls>>

Exhausted(c) == call[c].at = "trying" /\ call[c].rest = <<>>

OperationFails(c) ==
  /\ Exhausted(c) /\ call[c].kind = "browse"
  /\ call' = [call EXCEPT ![c] = NoCall]
  /\ UNCHANGED <<configured, settings, hint, savedHint, tierMap, emptyPolls, streak, calls>>

\* A retry whose probes failed counts as a success when some listing has
\* meanwhile named the phone.  The last failure in a row tries once more, from
\* a tier of its own choice, and starts a new row.
RetryFails(c) ==
  /\ Exhausted(c) /\ call[c].kind \in {"retry", "reset"}
  /\ LET failures == IF tierMap # Unknown \/ call[c].kind = "reset" THEN 0 ELSE streak + 1
     IN  /\ streak' = failures % Threshold
         /\ call' = [call EXCEPT ![c] = IF failures = Threshold THEN Poll("reset") ELSE NoCall]
  /\ UNCHANGED <<configured, settings, hint, savedHint, tierMap, emptyPolls, calls>>

Requests ==
  \E c \in DeviceClients :
    \/ \E k \in {"list", "browse", "retry"} : RequestArrives(c, k)
    \/ \E t \in Tiers, ready \in BOOLEAN : TierListsPhone(c, t, ready)
    \/ \E others \in BOOLEAN : ListingEnds(c, others)
    \/ \E t \in Tiers : TierFails(c, t) \/ TierServes(c, t) \/ TierIsTerminal(c, t)
    \/ OperationFails(c) \/ RetryFails(c)

-----------------------------------------------------------------------------
(* Settings, initialize(), restart.                                        *)

SetUserTier(t) ==
  /\ t # userTier /\ Accepted /\ userTier' = t
  /\ UNCHANGED <<configured, preferTier2, hint, savedHint, tierMap, emptyPolls, streak, call>>

PreferTier2(b) ==
  /\ b # preferTier2 /\ Accepted /\ preferTier2' = b
  /\ UNCHANGED <<configured, userTier, hint, savedHint, tierMap, emptyPolls, streak, call>>

\* POST /tier2/reset.
ResetSetup ==
  /\ <<preferTier2, userTier, hint, savedHint>> # <<FALSE, "auto", Unknown, Unknown>> /\ Accepted
  /\ preferTier2' = FALSE /\ userTier' = "auto" /\ hint' = Unknown /\ savedHint' = Unknown
  /\ UNCHANGED <<configured, tierMap, emptyPolls, streak, call>>

\* initialize() finds the bridge and the helper in the background.
TierIsFound(t) ==
  /\ t \notin configured /\ configured' = configured \cup {t}
  /\ UNCHANGED <<settings, hint, savedHint, tierMap, emptyPolls, streak, call, calls>>

DeviceEngineRestarts ==
  /\ Accepted
  /\ configured' = {"tier1"} /\ preferTier2' = FALSE /\ hint' = savedHint
  /\ tierMap' = Unknown /\ emptyPolls' = 0 /\ streak' = 0
  /\ call' = [c \in DeviceClients |-> NoCall]
  /\ UNCHANGED <<userTier, savedHint>>

TierNext ==
  \/ Requests
  \/ \E t \in Tiers \cup {"auto"} : SetUserTier(t)
  \/ \E t \in Tiers : TierIsFound(t)
  \/ \E b \in BOOLEAN : PreferTier2(b)
  \/ ResetSetup \/ DeviceEngineRestarts

TierSpec == TierInit /\ [][TierNext]_tierVars

-----------------------------------------------------------------------------
(* Properties.                                                             *)

\* "The remaining tiers are always tried as fallback" (set_preferred_tier): an
\* operation that fails has asked every tier that could be used when it began,
\* whatever other requests and settings have changed since.
\* That is what the code does under an override and without a hint; a hint
\* hides the tiers that the default order puts before it, and those are excepted.
FailsAfterAllTiers ==
  \A c \in DeviceClients : Exhausted(c) => call[c].due \subseteq call[c].tried

\* "A persisted WPD preference must not keep routing at WPD" (list_devices):
\* when a listing that saw the phone ready on the Apple driver ends, neither
\* the map nor the hint, nor its file, names WPD, whatever requests that
\* overlapped it have written.
RecoveredDriverIsUsed ==
  [][\A c \in DeviceClients :
       /\ call[c].row = [tier |-> "tier1", ready |-> TRUE]
       /\ call'[c].at # "listing" /\ calls' = calls
       => "wpd" \notin {tierMap', hint', savedHint'}]_tierVars

=============================================================================
