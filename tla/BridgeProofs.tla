---------------------------- MODULE BridgeProofs ----------------------------
(***************************************************************************)
(* The bridge inside WSL, for any number of coroutines, watchdogs,         *)
(* distributions, setup requests and phones: a watchdog that runs is the   *)
(* registered one or one that stop_bridge has let go, a bridge that was    *)
(* found reachable is watched (BridgeWatch), and the bridge is started     *)
(* where the wizard put it (TierSetup).                                    *)
(***************************************************************************)
EXTENDS BridgeWatch, TierSetup, TLAPS

-----------------------------------------------------------------------------
(* Watchdogs.                                                              *)

BridgeSteps == Stopping \cup {"none", "idle", "asleep", "watching", "probing", "preflight",
                              "polling", "checking"}

BridgeTypeOK ==
  /\ step \in [Coroutines -> BridgeSteps]
  /\ unhooked \subseteq Dogs

WatchInv == BridgeTypeOK /\ WatchdogIsRegistered

USE DEF BridgeSteps, Stopping


LEMMA InitWatches == BridgeInit => WatchInv
BY DEF BridgeInit, WatchInv, BridgeTypeOK, WatchdogIsRegistered, Watching, Coroutines

\* A coroutine that goes on to a step of its own neither begins nor ends.
LEMMA GoingOn ==
  ASSUME WatchInv, NEW t \in Coroutines, step[t] # "none", NEW s \in BridgeSteps,
         StepTo(t, s), UNCHANGED <<watchdog, unhooked>>
  PROVE  WatchInv'
BY DEF WatchInv, BridgeTypeOK, WatchdogIsRegistered, Watching, StepTo, Coroutines

\* The watchdog that is started takes the place of one that has ended.
LEMMA EnsureWatches ==
  ASSUME WatchInv, NEW t \in Coroutines, step[t] # "none",
         NEW d \in Dogs \cup {NoDog}, EnsureWatchdog(t, d), UNCHANGED unhooked
  PROVE  WatchInv'
<1>1. CASE Watching(watchdog)
  BY <1>1, GoingOn DEF EnsureWatchdog, DogIdle
<1>2. CASE ~Watching(watchdog)
  <2>1. /\ d \in Dogs /\ watchdog' = d
        /\ step' = [step EXCEPT ![t] = DogIdle(t), ![d] = "asleep"]
    BY <1>2 DEF EnsureWatchdog
  <2>2. BridgeTypeOK'
    BY <2>1 DEF WatchInv, BridgeTypeOK, DogIdle, Coroutines
  <2>3. WatchdogIsRegistered'
    BY <1>2, <2>1 DEF WatchInv, BridgeTypeOK, WatchdogIsRegistered, Watching, Coroutines
  <2> QED BY <2>2, <2>3 DEF WatchInv
<1> QED BY <1>1, <1>2

LEMMA StopWatches ==
  ASSUME WatchInv, NEW t \in Coroutines, step[t] # "none",
         NEW s \in {"killing", "clearing"}, StopBegins(t, s)
  PROVE  WatchInv'
<1>1. CASE ~Watching(watchdog)
  BY <1>1 DEF StopBegins, WatchInv, BridgeTypeOK, WatchdogIsRegistered, Watching, StepTo, Coroutines
<1>2. CASE Watching(watchdog) /\ watchdog = t
  BY <1>2 DEF StopBegins, Unhooking, WatchInv, BridgeTypeOK, WatchdogIsRegistered, Watching,
              StepTo, Coroutines
<1>3. CASE Watching(watchdog) /\ watchdog # t
  <2>1. /\ step' = [step EXCEPT ![t] = Unhooking(s), ![watchdog] = "none"]
        /\ unhooked' = unhooked \ {watchdog} /\ watchdog' = watchdog
    BY <1>3 DEF StopBegins
  <2> QED BY <1>3, <2>1 DEF Unhooking, WatchInv, BridgeTypeOK, WatchdogIsRegistered, Watching,
                            Coroutines
<1> QED BY <1>1, <1>2, <1>3

LEMMA NextWatches == WatchInv /\ [BridgeNext]_bridgeVars => WatchInv'
<1> SUFFICES ASSUME WatchInv, [BridgeNext]_bridgeVars PROVE WatchInv'
  OBVIOUS
<1>1. CASE BridgeEngineRestarts
  BY <1>1 DEF BridgeEngineRestarts, WatchInv, BridgeTypeOK, WatchdogIsRegistered, Watching,
              Coroutines
<1>2. ASSUME NEW t \in Coroutines,
             \/ StartBridge(t) \/ CannotRun(t) \/ SpawnBridge(t) \/ NotReachable(t)
             \/ BridgeExited(t) \/ CleanupBegins(t)
      PROVE  WatchInv'
  <2>1. PICK s \in BridgeSteps : StepTo(t, s) /\ step[t] # "none" /\ UNCHANGED <<watchdog, unhooked>>
    BY <1>2 DEF StartBridge, CannotRun, SpawnBridge, NotReachable, BridgeExited, CleanupBegins,
                StartFails, DogIdle
  <2> QED BY <2>1, GoingOn
<1>3. ASSUME NEW t \in Coroutines, CleanupChecks(t) PROVE WatchInv'
  BY <1>3, GoingOn, StopWatches DEF CleanupChecks
<1>4. ASSUME NEW d \in Coroutines, DogWakes(d) PROVE WatchInv'
  <2>1. CASE intentional
    BY <1>4, <2>1 DEF DogWakes, StepTo, WatchInv, BridgeTypeOK, WatchdogIsRegistered, Watching,
                      Coroutines
  <2>2. CASE ~intentional
    BY <1>4, <2>2, GoingOn DEF DogWakes
  <2> QED BY <2>1, <2>2
<1>5. ASSUME NEW d \in Coroutines, DogProbes(d) PROVE WatchInv'
  BY <1>5, GoingOn DEF DogProbes
<1>6. ASSUME NEW t \in Coroutines, BridgeServes(t) \/ BridgeDies(t) PROVE WatchInv'
  BY <1>6 DEF BridgeServes, BridgeDies, WatchInv, BridgeTypeOK, WatchdogIsRegistered, Watching
<1>7. ASSUME NEW t \in Coroutines, NEW s \in {"killing", "clearing"}, Unhook(t, s)
      PROVE  WatchInv'
  BY <1>7 DEF Unhook, Unhooking, StepTo, NoDog, WatchInv, BridgeTypeOK, WatchdogIsRegistered,
              Watching, Coroutines
<1>8. ASSUME NEW t \in Coroutines,
             KillBridge(t, "killing", "preflight") \/ KillBridge(t, "clearing", "idle")
      PROVE  WatchInv'
  BY <1>8, GoingOn DEF KillBridge
<1>9. ASSUME NEW t \in Coroutines, NEW d \in Dogs \cup {NoDog},
             ProbeBridge(t, d) \/ PollReaches(t, d)
      PROVE  WatchInv'
  BY <1>9, EnsureWatches, StopWatches DEF ProbeBridge, PollReaches, Reached
<1>10. CASE UNCHANGED bridgeVars
  BY <1>10 DEF bridgeVars, WatchInv, BridgeTypeOK, WatchdogIsRegistered, Watching
<1> QED BY <1>1, <1>2, <1>3, <1>4, <1>5, <1>6, <1>7, <1>8, <1>9, <1>10 DEF BridgeNext

\* "Start watchdog if not already running": whatever starts, stops and crashes
\* overlap, no watchdog runs beside the registered one but those stop_bridge
\* has let go.
THEOREM WatchdogsAreRegistered == BridgeSpec => []WatchdogIsRegistered
<1>1. WatchInv => WatchdogIsRegistered
  BY DEF WatchInv
<1> QED BY InitWatches, NextWatches, <1>1, PTL DEF BridgeSpec

-----------------------------------------------------------------------------
(* A bridge that was found reachable is watched.                           *)

\* WatchedInv: reachable or not.  A report stands until somebody has killed the
\* bridge, so the marks that a stop leaves at once, the flag and the ended
\* watchdog, are covered by the stop itself until then.
BeingStopped == \E t \in Coroutines : step[t] \in Stopping
WatchedInv   == reported => BeingStopped \/ (~intentional /\ \E d \in Dogs : Watching(d))

LEMMA InitIsWatched == BridgeInit => WatchedInv
BY DEF BridgeInit, WatchedInv

\* Whoever goes on, from or to a step that is no stopping, leaves the stops and
\* the watchdogs that there are.
LEMMA GoingOnWatched ==
  ASSUME BridgeTypeOK, WatchedInv, NEW t \in Coroutines, step[t] \notin Stopping \cup {"none"},
         NEW s \in BridgeSteps \ {"none"}, StepTo(t, s), UNCHANGED intentional,
         reported' => reported
  PROVE  WatchedInv'
<1>1. \A u \in Coroutines : step[u] \in Stopping => step'[u] \in Stopping
  BY DEF BridgeTypeOK, StepTo
<1>2. \A d \in Dogs : Watching(d) => Watching(d)'
  BY DEF BridgeTypeOK, StepTo, Watching, Coroutines
<1> QED BY <1>1, <1>2 DEF WatchedInv, BeingStopped

LEMMA StopIsWatched ==
  ASSUME BridgeTypeOK, NEW t \in Coroutines, step[t] # "none",
         NEW s \in {"killing", "clearing"}, StopBegins(t, s)
  PROVE  WatchedInv'
<1>1. step'[t] \in Stopping
  BY DEF StopBegins, Unhooking, StepTo, BridgeTypeOK
<1> QED BY <1>1 DEF WatchedInv, BeingStopped

LEMMA ReachedIsWatched ==
  ASSUME BridgeTypeOK, NEW t \in Coroutines, step[t] # "none",
         NEW d \in Dogs \cup {NoDog}, Reached(t, d)
  PROVE  WatchedInv'
<1>1. ~intentional'
  BY DEF Reached, NoLongerIntentional
<1>2. \E e \in Dogs : Watching(e)'
  <2>1. CASE Watching(watchdog)
    BY <2>1 DEF Reached, EnsureWatchdog, StepTo, DogIdle, Watching, BridgeTypeOK, Coroutines
  <2>2. CASE ~Watching(watchdog)
    BY <2>2 DEF Reached, EnsureWatchdog, DogIdle, Watching, BridgeTypeOK, Coroutines
  <2> QED BY <2>1, <2>2
<1> QED BY <1>1, <1>2 DEF WatchedInv

LEMMA NextIsWatched == BridgeTypeOK /\ WatchedInv /\ [BridgeNext]_bridgeVars => WatchedInv'
<1> SUFFICES ASSUME BridgeTypeOK, WatchedInv, [BridgeNext]_bridgeVars PROVE WatchedInv'
  OBVIOUS
<1>1. CASE BridgeEngineRestarts
  BY <1>1 DEF BridgeEngineRestarts, WatchedInv
<1>2. ASSUME NEW t \in Coroutines,
             \/ StartBridge(t) \/ CannotRun(t) \/ SpawnBridge(t) \/ NotReachable(t)
             \/ BridgeExited(t) \/ CleanupBegins(t) \/ DogProbes(t)
      PROVE  WatchedInv'
  <2>1. PICK s \in BridgeSteps \ {"none"} :
          /\ StepTo(t, s) /\ step[t] \notin Stopping \cup {"none"}
          /\ UNCHANGED <<intentional, reported>>
    BY <1>2 DEF StartBridge, CannotRun, SpawnBridge, NotReachable, BridgeExited, CleanupBegins,
                DogProbes, StartFails, DogIdle
  <2> QED BY <2>1, GoingOnWatched
<1>3. ASSUME NEW t \in Coroutines, CleanupChecks(t) PROVE WatchedInv'
  <2>1. CASE Reachable
    <3>1. StepTo(t, "idle") /\ step[t] = "checking" /\ UNCHANGED <<intentional, reported>>
      BY <1>3, <2>1 DEF CleanupChecks
    <3> QED BY <3>1, GoingOnWatched
  <2>2. CASE ~Reachable
    BY <1>3, <2>2, StopIsWatched DEF CleanupChecks
  <2> QED BY <2>1, <2>2
<1>4. ASSUME NEW d \in Coroutines, DogWakes(d) PROVE WatchedInv'
  <2>1. CASE intentional
    \* The bridge it leaves is being stopped, or nobody reports it.
    <3>1. \A t \in Coroutines : step[t] \in Stopping => step'[t] \in Stopping
      BY <1>4, <2>1 DEF DogWakes, StepTo, BridgeTypeOK
    <3> QED BY <1>4, <2>1, <3>1 DEF DogWakes, WatchedInv, BeingStopped
  <2>2. CASE ~intentional
    BY <1>4, <2>2, GoingOnWatched DEF DogWakes
  <2> QED BY <2>1, <2>2
<1>5. ASSUME NEW t \in Coroutines, BridgeServes(t) \/ BridgeDies(t) PROVE WatchedInv'
  BY <1>5 DEF BridgeServes, BridgeDies, WatchedInv, BeingStopped, Watching
<1>6. ASSUME NEW t \in Coroutines, NEW s \in {"killing", "clearing"}, Unhook(t, s)
      PROVE  WatchedInv'
  <2>1. step'[t] \in Stopping
    BY <1>6 DEF Unhook, StepTo, BridgeTypeOK
  <2> QED BY <2>1 DEF WatchedInv, BeingStopped
<1>7. ASSUME NEW t \in Coroutines,
             KillBridge(t, "killing", "preflight") \/ KillBridge(t, "clearing", "idle")
      PROVE  WatchedInv'
  BY <1>7 DEF KillBridge, WatchedInv
<1>8. ASSUME NEW t \in Coroutines, NEW d \in Dogs \cup {NoDog},
             ProbeBridge(t, d) \/ PollReaches(t, d)
      PROVE  WatchedInv'
  BY <1>8, ReachedIsWatched, StopIsWatched DEF ProbeBridge, PollReaches
<1>9. CASE UNCHANGED bridgeVars
  BY <1>9 DEF bridgeVars, WatchedInv, BeingStopped, Watching
<1> QED BY <1>1, <1>2, <1>3, <1>4, <1>5, <1>6, <1>7, <1>8, <1>9 DEF BridgeNext

\* A bridge that a start has found reachable has a watchdog that does not take
\* it for stopped, until somebody who is about to kill it says otherwise; even
\* when it is not reachable just now.
THEOREM BridgeIsWatchedAlways == BridgeSpec => []BridgeIsWatched
<1>1. WatchInv => BridgeTypeOK
  BY DEF WatchInv
<1>2. WatchedInv => BridgeIsWatched
  BY DEF WatchedInv, BridgeIsWatched, BeingStopped
<1> QED BY InitWatches, NextWatches, InitIsWatched, NextIsWatched, <1>1, <1>2, PTL DEF BridgeSpec

-----------------------------------------------------------------------------
(* The distribution.                                                       *)

SetupStates == [at : {"idle", "preparing", "deployed"}, with : Distros \cup {NoDistro}]

SetupTypeOK ==
  /\ registered \subseteq Distros /\ toolsIn \subseteq Distros /\ spoilt \subseteq Distros
  /\ savedDistro \in Distros \cup {NoDistro} /\ foundDistro \in Distros \cup {NoDistro}
  /\ setup \in [Setups -> SetupStates]
  /\ \A r \in Setups : setup[r].at # "idle" => setup[r].with # NoDistro

\* A distribution that has the script, or should have it.
Prepared == toolsIn \cup spoilt

\* The name that is saved, or is about to be, is that of one.
SavedInv ==
  /\ savedDistro # NoDistro => savedDistro \in Prepared
  /\ \A r \in Setups : setup[r].at = "deployed" => setup[r].with \in Prepared

SetupInv == SetupTypeOK /\ SavedInv

LEMMA NoSetupIsIdle == NoSetup \in SetupStates /\ NoSetup.at = "idle"
BY DEF NoSetup, SetupStates

LEMMA InitSets == SetupInit => SetupInv
BY NoSetupIsIdle DEF SetupInit, SetupInv, SetupTypeOK, SavedInv

\* The resolver finds a distribution, if anything.
LEMMA ResolvesToDistro ==
  ASSUME SetupTypeOK
  PROVE  WslDistros \subseteq Distros
<1>1. ASSUME NEW R \in SUBSET Distros, NEW name \in Distros \cup {NoDistro}
      PROVE  ResolveDistro(R, name) \in Distros \cup {NoDistro}
  BY <1>1 DEF ResolveDistro
<1> QED BY <1>1 DEF WslDistros, SetupTypeOK

\* No request makes a prepared distribution an unprepared one.
LEMMA PreparedStays ==
  ASSUME SetupInv, NEW r \in Setups, NEW q \in SetupStates, setup' = [setup EXCEPT ![r] = q],
         Prepared \subseteq Prepared', Prepared' \subseteq Distros, registered' \subseteq Distros,
         toolsIn' \subseteq Distros, spoilt' \subseteq Distros,
         q.at = "deployed" => q.with \in Prepared', q.at # "idle" => q.with # NoDistro,
         foundDistro' \in Distros \cup {NoDistro},
         savedDistro' \in {savedDistro, NoDistro} \cup Prepared
  PROVE  SetupInv'
<1>1. setup' \in [Setups -> SetupStates] /\ setup'[r] = q /\ \A t \in Setups \ {r} : setup'[t] = setup[t]
  BY DEF SetupInv, SetupTypeOK
<1>2. SetupTypeOK'
  BY <1>1 DEF SetupInv, SetupTypeOK, Prepared
<1>3. SavedInv'
  BY <1>1 DEF SetupInv, SavedInv
<1> QED BY <1>2, <1>3 DEF SetupInv

LEMMA NextSets == SetupInv /\ [SetupNext]_setupVars => SetupInv'
<1> SUFFICES ASSUME SetupInv, [SetupNext]_setupVars PROVE SetupInv'
  OBVIOUS
<1>t. SetupTypeOK /\ SavedInv /\ Prepared \subseteq Distros
  BY DEF SetupInv, SetupTypeOK, Prepared
<1>1. ASSUME registered' \subseteq Distros, Prepared \subseteq Prepared', toolsIn' \subseteq Distros,
             spoilt' \subseteq Distros, UNCHANGED <<savedDistro, foundDistro, setup>>
      PROVE  SetupInv'
  BY <1>1, <1>t DEF SetupInv, SetupTypeOK, SavedInv
<1>2. CASE InstallDistro
  BY <1>1, <1>2, <1>t, DistrosAssumption DEF InstallDistro, SetupTypeOK, Prepared
<1>3. ASSUME NEW d \in Distros, UserInstalls(d) \/ UserUnregisters(d) PROVE SetupInv'
  <2>1. registered' \subseteq Distros /\ toolsIn' \subseteq Distros /\ spoilt' \subseteq Distros
    BY <1>3, <1>t DEF UserInstalls, UserUnregisters, SetupTypeOK
  <2>2. Prepared \subseteq Prepared' /\ UNCHANGED <<savedDistro, foundDistro, setup>>
    BY <1>3 DEF UserInstalls, UserUnregisters, Prepared
  <2> QED BY <1>1, <2>1, <2>2
<1>4. ASSUME NEW r \in Setups, ProvisionBegins(r) PROVE SetupInv'
  <2> DEFINE q == [at |-> "preparing", with |-> foundDistro']
  <2>1. foundDistro' \in Distros
    BY <1>4, <1>t, ResolvesToDistro DEF ProvisionBegins, SetupTypeOK
  <2>2. q \in SetupStates /\ q.at = "preparing" /\ q.with # NoDistro /\ setup' = [setup EXCEPT ![r] = q]
    BY <1>4, <2>1, DistrosAssumption DEF NoDistro, ProvisionBegins, SetupStates
  <2>3. UNCHANGED <<registered, savedDistro, toolsIn, spoilt>>
    BY <1>4 DEF ProvisionBegins
  <2> HIDE DEF q
  <2> QED BY <1>t, <2>1, <2>2, <2>3, PreparedStays DEF SetupTypeOK, Prepared
<1>5. ASSUME NEW r \in Setups, ProvisionFails(r) \/ ProvisionSaves(r) \/ ProvisionCannotSave(r)
      PROVE  SetupInv'
  <2>1. setup' = [setup EXCEPT ![r] = NoSetup] /\ UNCHANGED <<registered, foundDistro, toolsIn, spoilt>>
    BY <1>5 DEF ProvisionFails, ProvisionSaves, ProvisionCannotSave
  <2>2. savedDistro' \in {savedDistro, NoDistro} \cup Prepared
    BY <1>5, <1>t DEF ProvisionFails, ProvisionSaves, ProvisionCannotSave, NameToSave, SavedInv
  <2> QED BY <1>t, <2>1, <2>2, NoSetupIsIdle, PreparedStays DEF SetupTypeOK, Prepared
<1>6. ASSUME NEW r \in Setups, NEW ok \in BOOLEAN, ProvisionDeploys(r, ok) PROVE SetupInv'
  <2> DEFINE q == [setup[r] EXCEPT !.at = "deployed"]
  <2>1. q \in SetupStates /\ q.with = setup[r].with /\ setup' = [setup EXCEPT ![r] = q]
    BY <1>6, <1>t DEF ProvisionDeploys, SetupTypeOK, SetupStates
  <2> HIDE DEF q
  <2>2. PICK d \in Distros \cup {NoDistro} :
          /\ d = q.with /\ (ok => d \in registered)
          /\ toolsIn' = (IF ok THEN toolsIn \cup {d} ELSE toolsIn)
          /\ spoilt' = (IF ok THEN spoilt \ {d} ELSE spoilt \cup ({d} \ toolsIn))
    BY <1>6, <2>1 DEF ProvisionDeploys, SetupStates
  <2>3. Prepared' = Prepared \cup {d}
    BY <2>2 DEF Prepared
  <2>4. UNCHANGED <<registered, savedDistro, foundDistro>>
    BY <1>6 DEF ProvisionDeploys
  <2>5. d # NoDistro
    BY <1>6, <1>t, <2>1, <2>2 DEF ProvisionDeploys, SetupTypeOK
  <2> QED BY <1>t, <2>1, <2>2, <2>3, <2>4, <2>5, PreparedStays DEF SetupTypeOK
<1>7. CASE SetupRestarts
  <2>1. setup' = [r \in Setups |-> NoSetup] /\ foundDistro' = NoDistro
        /\ savedDistro' \in {savedDistro, NoDistro} /\ UNCHANGED <<registered, toolsIn, spoilt>>
    BY <1>7 DEF SetupRestarts
  <2> QED BY <1>t, <2>1, NoSetupIsIdle DEF SetupInv, SetupTypeOK, SavedInv, Prepared
<1>8. CASE UNCHANGED distroVars \/ UNCHANGED setupVars
  BY <1>1, <1>8, <1>t DEF distroVars, setupVars, SetupTypeOK, Prepared
<1>9. ASSUME NEW p \in Phones,
             \/ Plugged(p, "absent", "not shared") \/ Plugged(p, "not shared", "shared")
             \/ Plugged(p, "shared", "absent") \/ Plugged(p, "attached", "absent")
             \/ HandleAppleDevice(p) \/ \E ok \in BOOLEAN : RecoveryAttaches(p, ok)
      PROVE  UNCHANGED distroVars
  BY <1>9 DEF Plugged, HandleAppleDevice, RecoveryAttaches
<1>10. RecoveryBegins => UNCHANGED distroVars
  BY DEF RecoveryBegins
<1> QED BY <1>2, <1>3, <1>4, <1>5, <1>6, <1>7, <1>8, <1>9, <1>10 DEF SetupNext

\* A name is remembered only of a distribution that the wizard has prepared
\* before, and the bridge is started there, whatever else is installed, whoever
\* sets up, and wherever the engine stops; unless the user removed it, or the
\* copy of the script failed.
THEOREM BridgeIsWherePrepared == SetupSpec => []StartsWherePrepared
<1>1. SetupInv => StartsWherePrepared
  BY DEF SetupInv, SavedInv, Prepared, StartsWherePrepared, ResolveDistro
<1> QED BY InitSets, NextSets, <1>1, PTL DEF SetupSpec

=============================================================================
