----------------------------- MODULE BridgeWatch -----------------------------
(***************************************************************************)
(* The bridge process inside WSL that serves an iPhone (Tier 2), and the   *)
(* coroutines of WSLOrchestrator that start it, stop it and watch it       *)
(* (wsl_orchestrator.py).  The wizard, the device manager's initialize()   *)
(* and the watchdog all call start_bridge(); no lock keeps them apart.     *)
(*                                                                         *)
(* A step runs from one await to the next.                                 *)
(***************************************************************************)
EXTENDS Integers, FiniteSets

CONSTANTS
  Starters,  \* requests and boot coroutines that start or clean up the bridge
  Dogs,      \* numbers of watchdog tasks
  MaxStarts  \* _bridge_restart_count at which start_bridge gives up

ASSUME DogsAssumption == Dogs \subseteq Nat \ {0}

VARIABLES
  proc,         \* the bridge process that every coroutine last spawned
  step,         \* where every coroutine is
  misses,       \* failed probes in a row of every watchdog
  watchdog,     \* _bridge_watchdog_task; 0 is None
  intentional,  \* _bridge_intentional_stop
  restarts,     \* _bridge_restart_count
  reported,     \* history: a start found the bridge reachable, no stop since
  unhooked      \* history: live watchdogs that stop_bridge has unregistered

bridgeVars == <<proc, step, misses, watchdog, intentional, restarts,
                reported, unhooked>>

Coroutines == Starters \cup Dogs
NoDog      == 0
Reachable  == \E t \in Coroutines : proc[t] = "reachable"
Watching(d) == d \in Dogs /\ step[d] # "none"
Stopping    == {"killing", "clearing", "unhooking", "unhooking to clear"}
DogIdle(t)  == IF t \in Dogs THEN "asleep" ELSE "idle"

-----------------------------------------------------------------------------
(* Bugs the code could have; each stands in for a definition below.        *)

AlwaysANewDog(t, d) ==
  /\ d \in Dogs /\ ~Watching(d) /\ \A e \in Dogs : ~Watching(e) => d <= e
  /\ watchdog' = d /\ step' = [step EXCEPT ![t] = DogIdle(t), ![d] = "asleep"]
  /\ misses' = [misses EXCEPT ![d] = 0]
StillIntentional     == UNCHANGED intentional

-----------------------------------------------------------------------------

BridgeInit ==
  /\ proc = [t \in Coroutines |-> "none"]
  /\ step = [t \in Coroutines |-> IF t \in Dogs THEN "none" ELSE "idle"]
  /\ misses = [d \in Dogs |-> 0] /\ watchdog = NoDog
  /\ intentional = FALSE /\ restarts = 0
  /\ reported = FALSE /\ unhooked = {}

StepTo(t, s) == step' = [step EXCEPT ![t] = s]

\* "Start watchdog if not already running": d is its number, or NoDog.
EnsureWatchdog(t, d) ==
  IF Watching(watchdog)
  THEN d = NoDog /\ StepTo(t, DogIdle(t)) /\ UNCHANGED <<watchdog, misses>>
  ELSE /\ d \in Dogs /\ ~Watching(d) /\ \A e \in Dogs : ~Watching(e) => d <= e
       /\ watchdog' = d /\ step' = [step EXCEPT ![t] = DogIdle(t), ![d] = "asleep"]
       /\ misses' = [misses EXCEPT ![d] = 0]

NoLongerIntentional == intentional' = FALSE

Reached(t, d) ==
  /\ EnsureWatchdog(t, d) /\ NoLongerIntentional
  /\ restarts' = 0 /\ reported' = TRUE
  /\ UNCHANGED <<proc, unhooked>>

-----------------------------------------------------------------------------
(* start_bridge                                                            *)

\* "Bridge failed to start after 3 attempts": nothing but a reachable bridge,
\* the watchdog or a restart of the engine takes the count back.
StartBridge(t) ==
  /\ t \in Starters /\ step[t] = "idle" /\ restarts < MaxStarts
  /\ StepTo(t, "probing")
  /\ UNCHANGED <<proc, misses, watchdog, intentional, restarts, reported, unhooked>>

Unhooking(next) == IF next = "killing" THEN "unhooking" ELSE "unhooking to clear"

\* stop_bridge up to its first await.  The watchdog of somebody else ends where
\* it stands.  A watchdog that restarts the bridge cancels itself, and the
\* CancelledError it then gets is the one stop_bridge expects and drops.
StopBegins(t, next) ==
  /\ intentional' = TRUE
  /\ IF ~Watching(watchdog) THEN StepTo(t, next)
     ELSE IF watchdog = t THEN StepTo(t, Unhooking(next))
     ELSE step' = [step EXCEPT ![t] = Unhooking(next), ![watchdog] = "none"]
  /\ misses' = [d \in Dogs |-> IF d = watchdog THEN 0 ELSE misses[d]]
  /\ unhooked' = unhooked \ ({watchdog} \ {t})
  /\ UNCHANGED <<proc, watchdog, restarts, reported>>

ProbeBridge(t, d) ==
  /\ step[t] = "probing"
  /\ IF Reachable THEN Reached(t, d) ELSE d = NoDog /\ StopBegins(t, "killing")

\* stop_bridge sets the task to None, a newer one as well.
Unhook(t, next) ==
  /\ step[t] = Unhooking(next) /\ StepTo(t, next)
  /\ watchdog' = NoDog
  /\ unhooked' = unhooked \cup (IF Watching(watchdog) THEN {watchdog} ELSE {})
  /\ UNCHANGED <<proc, misses, intentional, restarts, reported>>

\* pkill ends every bridge, whoever spawned it; when wsl.exe fails, none.
KillBridge(t, from, next) ==
  /\ step[t] = from /\ StepTo(t, next)
  /\ proc' \in {proc, [u \in Coroutines |-> "none"]}
  /\ reported' = FALSE
  /\ UNCHANGED <<misses, watchdog, intentional, restarts, unhooked>>

\* No service, no Python or no packages in the distribution: not counted.
CannotRun(t) ==
  /\ step[t] = "preflight" /\ StepTo(t, DogIdle(t))
  /\ UNCHANGED <<proc, misses, watchdog, intentional, restarts, reported, unhooked>>

SpawnBridge(t) ==
  /\ step[t] = "preflight" /\ StepTo(t, "polling")
  /\ proc' = [proc EXCEPT ![t] = "starting"]
  /\ UNCHANGED <<misses, watchdog, intentional, restarts, reported, unhooked>>

StartFails(t) ==
  /\ StepTo(t, DogIdle(t))
  /\ UNCHANGED <<proc, misses, watchdog, intentional, reported, unhooked>>

\* The spawn raised, or the bridge is not reachable after 60 seconds; then it
\* goes on running.
NotReachable(t) ==
  /\ step[t] = "preflight" \/ (step[t] = "polling" /\ proc[t] = "starting")
  /\ restarts' = restarts + 1 /\ StartFails(t)

\* The process exited, or another start killed it.  It is counted where the
\* exit is seen and again behind the loop, where status.error is still unset.
CountedTwice(t) == restarts' = restarts + 2
BridgeExited(t) == step[t] = "polling" /\ proc[t] = "none" /\ CountedTwice(t) /\ StartFails(t)

PollReaches(t, d) == step[t] = "polling" /\ proc[t] # "none" /\ Reachable /\ Reached(t, d)

-----------------------------------------------------------------------------
(* cleanup_orphaned_bridge: at boot, and for POST cancel and reset, which  *)
(* leave a reachable bridge alone.                                         *)

CleanupBegins(t) ==
  /\ t \in Starters /\ step[t] = "idle" /\ StepTo(t, "checking")
  /\ UNCHANGED <<proc, misses, watchdog, intentional, restarts, reported, unhooked>>

CleanupChecks(t) ==
  /\ step[t] = "checking"
  /\ IF Reachable
     THEN StepTo(t, "idle") /\ UNCHANGED <<proc, misses, watchdog, intentional,
                                         restarts, reported, unhooked>>
     ELSE StopBegins(t, "clearing")

-----------------------------------------------------------------------------
(* _bridge_watchdog_loop                                                   *)

DogWakes(d) ==
  /\ d \in Dogs /\ step[d] = "asleep"
  /\ IF intentional THEN /\ StepTo(d, "none") /\ unhooked' = unhooked \ {d}
                         /\ misses' = [misses EXCEPT ![d] = 0]
                    ELSE StepTo(d, "watching") /\ UNCHANGED <<misses, unhooked>>
  /\ UNCHANGED <<proc, watchdog, intentional, restarts, reported>>

\* Two probes in a row have failed: the count starts afresh and so does the
\* bridge.
DogProbes(d) ==
  /\ d \in Dogs /\ step[d] = "watching"
  /\ IF Reachable \/ misses[d] = 0
     THEN /\ misses' = [misses EXCEPT ![d] = IF Reachable THEN 0 ELSE 1]
          /\ StepTo(d, "asleep") /\ UNCHANGED restarts
     ELSE /\ misses' = [misses EXCEPT ![d] = 0] /\ StepTo(d, "probing")
          /\ restarts' = 0
  /\ UNCHANGED <<proc, watchdog, intentional, reported, unhooked>>

-----------------------------------------------------------------------------
(* The process itself, and the engine.                                     *)

\* The port is bound by one process; the next one exits.
BridgeServes(t) ==
  /\ proc[t] = "starting"
  /\ proc' = [proc EXCEPT ![t] = IF Reachable THEN "none" ELSE "reachable"]
  /\ UNCHANGED <<step, misses, watchdog, intentional, restarts, reported, unhooked>>

BridgeDies(t) ==
  /\ proc[t] # "none" /\ proc' = [proc EXCEPT ![t] = "none"]
  /\ UNCHANGED <<step, misses, watchdog, intentional, restarts, reported, unhooked>>

\* A bridge outlives the engine that started it.
BridgeEngineRestarts ==
  /\ step' = [t \in Coroutines |-> IF t \in Dogs THEN "none" ELSE "idle"]
  /\ misses' = [d \in Dogs |-> 0] /\ watchdog' = NoDog
  /\ intentional' = FALSE /\ restarts' = 0
  /\ reported' = FALSE /\ unhooked' = {}
  /\ UNCHANGED proc

BridgeNext ==
  \/ BridgeEngineRestarts
  \/ \E t \in Coroutines :
       \/ StartBridge(t) \/ CannotRun(t) \/ SpawnBridge(t) \/ NotReachable(t)
       \/ BridgeExited(t) \/ CleanupBegins(t) \/ CleanupChecks(t)
       \/ DogWakes(t) \/ DogProbes(t) \/ BridgeServes(t) \/ BridgeDies(t)
       \/ Unhook(t, "killing") \/ Unhook(t, "clearing")
       \/ KillBridge(t, "killing", "preflight") \/ KillBridge(t, "clearing", "idle")
       \/ \E d \in Dogs \cup {NoDog} : ProbeBridge(t, d) \/ PollReaches(t, d)

BridgeSpec == BridgeInit /\ [][BridgeNext]_bridgeVars

-----------------------------------------------------------------------------
(* Properties.                                                             *)

\* "Start watchdog if not already running": the only watchdogs that run beside
\* the registered one are those that stop_bridge has let go.
WatchdogIsRegistered == \A d \in Dogs : Watching(d) => d = watchdog \/ d \in unhooked

\* A bridge that a start found reachable is watched by a task that does not
\* take it for stopped, unless somebody is about to kill it.
BridgeIsWatched ==
  reported /\ Reachable =>
    \/ ~intentional /\ \E d \in Dogs : Watching(d)
    \/ \E t \in Coroutines : step[t] \in Stopping

=============================================================================
