---------------------------- MODULE SessionTasks ----------------------------
(***************************************************************************)
(* The handlers and background tasks of one transfer session, without its  *)
(* files: which task runs, which task the registries of routes.py know,    *)
(* and what pause, cancel, delete, shutdown, crash and recovery do to      *)
(* them.  TransferPipeline follows one task through its items; this module *)
(* lets several tasks of the session be alive at once.                     *)
(*                                                                         *)
(* A step is what the event loop runs between two awaits.  A task number   *)
(* also names the event that was created for the task.                     *)
(***************************************************************************)
EXTENDS Integers, FiniteSets

CONSTANTS
  Clients,     \* requests under way at once
  LastTask,    \* bound on the number of tasks
  LastRequest  \* bound on the number of requests

ASSUME SessionAssumption == LastTask \in Nat

VARIABLES
  row,       \* TransferSession.status; DELETED when there is no row
  stuck,     \* a batch is in a state that recovery looks for
  boot,      \* the engine: down, recovering, resuming or ready
  lock,      \* _session_locks[session_id]
  event,     \* _cancellation_events[session_id]
  fired,     \* events that are set
  active,    \* _active_tasks[session_id]
  request,   \* what every client's handler is doing
  requests,  \* requests received so far
  task,      \* where every task stands
  listens,   \* the event every task holds
  doomed,    \* tasks that get a CancelledError at their next step
  lapses     \* history: what happened that the registries do not protect from

sessionVars == <<row, stuck, boot, lock, event, fired, active, request,
                 requests, task, listens, doomed, lapses>>

Tasks == 1 .. LastTask
None  == 0
Locks == 1 .. Cardinality(Clients) + 1

SessionEnded == {"ENDED", "CANCELLED"}   \* ENDED: COMPLETED (WITH_ERRORS), FAILED
Rows         == {"CREATED", "RUNNING", "PAUSED", "DELETED"} \cup SessionEnded

NoRequest == [kind |-> "none", at |-> "none", lock |-> None]
Engaged   == {"scan", "between", "batch"}
Begun     == Engaged \cup {"finalize", "selfpause", "leaving"}
Alive(t)  == task[t] \in Begun \cup {"queued", "failing"}
Fresh     == {t \in Tasks : task[t] = "none" /\ \A u \in Tasks : u < t => task[u] # "none"}
Up        == boot # "down"

-----------------------------------------------------------------------------
(* Bugs the code could have; each stands in for a definition below.        *)

StopsOnEvent(t)    == row # "RUNNING" \/ listens[t] \in fired
LeavesTaskAlone(t) == UNCHANGED doomed

-----------------------------------------------------------------------------
(* The registries.                                                         *)

\* _cleanup_session_state
CleanupSessionState == event' = None /\ lock' = None

\* A task on its normal way out, and in its exception handler, does not ask
\* whose registration it removes.
PopActive == active' = None

\* A new session, or one that a crash has left in the middle of a batch.
SessionInit ==
  /\ \/ row = "CREATED" /\ stuck = FALSE /\ boot = "ready"
     \/ row = "RUNNING" /\ stuck = TRUE /\ boot = "recovering"
  /\ lock = None /\ event = None /\ fired = {} /\ active = None
  /\ request = [c \in Clients |-> NoRequest] /\ requests = 0
  /\ task = [t \in Tasks |-> "none"] /\ listens = [t \in Tasks |-> None]
  /\ doomed = {} /\ lapses = {}

\* A task is handed to the response that started it, or to the event loop.
Queue(t) == t \in Fresh /\ task' = [task EXCEPT ![t] = "queued"]

-----------------------------------------------------------------------------
(* Handlers under the session's lock: start, pause, cancel, resolve.       *)

InCharge(c) == request[c].at \in {"inside", "stored", "stopping"}
Held(l) == \E c \in Clients : request[c].lock = l /\ request[c].at \notin {"none", "waiting"}

FreeLocks == {n \in Locks : \A d \in Clients : request[d].lock # n}

\* _get_session_lock: a lock that was dropped from the dictionary lives on
\* with the handlers that still use it.
LockFor(l) == IF lock # None THEN l = lock
              ELSE l \in FreeLocks /\ \A n \in FreeLocks : l <= n

Permits(k) ==
  CASE k = "start"   -> row \in {"CREATED", "PAUSED"}
    [] k = "pause"   -> row = "RUNNING"
    [] k = "resolve" -> row = "PAUSED"
    [] k = "cancel"  -> row # "DELETED"

\* Inside, the status has been read; Commit writes it, with awaits in between.
Inside(k, l) ==
  IF Permits(k) THEN [kind |-> k, at |-> "inside", lock |-> l] ELSE NoRequest

\* A handler gets inside beside another one whose lock was dropped.
Beside(k, l) ==
  IF ~Held(l) /\ Permits(k) /\ \E d \in Clients : InCharge(d) /\ request[d].lock # l
  THEN {"split"} ELSE {}

Received == requests < LastRequest /\ requests' = requests + 1

Arrive(c, k) ==
  /\ Up /\ request[c].at = "none" /\ Received
  /\ \E l \in Locks :
       /\ LockFor(l) /\ lock' = l
       /\ request' = [request EXCEPT ![c] =
                        IF Held(l) THEN [kind |-> k, at |-> "waiting", lock |-> l]
                        ELSE Inside(k, l)]
       /\ lapses' = lapses \cup Beside(k, l)
  /\ UNCHANGED <<row, stuck, boot, event, fired, active, task, listens, doomed>>

Enter(c) ==
  /\ request[c].at = "waiting" /\ ~Held(request[c].lock)
  /\ request' = [request EXCEPT ![c] = Inside(@.kind, @.lock)]
  /\ lapses' = lapses \cup Beside(request[c].kind, request[c].lock)
  /\ UNCHANGED <<row, stuck, boot, lock, event, fired, active, requests, task,
                 listens, doomed>>

NewStatus(k) == IF k = "pause" THEN "PAUSED" ELSE IF k = "cancel" THEN "CANCELLED"
                ELSE "RUNNING"

\* Start's preflight fails, or the row was deleted since it was read.
Refuse(c) ==
  /\ request[c].at = "inside"
  /\ row \in {"CREATED", "DELETED"} /\ (row = "CREATED" => request[c].kind = "start")
  /\ request' = [request EXCEPT ![c] = NoRequest]
  /\ UNCHANGED <<requests, row, stuck, boot, lock, event, fired, active, task, listens, doomed, lapses>>

Commit(c) ==
  /\ request[c].at = "inside" /\ row # "DELETED"
  /\ row' = NewStatus(request[c].kind)
  /\ request' = [request EXCEPT ![c].at = "stored"]
  /\ UNCHANGED <<requests, stuck, boot, lock, event, fired, active, task, listens, doomed, lapses>>

SignalEvent == fired' = fired \cup ({event} \ {None})

\* A bug the code could have: cancel frees the session's state before it signals.
CancelCleansUpFirst(c) ==
  /\ request[c].at = "stored" /\ request[c].kind \in {"pause", "cancel"}
  /\ IF request[c].kind = "cancel" THEN CleanupSessionState /\ UNCHANGED fired
     ELSE SignalEvent /\ UNCHANGED <<event, lock>>
  /\ request' = [request EXCEPT ![c] = NoRequest]
  /\ UNCHANGED <<requests, row, stuck, boot, active, task, listens, doomed, lapses>>

\* cancel_session drops the lock it holds.
PauseOrCancelSignals(c) ==
  /\ request[c].at = "stored" /\ request[c].kind \in {"pause", "cancel"}
  /\ SignalEvent
  /\ lock' = IF request[c].kind = "cancel" THEN None ELSE lock
  /\ request' = [request EXCEPT ![c] = NoRequest]
  /\ UNCHANGED <<requests, row, stuck, boot, event, active, task, listens, doomed, lapses>>

CancelTask(t) == doomed' = doomed \cup {t}

\* A response on its way to the client carries a task that is not registered.
Unregistered == IF \E t \in Tasks : task[t] = "queued" THEN {"overlap"} ELSE {}

StartQueues(c, t) ==
  /\ Queue(t)
  /\ event' = t
  /\ request' = [request EXCEPT ![c] = NoRequest]
  /\ UNCHANGED <<row, stuck, boot, lock, fired, requests, listens>>

\* start_session pops and cancels the task it finds registered, and waits.
StartStopsOldTask(c) ==
  /\ request[c].at = "stored" /\ request[c].kind = "start" /\ active # None
  /\ active' = None
  /\ CancelTask(active)
  /\ request' = [request EXCEPT ![c].at = "stopping"]
  /\ lapses' = lapses \cup Unregistered
  /\ UNCHANGED <<row, stuck, boot, lock, event, fired, requests, task, listens>>

\* The old task has ended, or two seconds have passed.
StartHasWaited(c, t) ==
  /\ request[c].at = "stopping"
  /\ StartQueues(c, t)
  /\ lapses' = lapses \cup IF doomed # {} THEN {"timeout"} ELSE {}
  /\ UNCHANGED <<active, doomed>>

StartFindsNoTask(c, t) ==
  /\ request[c].at = "stored" /\ request[c].kind = "start" /\ active = None
  /\ StartQueues(c, t)
  /\ lapses' = lapses \cup Unregistered
  /\ UNCHANGED <<active, doomed>>

\* What resolve_duplicates and auto-resume do not look for.
Unlooked ==
  IF \/ \E t \in Tasks : Alive(t)
     \/ \E c \in Clients : request[c].at = "stopping"
  THEN {"overlap"} ELSE {}

\* resolve_duplicates neither looks for a task nor makes an event.
ResolveQueuesTask(c, t) ==
  /\ request[c].at = "stored" /\ request[c].kind = "resolve"
  /\ Queue(t)
  /\ lapses' = lapses \cup {"deaf"} \cup Unlooked
  /\ request' = [request EXCEPT ![c] = NoRequest]
  /\ UNCHANGED <<requests, row, stuck, boot, lock, event, fired, active, listens, doomed>>

-----------------------------------------------------------------------------
(* Deleting the session takes no lock.                                     *)

\* _is_session_delete_blocked
DeleteBlocked ==
  row = "RUNNING" \/ active # None \/ Held(lock)

\* "Any leftover entry is stale bookkeeping": or the task is still there.
Evicted == IF active # None THEN {"evicted"} ELSE {}

\* The guard of a selective delete; a session that ended loses its task's
\* registration.  Clearing everything has no guard.
DeleteChecks(c) ==
  /\ Up /\ request[c].at = "none" /\ row # "DELETED" /\ Received
  /\ \/ row \in SessionEnded /\ active' = None /\ lapses' = lapses \cup Evicted
     \/ row \notin SessionEnded /\ ~DeleteBlocked /\ UNCHANGED <<active, lapses>>
     \/ UNCHANGED <<active, lapses>>
  /\ request' = [request EXCEPT ![c] = [kind |-> "delete", at |-> "deleting", lock |-> None]]
  /\ UNCHANGED <<row, stuck, boot, lock, event, fired, task, listens, doomed>>

DeleteRows(c) ==
  /\ request[c].at = "deleting"
  /\ row' = "DELETED" /\ stuck' = FALSE
  /\ request' = [request EXCEPT ![c].at = "deleted"]
  /\ UNCHANGED <<requests, boot, lock, event, fired, active, task, listens, doomed, lapses>>

DeleteCleansUp(c) ==
  /\ request[c].at = "deleted"
  /\ CleanupSessionState
  /\ request' = [request EXCEPT ![c] = NoRequest]
  /\ UNCHANGED <<requests, row, stuck, boot, fired, active, task, listens, doomed, lapses>>

Handlers ==
  \E c \in Clients :
    \/ \E k \in {"start", "pause", "resolve", "cancel"} : Arrive(c, k)
    \/ Enter(c) \/ Refuse(c) \/ Commit(c)
    \/ PauseOrCancelSignals(c) \/ StartStopsOldTask(c)
    \/ \E t \in Tasks : StartHasWaited(c, t) \/ StartFindsNoTask(c, t) \/ ResolveQueuesTask(c, t)
    \/ DeleteChecks(c) \/ DeleteRows(c) \/ DeleteCleansUp(c)

-----------------------------------------------------------------------------
(* _run_transfer_background                                                *)

At(t, place) == task[t] = place /\ t \notin doomed
GoTo(t, p)   == task' = [task EXCEPT ![t] = p] /\ UNCHANGED <<listens, doomed>>

Over(t) ==
  /\ task' = [task EXCEPT ![t] = "over"]
  /\ listens' = [listens EXCEPT ![t] = None] /\ doomed' = doomed \ {t}

TaskRegisters(t) ==
  /\ At(t, "queued")
  /\ active' = t /\ listens' = [listens EXCEPT ![t] = event]
  /\ task' = [task EXCEPT ![t] = "scan"] /\ UNCHANGED doomed
  /\ UNCHANGED <<row, stuck, boot, lock, event, fired, request, requests, lapses>>

\* Nothing to transfer or no room: the row is FAILED and the task leaves.
ScanEnds(t) ==
  /\ At(t, "scan")
  /\ \/ GoTo(t, "between") /\ UNCHANGED row
     \/ /\ row # "DELETED"
        /\ GoTo(t, "leaving") /\ row' = "ENDED"
  /\ UNCHANGED <<stuck, boot, lock, event, fired, active, request, requests, lapses>>

MustStop(t) == row # "RUNNING"

\* The top of the loop over the batches; hop 1 marks the batch LOADING.
TakeBatch(t) ==
  /\ At(t, "between")
  /\ IF MustStop(t) THEN GoTo(t, "leaving") /\ UNCHANGED stuck
                    ELSE GoTo(t, "batch") /\ stuck' = TRUE
  /\ UNCHANGED <<row, boot, lock, event, fired, active, request, requests, lapses>>

\* A batch whose event is set is left as it stands.
BatchEnds(t) ==
  /\ At(t, "batch")
  /\ GoTo(t, "between")
  /\ stuck' = (stuck /\ listens[t] \in fired)
  /\ UNCHANGED <<row, boot, lock, event, fired, active, request, requests, lapses>>

\* Duplicates, a lost device or a full destination.
PauseItself(t) ==
  /\ \/ At(t, "batch") /\ GoTo(t, "selfpause") /\ UNCHANGED row
     \/ /\ At(t, "selfpause") /\ GoTo(t, "leaving")
        /\ row' = IF row = "DELETED" THEN row ELSE "PAUSED"
  /\ UNCHANGED <<stuck, boot, lock, event, fired, active, request, requests, lapses>>

AllBatchesTaken(t) ==
  /\ At(t, "between") /\ GoTo(t, "finalize")
  /\ UNCHANGED <<row, stuck, boot, lock, event, fired, active, request, requests, lapses>>

\* _phase_finalize: for a cancelled session it cleans up, and the task does so
\* once more when it leaves.
Finalize(t) ==
  /\ At(t, "finalize") /\ GoTo(t, "leaving")
  /\ IF row = "CANCELLED"
     THEN PopActive /\ CleanupSessionState /\ UNCHANGED row
     ELSE row' = (IF row = "DELETED" THEN row ELSE "ENDED") /\ UNCHANGED <<active, event, lock>>
  /\ UNCHANGED <<stuck, boot, fired, request, requests, lapses>>

TaskLeaves(t) ==
  /\ At(t, "leaving") /\ Over(t)
  /\ PopActive /\ CleanupSessionState
  /\ UNCHANGED <<row, stuck, boot, fired, request, requests, lapses>>

\* The exception path cleans up first and writes FAILED later.
TaskFails(t) ==
  /\ \E p \in Engaged \cup {"finalize"} : At(t, p)
  /\ GoTo(t, "failing")
  /\ PopActive /\ CleanupSessionState
  /\ UNCHANGED <<row, stuck, boot, fired, request, requests, lapses>>

FailureIsStored(t) ==
  /\ task[t] = "failing" /\ Over(t)
  /\ row' = IF row = "DELETED" THEN row ELSE "ENDED"
  /\ UNCHANGED <<stuck, boot, lock, event, fired, active, request, requests, lapses>>

\* Only the state the task still owns is released.
OwnsEvent(t) == event = listens[t]

TaskCancelled(t) ==
  /\ t \in doomed /\ task[t] \in Begun /\ Over(t)
  /\ active' = IF active = t THEN None ELSE active
  /\ IF OwnsEvent(t) THEN CleanupSessionState ELSE UNCHANGED <<event, lock>>
  /\ UNCHANGED <<row, stuck, boot, fired, request, requests, lapses>>

TaskRuns(t) ==
  \/ TaskRegisters(t) \/ ScanEnds(t) \/ TakeBatch(t) \/ BatchEnds(t)
  \/ PauseItself(t) \/ AllBatchesTaken(t) \/ Finalize(t) \/ TaskLeaves(t)
  \/ TaskFails(t) \/ FailureIsStored(t) \/ TaskCancelled(t)

-----------------------------------------------------------------------------
(* The engine process.                                                     *)

\* api_shutdown and the drain of lifespan signal the registered task.
DrainSignals ==
  /\ Up /\ active # None /\ event # None
  /\ SignalEvent
  /\ UNCHANGED <<row, stuck, boot, lock, event, active, request, requests, task, listens, doomed, lapses>>

\* The process ends, after the drain or by a crash.  Recovery finds a session
\* only by its batches.
EngineStops ==
  /\ Up /\ boot' = "down"
  /\ lock' = None /\ event' = None /\ active' = None
  /\ request' = [c \in Clients |-> NoRequest]
  /\ task' = [t \in Tasks |-> IF Alive(t) THEN "over" ELSE task[t]]
  /\ listens' = [t \in Tasks |-> None] /\ fired' = {} /\ doomed' = {}
  /\ lapses' = (lapses \cap {"forgotten"})
                \cup (IF row = "RUNNING" /\ ~stuck THEN {"forgotten"} ELSE {})
  /\ UNCHANGED <<requests, row, stuck>>

EngineBoots ==
  /\ boot = "down" /\ boot' = "recovering"
  /\ UNCHANGED <<row, stuck, lock, event, fired, active, request, requests, task, listens, doomed, lapses>>

\* Requests are served while this runs.
RecoverBatches ==
  /\ boot = "recovering"
  /\ boot' = (IF stuck THEN "resuming" ELSE "ready") /\ stuck' = FALSE
  /\ UNCHANGED <<row, lock, event, fired, active, request, requests, task, listens, doomed, lapses>>

\* Auto-resume asks neither for the status nor for a task.
AutoResume(t) ==
  /\ boot = "resuming" /\ boot' = "ready"
  /\ Queue(t)
  /\ event' = IF event = None THEN t ELSE event
  /\ lapses' = lapses \cup Unlooked
  /\ UNCHANGED <<row, stuck, lock, fired, active, request, requests, listens, doomed>>

\* POST /recovery requeues the batches of whatever task is running, resumes
\* nothing, and may leave nothing for the recovery at boot to find.
TriggerRecovery ==
  /\ Up /\ stuck /\ stuck' = FALSE
  /\ lapses' = lapses \cup (IF boot = "recovering" THEN {"forgotten"} ELSE {})
  /\ UNCHANGED <<row, boot, lock, event, fired, active, request, requests, task, listens, doomed>>

Engine ==
  \/ DrainSignals \/ EngineStops \/ EngineBoots \/ RecoverBatches \/ TriggerRecovery
  \/ \E t \in Tasks : AutoResume(t)

SessionNext == Handlers \/ Engine \/ \E t \in Tasks : TaskRuns(t)

SessionSpec == SessionInit /\ [][SessionNext]_sessionVars

-----------------------------------------------------------------------------
(* Properties.                                                             *)

\* "This prevents two tasks from running the same session concurrently"
\* (start_session): it does unless the wait timed out, a task had not begun,
\* the task was begun by resolve_duplicates or auto-resume, the registration of
\* a task was evicted, or a dropped lock let two handlers inside.
OneTaskRuns ==
  lapses \cap {"overlap", "timeout", "split", "evicted"} = {}
    => Cardinality({t \in Tasks : task[t] \in Engaged}) <= 1

\* When a pause or cancel has been answered, every task still in a batch has
\* the signal to leave it: the exit of an older task takes nothing away, also
\* when start_session gave up waiting for it.
StoppedTaskIsSignalled ==
  /\ row \in {"PAUSED", "CANCELLED"}
  /\ lapses \cap {"overlap", "deaf", "split", "evicted"} = {}
  /\ \A c \in Clients : request[c].at # "stored"
  => \A t \in Tasks \ doomed : task[t] = "batch" => listens[t] \in fired

\* A RUNNING session has a task, or a handler or the recovery is about to make
\* one, except after a crash that left the recovery nothing to find: no session
\* is stranded in a status that start_session refuses.
RunningHasTask ==
  row = "RUNNING" /\ boot = "ready" /\ "forgotten" \notin lapses
    => \/ \E t \in Tasks : Alive(t)
       \/ \E c \in Clients : request[c].at \in {"stored", "stopping"}

=============================================================================
