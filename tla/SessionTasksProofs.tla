-------------------------- MODULE SessionTasksProofs --------------------------
(*****************************************************************************)
(* For any number of clients and of tasks, and any number of crashes: how the *)
(* handlers of a session, its background tasks and recovery share the row, the *)
(* registration, the event and the lock (SessionTasks).  SessionInv is the   *)
(* inductive invariant, one conjunct per piece of state; three theorems follow *)
(* from it: no two tasks run, a stop reaches the task, nothing is stranded.  *)
(*****************************************************************************)
EXTENDS SessionTasks, FiniteSetTheorems, TLAPS

-----------------------------------------------------------------------------

RequestStates ==
  [kind : {"none", "start", "pause", "resolve", "cancel", "delete"},
   at : {"none", "waiting", "inside", "stored", "stopping", "deleting", "deleted"},
   lock : Locks \cup {None}]

SessionTypeOK ==
  /\ request \in [Clients -> RequestStates]
  /\ task \in [Tasks -> Begun \cup {"none", "queued", "failing", "over"}]
  /\ listens \in [Tasks -> Tasks \cup {None}]
  /\ doomed \subseteq Tasks
  /\ active \in Tasks \cup {None} /\ event \in Tasks \cup {None} /\ lock \in Locks \cup {None}

\* A registered task has begun and nobody has told it to go; a task that was
\* told to go has begun.  A request stands where its kind can be.
BookInv ==
  /\ active # None => task[active] \in Begun /\ active \notin doomed
  /\ \A t \in doomed : task[t] \in Begun
  /\ \A c \in Clients :
       /\ request[c].at = "stopping" => request[c].kind = "start"
       /\ InCharge(c) \/ request[c].at = "waiting" => request[c].kind \in {"start", "pause", "resolve", "cancel"}
       /\ request[c].at = "deleted" => row = "DELETED"

\* Handlers that make a task, or a pause.
Maker(c) == InCharge(c) /\ request[c].kind # "cancel"

\* As long as no lock was dropped under a handler, it is alone inside, and no
\* other handler cancels the session.
ChargeInv ==
  "split" \notin lapses =>
    /\ \A c, d \in Clients : InCharge(c) /\ InCharge(d) => c = d
    /\ \A c \in Clients : Maker(c) => row # "CANCELLED"

Guarded    == lapses \cap {"overlap", "split", "evicted"} = {}
Halting    == \E c \in Clients : request[c].at = "stopping"
Unbound(t) == task[t] \in Begun /\ t \notin doomed /\ active # t

\* A task that goes on without its registration is about to leave a session
\* that has ended, and has it for itself.  While a task is queued, or a start
\* waits for an old one, none is registered, and only one is queued.
RegistryInv ==
  Guarded =>
    /\ \A t \in Tasks : Unbound(t) =>
         /\ task[t] = "leaving" /\ row \in SessionEnded \cup {"DELETED"}
         /\ \A c \in Clients : ~Maker(c)
         /\ \A u \in Tasks : task[u] # "queued"
         /\ \A u \in Tasks \ doomed : task[u] \in Begun => u = t
    /\ \A t \in Tasks : task[t] = "queued" =>
         /\ active = None /\ ~Halting
         /\ \A u \in Tasks : task[u] = "queued" => u = t
    /\ Halting => active = None

\* Unless the wait timed out, a task that was told to go has gone before the
\* start that told it goes on.
DoomInv ==
  Guarded /\ "timeout" \notin lapses =>
    /\ doomed # {} => Halting
    /\ \A t, u \in doomed : t = u

\* An event, once made, is that of a task; only a task that resolve_duplicates
\* began, or one whose session is deleted, has none.  The registered task listens
\* to the session's event, and no task that was told to go does.
HearInv ==
  /\ event # None => task[event] # "none"
  /\ \A t \in Tasks : listens[t] # None => task[listens[t]] # "none"
  /\ Guarded /\ "deaf" \notin lapses /\ row # "DELETED" =>
       /\ \A t \in Tasks : task[t] = "queued" => event # None
       /\ active # None => listens[active] = event /\ event # None
       /\ \A t \in doomed : listens[t] # None /\ (~Halting => listens[t] # event)

\* Who stops the session has signalled the task in a batch, or is about to.
SignalInv ==
  Guarded /\ "deaf" \notin lapses /\ row \in {"PAUSED", "CANCELLED"} =>
    \A t \in Tasks \ doomed : task[t] = "batch" =>
      \/ listens[t] \in fired
      \/ \E c \in Clients : request[c].at = "stored" /\ request[c].kind \in {"pause", "cancel"}

\* What makes a RUNNING session go on: a task that does not leave, a handler that
\* will make one, or the recovery.
Carries(t) == t \notin doomed /\ task[t] \in {"queued", "failing"} \cup (Begun \ {"leaving"})
Makes(c)   == request[c].at \in {"stored", "stopping"} /\ request[c].kind \in {"start", "resolve"}

CarryInv ==
  row = "RUNNING" /\ "forgotten" \notin lapses =>
    \/ \E t \in Tasks : Carries(t)
    \/ \E c \in Clients : Makes(c)
    \/ boot \in {"down", "recovering"} /\ stuck
    \/ boot = "resuming"

-----------------------------------------------------------------------------

USE SessionAssumption DEF Begun, Engaged

\* No task is called None.
LEMMA NoTaskIsNone == None \notin Tasks /\ Tasks \subseteq Nat
BY DEF Tasks, None

\* The states are of their types.
LEMMA InitTypeOK == SessionInit => SessionTypeOK
BY DEF SessionInit, SessionTypeOK, RequestStates, NoRequest

\* Every step keeps the types.
LEMMA NextTypeOK == SessionTypeOK /\ [SessionNext]_sessionVars => SessionTypeOK'
<1> SUFFICES ASSUME SessionTypeOK, [SessionNext]_sessionVars PROVE SessionTypeOK'
  OBVIOUS
<1> USE DEF SessionTypeOK
<1>0. NoRequest \in RequestStates
  BY DEF NoRequest, RequestStates
<1>1. ASSUME NEW c \in Clients, NEW k \in {"start", "pause", "resolve", "cancel"}, Arrive(c, k)
      PROVE  SessionTypeOK'
  BY <1>1, <1>0 DEF Arrive, Inside, RequestStates
<1>2. ASSUME NEW c \in Clients, Enter(c) \/ Refuse(c) \/ Commit(c) \/ PauseOrCancelSignals(c)
      PROVE  SessionTypeOK'
  BY <1>2, <1>0 DEF Enter, Refuse, Commit, PauseOrCancelSignals, Inside, RequestStates
<1>3. ASSUME NEW c \in Clients, StartStopsOldTask(c) PROVE SessionTypeOK'
  BY <1>3 DEF StartStopsOldTask, CancelTask, RequestStates
<1>4. ASSUME NEW c \in Clients, NEW t \in Tasks,
             StartHasWaited(c, t) \/ StartFindsNoTask(c, t) \/ ResolveQueuesTask(c, t)
      PROVE  SessionTypeOK'
  BY <1>4, <1>0 DEF StartHasWaited, StartFindsNoTask, ResolveQueuesTask, StartQueues, Queue
<1>5. ASSUME NEW c \in Clients, DeleteChecks(c) \/ DeleteRows(c) \/ DeleteCleansUp(c)
      PROVE  SessionTypeOK'
  BY <1>5, <1>0 DEF DeleteChecks, DeleteRows, DeleteCleansUp, CleanupSessionState, RequestStates
<1>6. CASE DrainSignals \/ EngineBoots \/ RecoverBatches \/ TriggerRecovery
  BY <1>6 DEF DrainSignals, EngineBoots, RecoverBatches, TriggerRecovery
<1>7. CASE EngineStops
  BY <1>7, <1>0 DEF EngineStops
<1>8. ASSUME NEW t \in Tasks, AutoResume(t) PROVE SessionTypeOK'
  BY <1>8 DEF AutoResume, Queue
<1>9. ASSUME NEW t \in Tasks, TaskRegisters(t) PROVE SessionTypeOK'
  BY <1>9 DEF TaskRegisters
<1>10. ASSUME NEW t \in Tasks, ScanEnds(t) \/ TakeBatch(t) \/ BatchEnds(t) \/ PauseItself(t)
                               \/ AllBatchesTaken(t)
       PROVE  SessionTypeOK'
  BY <1>10 DEF ScanEnds, TakeBatch, BatchEnds, PauseItself, AllBatchesTaken, GoTo
<1>11. ASSUME NEW t \in Tasks, Finalize(t) \/ TaskFails(t) PROVE SessionTypeOK'
  BY <1>11 DEF Finalize, TaskFails, GoTo, PopActive, CleanupSessionState
<1>12. ASSUME NEW t \in Tasks, TaskLeaves(t) \/ FailureIsStored(t) \/ TaskCancelled(t)
       PROVE  SessionTypeOK'
  BY <1>12 DEF TaskLeaves, FailureIsStored, TaskCancelled, Over, PopActive, CleanupSessionState
<1>13. CASE UNCHANGED sessionVars
  BY <1>13 DEF sessionVars
<1> QED BY <1>1, <1>2, <1>3, <1>4, <1>5, <1>6, <1>7, <1>8, <1>9, <1>10, <1>11, <1>12, <1>13
           DEF SessionNext, Handlers, Engine, TaskRuns

\* A registered task has begun and was not told to go; requests stand where
\* their kind can be.
LEMMA NextBook == SessionTypeOK /\ BookInv /\ [SessionNext]_sessionVars => BookInv'
<1> SUFFICES ASSUME SessionTypeOK, BookInv, [SessionNext]_sessionVars PROVE BookInv'
  OBVIOUS
<1> USE NoTaskIsNone DEF SessionTypeOK, BookInv, InCharge
<1>1. ASSUME NEW c \in Clients, NEW k \in {"start", "pause", "resolve", "cancel"}, Arrive(c, k)
      PROVE  BookInv'
  BY <1>1 DEF Arrive, Inside, RequestStates, NoRequest
<1>2. ASSUME NEW c \in Clients, Enter(c) \/ Refuse(c) \/ PauseOrCancelSignals(c)
      PROVE  BookInv'
  <2>1. CASE Enter(c)
    BY <2>1 DEF Enter, Inside, RequestStates, NoRequest, Permits
  <2>2. CASE Refuse(c)
    BY <2>2 DEF Refuse, RequestStates, NoRequest
  <2>3. CASE PauseOrCancelSignals(c)
    BY <2>3 DEF PauseOrCancelSignals, RequestStates, NoRequest
  <2> QED BY <1>2, <2>1, <2>2, <2>3
<1>3. ASSUME NEW c \in Clients, Commit(c) PROVE BookInv'
  BY <1>3 DEF Commit, RequestStates, NewStatus
<1>4. ASSUME NEW c \in Clients, StartStopsOldTask(c) PROVE BookInv'
  BY <1>4 DEF StartStopsOldTask, CancelTask, RequestStates
<1>5. ASSUME NEW c \in Clients, NEW t \in Tasks,
             StartHasWaited(c, t) \/ StartFindsNoTask(c, t) \/ ResolveQueuesTask(c, t)
      PROVE  BookInv'
  <2>1. /\ request' = [request EXCEPT ![c] = NoRequest]
        /\ task' = [task EXCEPT ![t] = "queued"] /\ task[t] = "none"
        /\ UNCHANGED <<row, active, doomed>>
    BY <1>5 DEF StartHasWaited, StartFindsNoTask, ResolveQueuesTask, StartQueues, Queue, Fresh
  <2> QED BY <2>1 DEF RequestStates, NoRequest
<1>6. ASSUME NEW c \in Clients, DeleteChecks(c) \/ DeleteRows(c) \/ DeleteCleansUp(c)
      PROVE  BookInv'
  BY <1>6 DEF DeleteChecks, DeleteRows, DeleteCleansUp, RequestStates, NoRequest
<1>7. CASE DrainSignals \/ EngineBoots \/ RecoverBatches \/ TriggerRecovery
  BY <1>7 DEF DrainSignals, EngineBoots, RecoverBatches, TriggerRecovery
<1>8. CASE EngineStops
  BY <1>8 DEF EngineStops, NoRequest
<1>9. ASSUME NEW t \in Tasks, AutoResume(t) PROVE BookInv'
  BY <1>9 DEF AutoResume, Queue, Fresh
<1>10. ASSUME NEW t \in Tasks, TaskRegisters(t) PROVE BookInv'
  BY <1>10 DEF TaskRegisters, At
<1>11. ASSUME NEW t \in Tasks, ScanEnds(t) \/ TakeBatch(t) \/ BatchEnds(t) \/ PauseItself(t)
                               \/ AllBatchesTaken(t)
       PROVE  BookInv'
  <2>1. PICK p \in Begun : task' = [task EXCEPT ![t] = p]
    BY <1>11 DEF ScanEnds, TakeBatch, BatchEnds, PauseItself, AllBatchesTaken, GoTo
  <2>2. UNCHANGED <<active, request, doomed>> /\ (row = "DELETED" => row' = "DELETED")
    BY <1>11 DEF ScanEnds, TakeBatch, BatchEnds, PauseItself, AllBatchesTaken, GoTo
  <2> QED BY <2>1, <2>2
<1>12. ASSUME NEW t \in Tasks, Finalize(t) \/ TaskFails(t) PROVE BookInv'
  <2>1. CASE Finalize(t)
    BY <2>1 DEF Finalize, GoTo, PopActive, At
  <2>2. CASE TaskFails(t)
    BY <2>2 DEF TaskFails, GoTo, PopActive, At
  <2> QED BY <1>12, <2>1, <2>2
<1>13. ASSUME NEW t \in Tasks, TaskLeaves(t) \/ FailureIsStored(t) \/ TaskCancelled(t)
       PROVE  BookInv'
  <2>1. CASE TaskLeaves(t)
    BY <2>1 DEF TaskLeaves, Over, PopActive, At
  <2>2. CASE FailureIsStored(t)
    BY <2>2 DEF FailureIsStored, Over
  <2>3. CASE TaskCancelled(t)
    BY <2>3 DEF TaskCancelled, Over
  <2> QED BY <1>13, <2>1, <2>2, <2>3
<1>14. CASE UNCHANGED sessionVars
  BY <1>14 DEF sessionVars
<1> QED BY <1>1, <1>2, <1>3, <1>4, <1>5, <1>6, <1>7, <1>8, <1>9, <1>10, <1>11, <1>12, <1>13, <1>14
           DEF SessionNext, Handlers, Engine, TaskRuns

\* While no lock is dropped under it, a handler is alone inside.
LEMMA NextCharge ==
  SessionTypeOK /\ BookInv /\ ChargeInv /\ [SessionNext]_sessionVars => ChargeInv'
<1> SUFFICES ASSUME SessionTypeOK, BookInv, ChargeInv, [SessionNext]_sessionVars,
                    "split" \notin lapses'
             PROVE  ChargeInv'
  BY DEF ChargeInv
<1> USE DEF SessionTypeOK, BookInv, ChargeInv, InCharge, Maker
<1>1. ASSUME NEW c \in Clients, NEW k \in {"start", "pause", "resolve", "cancel"}, Arrive(c, k)
      PROVE  ChargeInv'
  <2>1. PICK l \in Locks :
          /\ lapses' = lapses \cup Beside(k, l)
          /\ request' = [request EXCEPT ![c] =
                          IF Held(l) THEN [kind |-> k, at |-> "waiting", lock |-> l] ELSE Inside(k, l)]
    BY <1>1 DEF Arrive
  <2>2. \A d \in Clients : InCharge(d) /\ request[d].lock = l => Held(l)
    BY DEF Held
  <2>3. request'[c].at = "inside" => \A d \in Clients : ~InCharge(d)
    BY <2>1, <2>2 DEF Beside, Inside, NoRequest
  <2>4. Maker(c)' => row # "CANCELLED"
    BY <2>1 DEF Inside, NoRequest, Permits
  <2>5. row' = row /\ request'[c].at \in {"inside", "waiting", "none"}
    BY <1>1, <2>1 DEF Arrive, Inside, NoRequest
  <2> QED BY <2>1, <2>3, <2>4, <2>5
<1>2. ASSUME NEW c \in Clients, Enter(c) PROVE ChargeInv'
  <2>1. \A d \in Clients : InCharge(d) => request[d].lock # request[c].lock
    BY <1>2 DEF Enter, Held
  <2>2. request'[c].at = "inside" => \A d \in Clients : ~InCharge(d)
    BY <1>2, <2>1 DEF Enter, Beside, Inside, NoRequest
  <2>3. Maker(c)' => row # "CANCELLED"
    BY <1>2 DEF Enter, Inside, NoRequest, Permits
  <2>4. /\ row' = row /\ request'[c].at \in {"inside", "none"}
        /\ \A d \in Clients \ {c} : request'[d] = request[d]
    BY <1>2 DEF Enter, Inside, NoRequest
  <2>5. "split" \notin lapses
    BY <1>2 DEF Enter
  <2> QED BY <2>2, <2>3, <2>4, <2>5
<1>3. ASSUME NEW c \in Clients, Refuse(c) \/ PauseOrCancelSignals(c) PROVE ChargeInv'
  BY <1>3 DEF Refuse, PauseOrCancelSignals, NoRequest
<1>4. ASSUME NEW c \in Clients, Commit(c) PROVE ChargeInv'
  BY <1>4 DEF Commit, NewStatus, RequestStates
<1>5. ASSUME NEW c \in Clients, StartStopsOldTask(c) PROVE ChargeInv'
  BY <1>5 DEF StartStopsOldTask, RequestStates
<1>6. ASSUME NEW c \in Clients, NEW t \in Tasks,
             StartHasWaited(c, t) \/ StartFindsNoTask(c, t) \/ ResolveQueuesTask(c, t)
      PROVE  ChargeInv'
  BY <1>6 DEF StartHasWaited, StartFindsNoTask, ResolveQueuesTask, StartQueues, NoRequest
<1>7. ASSUME NEW c \in Clients, DeleteChecks(c) \/ DeleteRows(c) \/ DeleteCleansUp(c)
      PROVE  ChargeInv'
  BY <1>7 DEF DeleteChecks, DeleteRows, DeleteCleansUp, RequestStates, NoRequest
<1>8. CASE DrainSignals \/ EngineBoots \/ RecoverBatches \/ TriggerRecovery
  BY <1>8 DEF DrainSignals, EngineBoots, RecoverBatches, TriggerRecovery
<1>9. CASE EngineStops
  BY <1>9 DEF EngineStops, NoRequest
<1>10. ASSUME NEW t \in Tasks, AutoResume(t) \/ TaskRegisters(t) PROVE ChargeInv'
  BY <1>10 DEF AutoResume, TaskRegisters
<1>11. ASSUME NEW t \in Tasks, TaskRuns(t), ~TaskRegisters(t) PROVE ChargeInv'
  <2>1. UNCHANGED <<request, lapses>> /\ (row' = "CANCELLED" => row = "CANCELLED")
    BY <1>11 DEF TaskRuns, ScanEnds, TakeBatch, BatchEnds, PauseItself, AllBatchesTaken, Finalize,
                 TaskLeaves, TaskFails, FailureIsStored, TaskCancelled
  <2> QED BY <2>1
<1>12. CASE UNCHANGED sessionVars
  BY <1>12 DEF sessionVars
<1> QED BY <1>1, <1>2, <1>3, <1>4, <1>5, <1>6, <1>7, <1>8, <1>9, <1>10, <1>11, <1>12
           DEF SessionNext, Handlers, Engine, TaskRuns

\* When the process ends, nothing of it is left.
LEMMA StopLeavesNothing ==
  ASSUME SessionTypeOK, EngineStops
  PROVE  /\ \A t \in Tasks : task'[t] \notin Begun \cup {"queued", "failing"}
         /\ \A c \in Clients : request'[c].at = "none"
         /\ active' = None /\ event' = None /\ doomed' = {}
BY DEF SessionTypeOK, EngineStops, Alive, NoRequest

\* Whoever gets inside to make a task, or to pause one, has found a session that
\* has not ended.
LEMMA InsideIsPermitted ==
  ASSUME NEW k \in {"start", "pause", "resolve", "cancel"}, NEW l
  PROVE  \/ Inside(k, l) = NoRequest
         \/ /\ Inside(k, l) = [kind |-> k, at |-> "inside", lock |-> l]
            /\ k = "cancel" \/ row \in {"CREATED", "PAUSED", "RUNNING"}
<1>1. CASE Permits(k)
  <2>1. k = "cancel" \/ row \in {"CREATED", "PAUSED", "RUNNING"}
    BY <1>1 DEF Permits
  <2> QED BY <1>1, <2>1 DEF Inside
<1>2. CASE ~Permits(k)
  BY <1>2 DEF Inside
<1> QED BY <1>1, <1>2

\* While nothing takes a registration from under a task, a task without one
\* is about to leave.
LEMMA NextRegistry ==
  SessionTypeOK /\ BookInv /\ ChargeInv /\ RegistryInv /\ [SessionNext]_sessionVars => RegistryInv'
<1> SUFFICES ASSUME SessionTypeOK, BookInv, ChargeInv, RegistryInv, [SessionNext]_sessionVars,
                    Guarded'
             PROVE  RegistryInv'
  BY DEF RegistryInv
<1> USE NoTaskIsNone DEF SessionTypeOK, BookInv, ChargeInv, RegistryInv, InCharge, Maker, Guarded,
        Halting, Unbound
<1>1. ASSUME NEW c \in Clients, NEW k \in {"start", "pause", "resolve", "cancel"}, Arrive(c, k)
      PROVE  RegistryInv'
  <2>1. Maker(c)' => row \in {"CREATED", "PAUSED", "RUNNING"}
    BY <1>1, InsideIsPermitted DEF Arrive, NoRequest
  <2>2. request'[c].at # "stopping" /\ \A d \in Clients \ {c} : request'[d] = request[d]
    BY <1>1 DEF Arrive, Inside, NoRequest
  <2>3. UNCHANGED <<row, active, task, doomed>> /\ lapses \subseteq lapses'
    BY <1>1 DEF Arrive
  <2> QED BY <2>1, <2>2, <2>3 DEF SessionEnded
<1>2. ASSUME NEW c \in Clients, Enter(c) \/ Refuse(c) \/ PauseOrCancelSignals(c)
      PROVE  RegistryInv'
  <2>1. Maker(c)' => row \in {"CREATED", "PAUSED", "RUNNING"}
    <3>1. CASE Enter(c)
      <4>1. request[c].kind \in {"start", "pause", "resolve", "cancel"}
        BY <3>1 DEF Enter
      <4>2. request'[c] = Inside(request[c].kind, request[c].lock)
        BY <3>1 DEF Enter
      <4> QED BY <4>1, <4>2, InsideIsPermitted DEF NoRequest
    <3>2. CASE Refuse(c) \/ PauseOrCancelSignals(c)
      BY <3>2 DEF Refuse, PauseOrCancelSignals, NoRequest
    <3> QED BY <1>2, <3>1, <3>2
  <2>2. request'[c].at # "stopping" /\ \A d \in Clients \ {c} : request'[d] = request[d]
    BY <1>2 DEF Enter, Refuse, PauseOrCancelSignals, Inside, NoRequest
  <2>3. UNCHANGED <<row, active, task, doomed>> /\ lapses \subseteq lapses'
    BY <1>2 DEF Enter, Refuse, PauseOrCancelSignals
  <2> QED BY <2>1, <2>2, <2>3 DEF SessionEnded
<1>3. ASSUME NEW c \in Clients, Commit(c) PROVE RegistryInv'
  <2>1. /\ ~Maker(c) => row' = "CANCELLED"
        /\ \A d \in Clients : Maker(d)' <=> Maker(d)
        /\ request'[c].at = "stored" /\ \A d \in Clients \ {c} : request'[d] = request[d]
    BY <1>3 DEF Commit, NewStatus, RequestStates
  <2>2. UNCHANGED <<active, task, doomed, lapses>>
    BY <1>3 DEF Commit
  <2> QED BY <2>1, <2>2 DEF SessionEnded
<1>4. ASSUME NEW c \in Clients, StartStopsOldTask(c) PROVE RegistryInv'
  <2>1. Maker(c) /\ active # None /\ active' = None /\ doomed' = doomed \cup {active}
        /\ UNCHANGED <<row, task>> /\ lapses \subseteq lapses'
    BY <1>4 DEF StartStopsOldTask, CancelTask
  <2>2. \A t \in Tasks : ~Unbound(t)' /\ task'[t] # "queued"
    BY <2>1
  <2> QED BY <2>1, <2>2
<1>5. ASSUME NEW c \in Clients, NEW t \in Tasks, StartHasWaited(c, t) \/ StartFindsNoTask(c, t)
      PROVE  RegistryInv'
  <2>1. /\ Maker(c) /\ task[t] = "none" /\ task' = [task EXCEPT ![t] = "queued"]
        /\ request' = [request EXCEPT ![c] = NoRequest]
        /\ UNCHANGED <<row, doomed, active>> /\ lapses \subseteq lapses'
    BY <1>5 DEF StartHasWaited, StartFindsNoTask, StartQueues, Queue, Fresh
  <2>2. active = None /\ \A u \in Tasks : task[u] # "queued"
    <3>1. CASE StartHasWaited(c, t)
      BY <2>1, <3>1 DEF StartHasWaited
    <3>2. CASE StartFindsNoTask(c, t)
      BY <2>1, <3>2 DEF StartFindsNoTask, Unregistered
    <3> QED BY <1>5, <3>1, <3>2
  <2>3. ~Halting'
    BY <2>1 DEF NoRequest
  <2>4. \A u \in Tasks : ~Unbound(u)'
    BY <2>1
  <2> QED BY <2>1, <2>2, <2>3, <2>4
<1>6. ASSUME NEW t \in Tasks, NEW c \in Clients, ResolveQueuesTask(c, t) PROVE RegistryInv'
  <2>1. /\ task[t] = "none" /\ task' = [task EXCEPT ![t] = "queued"]
        /\ request' = [request EXCEPT ![c] = NoRequest]
        /\ UNCHANGED <<row, doomed, active>> /\ lapses \subseteq lapses'
    BY <1>6 DEF ResolveQueuesTask, Queue, Fresh
  <2>2. ~Halting /\ \A u \in Tasks : ~Alive(u)
    BY <1>6 DEF ResolveQueuesTask, Unlooked
  <2> QED BY <2>1, <2>2 DEF Alive, NoRequest
<1>7. ASSUME NEW t \in Tasks, AutoResume(t) PROVE RegistryInv'
  <2>1. /\ task[t] = "none" /\ task' = [task EXCEPT ![t] = "queued"]
        /\ UNCHANGED <<row, doomed, active, request>> /\ lapses \subseteq lapses'
    BY <1>7 DEF AutoResume, Queue, Fresh
  <2>2. ~Halting /\ \A u \in Tasks : ~Alive(u)
    BY <1>7 DEF AutoResume, Unlooked
  <2> QED BY <2>1, <2>2 DEF Alive
<1>8. ASSUME NEW c \in Clients, DeleteChecks(c) \/ DeleteRows(c) \/ DeleteCleansUp(c)
      PROVE  RegistryInv'
  <2>1. active' = active
    BY <1>8 DEF DeleteChecks, DeleteRows, DeleteCleansUp, Evicted
  <2>2. /\ UNCHANGED <<task, doomed>> /\ row' \in {row, "DELETED"} /\ lapses \subseteq lapses'
        /\ ~InCharge(c)' /\ ~InCharge(c) /\ \A d \in Clients \ {c} : request'[d] = request[d]
    BY <1>8 DEF DeleteChecks, DeleteRows, DeleteCleansUp, NoRequest, RequestStates
  <2> QED BY <2>1, <2>2
<1>9. CASE DrainSignals \/ EngineBoots \/ RecoverBatches \/ TriggerRecovery
  BY <1>9 DEF DrainSignals, EngineBoots, RecoverBatches, TriggerRecovery
<1>10. CASE EngineStops
  BY <1>10, StopLeavesNothing
<1>11. ASSUME NEW t \in Tasks, TaskRegisters(t) PROVE RegistryInv'
  <2>1. /\ task[t] = "queued" /\ task' = [task EXCEPT ![t] = "scan"] /\ active' = t
        /\ UNCHANGED <<row, doomed, request, lapses>>
    BY <1>11 DEF TaskRegisters, At
  <2>2. \A u \in Tasks : ~Unbound(u)' /\ task'[u] # "queued"
    BY <2>1
  <2> QED BY <2>1, <2>2
<1>12. ASSUME NEW t \in Tasks, ScanEnds(t) \/ TakeBatch(t) \/ BatchEnds(t) \/ PauseItself(t)
                               \/ AllBatchesTaken(t)
       PROVE  RegistryInv'
  <2>1. PICK p \in Begun : task' = [task EXCEPT ![t] = p]
    BY <1>12 DEF ScanEnds, TakeBatch, BatchEnds, PauseItself, AllBatchesTaken, GoTo
  <2>2. /\ task[t] \in Begun \ {"leaving"} /\ t \notin doomed
        /\ UNCHANGED <<active, request, doomed, lapses>>
    BY <1>12 DEF ScanEnds, TakeBatch, BatchEnds, PauseItself, AllBatchesTaken, GoTo, At
  <2>3. active = t /\ \A u \in Tasks : ~Unbound(u)
    BY <2>2
  <2> QED BY <2>1, <2>2, <2>3
<1>13. ASSUME NEW t \in Tasks, Finalize(t) PROVE RegistryInv'
  <2>1. /\ task[t] = "finalize" /\ t \notin doomed /\ task' = [task EXCEPT ![t] = "leaving"]
        /\ UNCHANGED <<request, doomed, lapses>>
    BY <1>13 DEF Finalize, GoTo, At
  <2>2. active = t /\ (\A u \in Tasks : ~Unbound(u)) /\ \A u \in Tasks : task[u] # "queued"
    BY <2>1
  <2>3. CASE row = "CANCELLED"
    <3>1. active' = None /\ row' = row /\ \A c \in Clients : ~Maker(c)
      BY <1>13, <2>3 DEF Finalize, PopActive
    <3> QED BY <2>1, <2>2, <2>3, <3>1 DEF SessionEnded
  <2>4. CASE row # "CANCELLED"
    BY <1>13, <2>1, <2>2, <2>4 DEF Finalize
  <2> QED BY <2>3, <2>4
<1>14. ASSUME NEW t \in Tasks, TaskLeaves(t) \/ TaskFails(t) PROVE RegistryInv'
  <2>1. /\ task[t] \in Begun /\ t \notin doomed /\ active' = None
        /\ doomed' \in {doomed, doomed \ {t}} /\ UNCHANGED <<request, lapses, row>>
    BY <1>14 DEF TaskLeaves, TaskFails, Over, GoTo, PopActive, At
  <2>2. PICK p \in {"over", "failing"} : task' = [task EXCEPT ![t] = p]
    BY <1>14 DEF TaskLeaves, TaskFails, Over, GoTo
  <2>3. \A u \in Tasks : ~Unbound(u)'
    BY <2>1, <2>2
  <2> QED BY <2>1, <2>2, <2>3
<1>15. ASSUME NEW t \in Tasks, FailureIsStored(t) PROVE RegistryInv'
  <2>1. /\ task[t] = "failing" /\ task' = [task EXCEPT ![t] = "over"]
        /\ doomed' = doomed \ {t} /\ UNCHANGED <<request, lapses, active>>
        /\ row' \in {"DELETED", "ENDED"}
    BY <1>15 DEF FailureIsStored, Over
  <2> QED BY <2>1 DEF SessionEnded
<1>16. ASSUME NEW t \in Tasks, TaskCancelled(t) PROVE RegistryInv'
  <2>1. /\ t \in doomed /\ task' = [task EXCEPT ![t] = "over"]
        /\ doomed' = doomed \ {t} /\ UNCHANGED <<request, lapses, active, row>>
    BY <1>16 DEF TaskCancelled, Over
  <2> QED BY <2>1
<1>17. CASE UNCHANGED sessionVars
  BY <1>17 DEF sessionVars
<1> QED BY <1>1, <1>2, <1>3, <1>4, <1>5, <1>6, <1>7, <1>8, <1>9, <1>10, <1>11, <1>12, <1>13, <1>14,
           <1>15, <1>16, <1>17
           DEF SessionNext, Handlers, Engine, TaskRuns

\* Unless its wait times out, a start outlasts the task that it told to go.
LEMMA NextDoom ==
  /\ SessionTypeOK /\ BookInv /\ ChargeInv /\ RegistryInv /\ DoomInv
  /\ [SessionNext]_sessionVars
  => DoomInv'
<1> SUFFICES ASSUME SessionTypeOK, BookInv, ChargeInv, RegistryInv, DoomInv,
                    [SessionNext]_sessionVars, Guarded', "timeout" \notin lapses'
             PROVE  DoomInv'
  BY DEF DoomInv
<1> USE NoTaskIsNone DEF SessionTypeOK, BookInv, ChargeInv, DoomInv, InCharge, Guarded, Halting
<1>1. ASSUME NEW c \in Clients, NEW k \in {"start", "pause", "resolve", "cancel"}, Arrive(c, k)
      PROVE  DoomInv'
  BY <1>1 DEF Arrive
<1>2. ASSUME NEW c \in Clients, Enter(c) \/ Refuse(c) \/ PauseOrCancelSignals(c) \/ Commit(c)
      PROVE  DoomInv'
  BY <1>2 DEF Enter, Refuse, PauseOrCancelSignals, Commit
<1>3. ASSUME NEW c \in Clients, StartStopsOldTask(c) PROVE DoomInv'
  BY <1>3 DEF StartStopsOldTask, CancelTask
<1>4. ASSUME NEW c \in Clients, NEW t \in Tasks, StartHasWaited(c, t) PROVE DoomInv'
  BY <1>4 DEF StartHasWaited, StartQueues
<1>5. ASSUME NEW c \in Clients, NEW t \in Tasks, StartFindsNoTask(c, t) \/ ResolveQueuesTask(c, t)
      PROVE  DoomInv'
  BY <1>5 DEF StartFindsNoTask, ResolveQueuesTask, StartQueues
<1>6. ASSUME NEW c \in Clients, DeleteChecks(c) \/ DeleteRows(c) \/ DeleteCleansUp(c)
      PROVE  DoomInv'
  BY <1>6 DEF DeleteChecks, DeleteRows, DeleteCleansUp
<1>7. CASE DrainSignals \/ EngineBoots \/ RecoverBatches \/ TriggerRecovery
  BY <1>7 DEF DrainSignals, EngineBoots, RecoverBatches, TriggerRecovery
<1>8. CASE EngineStops
  BY <1>8, StopLeavesNothing
<1>9. ASSUME NEW t \in Tasks, AutoResume(t) \/ TaskRegisters(t) PROVE DoomInv'
  BY <1>9 DEF AutoResume, TaskRegisters
<1>10. ASSUME NEW t \in Tasks, TaskRuns(t), ~TaskRegisters(t) PROVE DoomInv'
  <2>1. UNCHANGED <<request, lapses>> /\ doomed' \subseteq doomed
    BY <1>10 DEF TaskRuns, ScanEnds, TakeBatch, BatchEnds, PauseItself, AllBatchesTaken, Finalize,
                 TaskLeaves, TaskFails, FailureIsStored, TaskCancelled, GoTo, Over
  <2> QED BY <2>1
<1>11. CASE UNCHANGED sessionVars
  BY <1>11 DEF sessionVars
<1> QED BY <1>1, <1>2, <1>3, <1>4, <1>5, <1>6, <1>7, <1>8, <1>9, <1>10, <1>11
           DEF SessionNext, Handlers, Engine, TaskRuns

\* Tasks in a batch are registered, or told to go, or leave: so they are one.
LEMMA OneEngaged ==
  ASSUME SessionTypeOK, BookInv, RegistryInv, DoomInv
  PROVE  OneTaskRuns
<1> DEFINE E == {t \in Tasks : task[t] \in Engaged}
<1>1. ASSUME Guarded, "timeout" \notin lapses, NEW t \in E, NEW u \in E
      PROVE  t = u
  <2>1. CASE t \in doomed \/ u \in doomed
    <3>1. active = None
      BY <1>1, <2>1 DEF DoomInv, RegistryInv
    <3>2. t \in doomed /\ u \in doomed
      BY <1>1, <3>1, NoTaskIsNone DEF RegistryInv, Unbound
    <3> QED BY <1>1, <3>2 DEF DoomInv
  <2>2. CASE t \notin doomed /\ u \notin doomed
    BY <1>1, <2>2 DEF RegistryInv, Unbound
  <2> QED BY <2>1, <2>2
<1>2. ASSUME Guarded, "timeout" \notin lapses PROVE Cardinality(E) <= 1
  <2>1. CASE E = {}
    BY <2>1, FS_EmptySet
  <2>2. CASE E # {}
    <3>1. PICK t \in E : TRUE
      BY <2>2
    <3>2. E = {t}
      BY <1>1, <1>2, <3>1
    <3> QED BY <3>2, FS_Singleton
  <2> QED BY <2>1, <2>2
<1> QED BY <1>2 DEF OneTaskRuns, Guarded

\* The registered task listens to the session's event.
LEMMA NextHear ==
  /\ SessionTypeOK /\ BookInv /\ ChargeInv /\ RegistryInv /\ HearInv
  /\ [SessionNext]_sessionVars
  => HearInv'
<1> SUFFICES ASSUME SessionTypeOK, BookInv, ChargeInv, RegistryInv, HearInv, [SessionNext]_sessionVars
             PROVE  HearInv'
  OBVIOUS
<1> USE NoTaskIsNone DEF SessionTypeOK, BookInv, ChargeInv, HearInv, InCharge, Guarded, Halting
<1>1. ASSUME NEW c \in Clients, NEW k \in {"start", "pause", "resolve", "cancel"}, Arrive(c, k)
      PROVE  HearInv'
  <2>1. request'[c].at # "stopping" /\ \A d \in Clients \ {c} : request'[d] = request[d]
    BY <1>1 DEF Arrive, Inside, NoRequest
  <2>2. UNCHANGED <<row, event, active, task, listens, doomed>> /\ lapses \subseteq lapses'
    BY <1>1 DEF Arrive
  <2>3. request[c].at # "stopping"
    BY <1>1 DEF Arrive
  <2> QED BY <2>1, <2>2, <2>3
<1>2. ASSUME NEW c \in Clients, Enter(c) \/ Refuse(c) \/ PauseOrCancelSignals(c) \/ Commit(c)
      PROVE  HearInv'
  <2>1. request'[c].at # "stopping" /\ \A d \in Clients \ {c} : request'[d] = request[d]
    BY <1>2 DEF Enter, Refuse, PauseOrCancelSignals, Commit, Inside, NoRequest, RequestStates
  <2>2. UNCHANGED <<event, active, task, listens, doomed>> /\ lapses \subseteq lapses'
    BY <1>2 DEF Enter, Refuse, PauseOrCancelSignals, Commit
  <2>3. request[c].at # "stopping" /\ (row = "DELETED" => row' = "DELETED")
    BY <1>2 DEF Enter, Refuse, PauseOrCancelSignals, Commit
  <2> QED BY <2>1, <2>2, <2>3
<1>3. ASSUME NEW c \in Clients, StartStopsOldTask(c) PROVE HearInv'
  <2>1. /\ active # None /\ active' = None /\ doomed' = doomed \cup {active}
        /\ UNCHANGED <<row, event, task, listens>> /\ lapses \subseteq lapses' /\ Halting'
    BY <1>3 DEF StartStopsOldTask, CancelTask, RequestStates
  <2> QED BY <2>1
<1>4. ASSUME NEW c \in Clients, NEW t \in Tasks, StartHasWaited(c, t) \/ StartFindsNoTask(c, t)
      PROVE  HearInv'
  <2>1. /\ task[t] = "none" /\ task' = [task EXCEPT ![t] = "queued"] /\ event' = t
        /\ UNCHANGED <<row, doomed, active, listens>> /\ lapses \subseteq lapses'
    BY <1>4 DEF StartHasWaited, StartFindsNoTask, StartQueues, Queue, Fresh
  <2>2. Guarded' => active = None
    BY <1>4, <2>1 DEF StartHasWaited, StartFindsNoTask, RegistryInv
  <2> QED BY <2>1, <2>2
<1>5. ASSUME NEW t \in Tasks, NEW c \in Clients, ResolveQueuesTask(c, t) PROVE HearInv'
  BY <1>5 DEF ResolveQueuesTask, Queue, Fresh
<1>6. ASSUME NEW t \in Tasks, AutoResume(t) PROVE HearInv'
  <2>1. /\ task[t] = "none" /\ task' = [task EXCEPT ![t] = "queued"]
        /\ event' = (IF event = None THEN t ELSE event)
        /\ UNCHANGED <<row, doomed, active, request, listens>> /\ lapses \subseteq lapses'
    BY <1>6 DEF AutoResume, Queue, Fresh
  <2>2. Guarded' => \A u \in Tasks : ~Alive(u)
    BY <1>6 DEF AutoResume, Unlooked
  <2>3. Guarded' => active = None /\ doomed = {}
    BY <2>2 DEF Alive
  <2> QED BY <2>1, <2>3
<1>7. ASSUME NEW c \in Clients, DeleteChecks(c) \/ DeleteRows(c) \/ DeleteCleansUp(c)
      PROVE  HearInv'
  <2>1. /\ UNCHANGED <<task, doomed, listens>> /\ lapses \subseteq lapses'
        /\ request[c].at # "stopping" /\ request'[c].at # "stopping"
        /\ \A d \in Clients \ {c} : request'[d] = request[d]
    BY <1>7 DEF DeleteChecks, DeleteRows, DeleteCleansUp, NoRequest, RequestStates
  <2>2. /\ event' \in {event, None} /\ active' \in {active, None}
        /\ row' = "DELETED" \/ UNCHANGED <<row, event>>
    BY <1>7 DEF DeleteChecks, DeleteRows, DeleteCleansUp, CleanupSessionState
  <2> QED BY <2>1, <2>2
<1>8. CASE DrainSignals \/ EngineBoots \/ RecoverBatches \/ TriggerRecovery
  BY <1>8 DEF DrainSignals, EngineBoots, RecoverBatches, TriggerRecovery
<1>9. CASE EngineStops
  <2>1. listens' = [t \in Tasks |-> None]
    BY <1>9 DEF EngineStops
  <2> QED BY <1>9, <2>1, StopLeavesNothing
<1>10. ASSUME NEW t \in Tasks, TaskRegisters(t) PROVE HearInv'
  <2>1. /\ task[t] = "queued" /\ t \notin doomed /\ task' = [task EXCEPT ![t] = "scan"] /\ active' = t
        /\ listens' = [listens EXCEPT ![t] = event]
        /\ UNCHANGED <<row, doomed, request, lapses, event>>
    BY <1>10 DEF TaskRegisters, At
  <2> QED BY <2>1
<1>11. ASSUME NEW t \in Tasks, ScanEnds(t) \/ TakeBatch(t) \/ BatchEnds(t) \/ PauseItself(t)
                               \/ AllBatchesTaken(t)
       PROVE  HearInv'
  <2>1. PICK p \in Begun : task' = [task EXCEPT ![t] = p]
    BY <1>11 DEF ScanEnds, TakeBatch, BatchEnds, PauseItself, AllBatchesTaken, GoTo
  <2>2. /\ UNCHANGED <<active, request, doomed, lapses, event, listens>>
        /\ row = "DELETED" => row' = "DELETED"
    BY <1>11 DEF ScanEnds, TakeBatch, BatchEnds, PauseItself, AllBatchesTaken, GoTo
  <2> QED BY <2>1, <2>2
<1>12. ASSUME NEW t \in Tasks, Finalize(t) \/ TaskLeaves(t) \/ TaskFails(t) PROVE HearInv'
  <2>1. /\ task[t] \in Begun /\ t \notin doomed /\ doomed' \in {doomed, doomed \ {t}}
        /\ listens' \in {listens, [listens EXCEPT ![t] = None]}
        /\ UNCHANGED <<request, lapses>> /\ (row = "DELETED" => row' = "DELETED")
    BY <1>12 DEF Finalize, TaskLeaves, TaskFails, GoTo, Over, At
  <2>2. PICK p \in {"leaving", "failing", "over"} : task' = [task EXCEPT ![t] = p]
    BY <1>12 DEF Finalize, TaskLeaves, TaskFails, GoTo, Over
  <2>3. \/ active' = None /\ event' = None
        \/ UNCHANGED <<active, event, listens, doomed>>
    BY <1>12 DEF Finalize, TaskLeaves, TaskFails, GoTo, Over, PopActive, CleanupSessionState
  <2>4. Guarded => \A u \in Tasks : task[u] # "queued"
    BY <2>1 DEF RegistryInv, Unbound
  <2> QED BY <2>1, <2>2, <2>3, <2>4
<1>13. ASSUME NEW t \in Tasks, FailureIsStored(t) PROVE HearInv'
  <2>1. /\ task[t] = "failing" /\ task' = [task EXCEPT ![t] = "over"]
        /\ doomed' = doomed \ {t} /\ listens' = [listens EXCEPT ![t] = None]
        /\ UNCHANGED <<request, lapses, active, event>> /\ (row = "DELETED" => row' = "DELETED")
    BY <1>13 DEF FailureIsStored, Over
  <2> QED BY <2>1
<1>14. ASSUME NEW t \in Tasks, TaskCancelled(t) PROVE HearInv'
  <2>1. /\ t \in doomed /\ task[t] \in Begun /\ task' = [task EXCEPT ![t] = "over"]
        /\ doomed' = doomed \ {t} /\ listens' = [listens EXCEPT ![t] = None]
        /\ UNCHANGED <<request, lapses, active, row>>
        /\ event' = IF event = listens[t] THEN None ELSE event
    BY <1>14 DEF TaskCancelled, Over, OwnsEvent, CleanupSessionState
  <2>2. Guarded /\ "deaf" \notin lapses /\ row # "DELETED" /\ Halting
          => active = None /\ \A u \in Tasks : task[u] # "queued"
    BY DEF RegistryInv
  <2>3. Guarded /\ "deaf" \notin lapses /\ row # "DELETED" /\ ~Halting => event' = event
    BY <2>1
  <2> QED BY <2>1, <2>2, <2>3
<1>15. CASE UNCHANGED sessionVars
  BY <1>15 DEF sessionVars
<1> QED BY <1>1, <1>2, <1>3, <1>4, <1>5, <1>6, <1>7, <1>8, <1>9, <1>10, <1>11, <1>12, <1>13, <1>14,
           <1>15
           DEF SessionNext, Handlers, Engine, TaskRuns

\* Who stores a stop has signalled, or will: nothing comes between that makes
\* a task which does not hear it.
LEMMA NextSignal ==
  /\ SessionTypeOK /\ BookInv /\ ChargeInv /\ RegistryInv /\ HearInv /\ SignalInv
  /\ [SessionNext]_sessionVars
  => SignalInv'
<1> SUFFICES ASSUME SessionTypeOK, BookInv, ChargeInv, RegistryInv, HearInv, SignalInv,
                    [SessionNext]_sessionVars,
                    Guarded', "deaf" \notin lapses', row' \in {"PAUSED", "CANCELLED"}
             PROVE  SignalInv'
  BY DEF SignalInv
<1> USE NoTaskIsNone DEF SessionTypeOK, BookInv, SignalInv, InCharge, Guarded
<1>1. ASSUME NEW c \in Clients, NEW k \in {"start", "pause", "resolve", "cancel"}, Arrive(c, k)
      PROVE  SignalInv'
  <2>1. /\ UNCHANGED <<row, task, doomed, listens, fired>> /\ lapses \subseteq lapses'
        /\ request[c].at # "stored" /\ \A d \in Clients \ {c} : request'[d] = request[d]
    BY <1>1 DEF Arrive
  <2> QED BY <2>1
<1>2. ASSUME NEW c \in Clients, Enter(c) \/ Refuse(c) PROVE SignalInv'
  <2>1. /\ UNCHANGED <<row, task, doomed, listens, fired>> /\ lapses \subseteq lapses'
        /\ request[c].at # "stored" /\ \A d \in Clients \ {c} : request'[d] = request[d]
    BY <1>2 DEF Enter, Refuse
  <2> QED BY <2>1
<1>3. ASSUME NEW c \in Clients, Commit(c) PROVE SignalInv'
  <2>1. request'[c].at = "stored" /\ request'[c].kind \in {"pause", "cancel"}
    BY <1>3 DEF Commit, NewStatus, RequestStates
  <2> QED BY <2>1
<1>4. ASSUME NEW c \in Clients, PauseOrCancelSignals(c) PROVE SignalInv'
  <2>1. /\ UNCHANGED <<row, task, doomed, listens, active, event, lapses>>
        /\ fired' = fired \cup ({event} \ {None})
    BY <1>4 DEF PauseOrCancelSignals, SignalEvent
  <2>2. \A t \in Tasks \ doomed : task[t] = "batch" => active = t
    BY <2>1 DEF RegistryInv, Unbound
  <2>3. \A t \in Tasks \ doomed : task[t] = "batch" => listens[t] = event /\ event # None
    BY <2>1, <2>2 DEF HearInv
  <2> QED BY <2>1, <2>3
<1>5. ASSUME NEW c \in Clients, StartStopsOldTask(c) PROVE SignalInv'
  <2>1. /\ UNCHANGED <<row, task, listens, fired>> /\ doomed \subseteq doomed' /\ lapses \subseteq lapses'
        /\ request[c].kind = "start" /\ \A d \in Clients \ {c} : request'[d] = request[d]
    BY <1>5 DEF StartStopsOldTask, CancelTask
  <2> QED BY <2>1
<1>6. ASSUME NEW c \in Clients, NEW t \in Tasks,
             StartHasWaited(c, t) \/ StartFindsNoTask(c, t) \/ ResolveQueuesTask(c, t)
      PROVE  SignalInv'
  <2>1. /\ UNCHANGED <<row, doomed, listens, fired>> /\ lapses \subseteq lapses'
        /\ task' = [task EXCEPT ![t] = "queued"]
        /\ request[c].kind \in {"start", "resolve"} /\ \A d \in Clients \ {c} : request'[d] = request[d]
    BY <1>6 DEF StartHasWaited, StartFindsNoTask, ResolveQueuesTask, StartQueues, Queue
  <2> QED BY <2>1
<1>7. ASSUME NEW c \in Clients, DeleteChecks(c) \/ DeleteRows(c) \/ DeleteCleansUp(c)
      PROVE  SignalInv'
  <2>1. /\ UNCHANGED <<row, task, doomed, listens, fired>> /\ lapses \subseteq lapses'
        /\ request[c].at # "stored" /\ \A d \in Clients \ {c} : request'[d] = request[d]
    BY <1>7 DEF DeleteChecks, DeleteRows, DeleteCleansUp
  <2> QED BY <2>1
<1>8. CASE DrainSignals \/ EngineBoots \/ RecoverBatches \/ TriggerRecovery
  BY <1>8 DEF DrainSignals, SignalEvent, EngineBoots, RecoverBatches, TriggerRecovery
<1>9. CASE EngineStops
  BY <1>9, StopLeavesNothing
<1>10. ASSUME NEW t \in Tasks, AutoResume(t) PROVE SignalInv'
  BY <1>10 DEF AutoResume, Queue
<1>11. ASSUME NEW t \in Tasks, TaskRegisters(t) PROVE SignalInv'
  BY <1>11 DEF TaskRegisters, At
<1>12. ASSUME NEW t \in Tasks, TakeBatch(t) \/ BatchEnds(t) \/ AllBatchesTaken(t) PROVE SignalInv'
  <2>1. PICK p \in Begun \ {"batch"} : task' = [task EXCEPT ![t] = p]
    BY <1>12 DEF TakeBatch, MustStop, BatchEnds, AllBatchesTaken, GoTo
  <2>2. UNCHANGED <<row, request, doomed, listens, lapses, fired>>
    BY <1>12 DEF TakeBatch, BatchEnds, AllBatchesTaken, GoTo
  <2> QED BY <2>1, <2>2
<1>13. ASSUME NEW t \in Tasks, ScanEnds(t) \/ Finalize(t) PROVE SignalInv'
  <2>1. PICK p \in Begun \ {"batch"} : task' = [task EXCEPT ![t] = p]
    BY <1>13 DEF ScanEnds, Finalize, GoTo
  <2>2. UNCHANGED <<row, request, doomed, listens, lapses, fired>>
    BY <1>13 DEF ScanEnds, Finalize, GoTo
  <2> QED BY <2>1, <2>2
<1>14. ASSUME NEW t \in Tasks, PauseItself(t) PROVE SignalInv'
  <2>1. /\ task[t] \in {"batch", "selfpause"} /\ t \notin doomed
        /\ UNCHANGED <<request, doomed, listens, lapses, fired>>
    BY <1>14 DEF PauseItself, GoTo, At
  <2>2. PICK p \in Begun \ {"batch"} : task' = [task EXCEPT ![t] = p]
    BY <1>14 DEF PauseItself, GoTo
  <2>3. \A u \in Tasks \ doomed : task[u] = "batch" => u = t
    BY <2>1 DEF RegistryInv, Unbound
  <2> QED BY <2>1, <2>2, <2>3
<1>15. ASSUME NEW t \in Tasks, TaskLeaves(t) \/ TaskFails(t) \/ FailureIsStored(t) \/ TaskCancelled(t)
       PROVE  SignalInv'
  <2>1. PICK p \in {"over", "failing"} : task' = [task EXCEPT ![t] = p]
    BY <1>15 DEF TaskLeaves, TaskFails, FailureIsStored, TaskCancelled, GoTo, Over
  <2>2. /\ UNCHANGED <<row, request, lapses, fired>>
        /\ doomed' \in {doomed, doomed \ {t}}
        /\ listens' \in {listens, [listens EXCEPT ![t] = None]}
    BY <1>15 DEF TaskLeaves, TaskFails, FailureIsStored, TaskCancelled, GoTo, Over
  <2> QED BY <2>1, <2>2
<1>16. CASE UNCHANGED sessionVars
  BY <1>16 DEF sessionVars
<1> QED BY <1>1, <1>2, <1>3, <1>4, <1>5, <1>6, <1>7, <1>8, <1>9, <1>10, <1>11, <1>12, <1>13, <1>14,
           <1>15, <1>16
           DEF SessionNext, Handlers, Engine, TaskRuns

\* What carries a RUNNING session hands it on, or ends it.
LEMMA NextCarry ==
  SessionTypeOK /\ BookInv /\ CarryInv /\ [SessionNext]_sessionVars => CarryInv'
<1> SUFFICES ASSUME SessionTypeOK, BookInv, CarryInv, [SessionNext]_sessionVars,
                    row' = "RUNNING", "forgotten" \notin lapses'
             PROVE  CarryInv'
  BY DEF CarryInv
<1> USE NoTaskIsNone DEF SessionTypeOK, BookInv, CarryInv, InCharge, Carries, Makes
<1>1. ASSUME NEW c \in Clients, NEW k \in {"start", "pause", "resolve", "cancel"}, Arrive(c, k)
      PROVE  CarryInv'
  <2>1. /\ UNCHANGED <<row, task, doomed, boot, stuck>> /\ lapses \subseteq lapses'
        /\ request[c].at = "none" /\ \A d \in Clients \ {c} : request'[d] = request[d]
    BY <1>1 DEF Arrive
  <2> QED BY <2>1
<1>2. ASSUME NEW c \in Clients, Enter(c) \/ Refuse(c) \/ PauseOrCancelSignals(c) PROVE CarryInv'
  <2>1. /\ UNCHANGED <<row, task, doomed, boot, stuck>> /\ lapses \subseteq lapses'
        /\ ~Makes(c) /\ \A d \in Clients \ {c} : request'[d] = request[d]
    BY <1>2 DEF Enter, Refuse, PauseOrCancelSignals
  <2> QED BY <2>1
<1>3. ASSUME NEW c \in Clients, Commit(c) PROVE CarryInv'
  <2>1. Makes(c)'
    BY <1>3 DEF Commit, NewStatus, RequestStates
  <2> QED BY <2>1
<1>4. ASSUME NEW c \in Clients, StartStopsOldTask(c) PROVE CarryInv'
  <2>1. Makes(c)'
    BY <1>4 DEF StartStopsOldTask, RequestStates
  <2> QED BY <2>1
<1>5. ASSUME NEW c \in Clients, NEW t \in Tasks,
             StartHasWaited(c, t) \/ StartFindsNoTask(c, t) \/ ResolveQueuesTask(c, t)
      PROVE  CarryInv'
  <2>1. task[t] = "none" /\ task' = [task EXCEPT ![t] = "queued"] /\ doomed' = doomed
    BY <1>5 DEF StartHasWaited, StartFindsNoTask, ResolveQueuesTask, StartQueues, Queue, Fresh
  <2>2. Carries(t)'
    BY <2>1
  <2> QED BY <2>2
<1>6. ASSUME NEW c \in Clients, DeleteChecks(c) \/ DeleteRows(c) \/ DeleteCleansUp(c)
      PROVE  CarryInv'
  <2>1. /\ UNCHANGED <<row, task, doomed, boot, stuck>> /\ lapses \subseteq lapses'
        /\ ~Makes(c) /\ \A d \in Clients \ {c} : request'[d] = request[d]
    BY <1>6 DEF DeleteChecks, DeleteRows, DeleteCleansUp
  <2> QED BY <2>1
<1>7. CASE DrainSignals \/ EngineBoots \/ RecoverBatches \/ TriggerRecovery
  BY <1>7 DEF DrainSignals, EngineBoots, RecoverBatches, TriggerRecovery, Up
<1>8. CASE EngineStops
  BY <1>8 DEF EngineStops
<1>9. ASSUME NEW t \in Tasks, AutoResume(t) PROVE CarryInv'
  <2>1. task[t] = "none" /\ task' = [task EXCEPT ![t] = "queued"] /\ doomed' = doomed
    BY <1>9 DEF AutoResume, Queue, Fresh
  <2>2. Carries(t)'
    BY <2>1
  <2> QED BY <2>2
<1>10. ASSUME NEW t \in Tasks, TaskRegisters(t) PROVE CarryInv'
  <2>1. task[t] = "queued" /\ task' = [task EXCEPT ![t] = "scan"]
        /\ UNCHANGED <<row, request, doomed, boot, stuck, lapses>>
    BY <1>10 DEF TaskRegisters, At
  <2> QED BY <2>1
<1>11. ASSUME NEW t \in Tasks, ScanEnds(t) \/ TakeBatch(t) \/ BatchEnds(t) \/ PauseItself(t)
                               \/ AllBatchesTaken(t) \/ TaskFails(t) \/ Finalize(t)
       PROVE  CarryInv'
  <2>1. PICK p \in (Begun \ {"leaving"}) \cup {"failing"} : task' = [task EXCEPT ![t] = p]
    BY <1>11 DEF ScanEnds, TakeBatch, MustStop, BatchEnds, PauseItself, AllBatchesTaken, TaskFails,
                 Finalize, GoTo
  <2>2. t \notin doomed /\ doomed' = doomed
    BY <1>11 DEF ScanEnds, TakeBatch, BatchEnds, PauseItself, AllBatchesTaken, TaskFails, Finalize,
                 GoTo, At
  <2>3. Carries(t)'
    BY <2>1, <2>2
  <2> QED BY <2>3
<1>12. ASSUME NEW t \in Tasks, TaskLeaves(t) \/ TaskCancelled(t) PROVE CarryInv'
  <2>1. /\ task' = [task EXCEPT ![t] = "over"] /\ doomed' = doomed \ {t}
        /\ UNCHANGED <<row, request, boot, stuck, lapses>> /\ ~Carries(t)
    BY <1>12 DEF TaskLeaves, TaskCancelled, Over, At
  <2> QED BY <2>1
<1>13. ASSUME NEW t \in Tasks, FailureIsStored(t) PROVE CarryInv'
  BY <1>13 DEF FailureIsStored
<1>14. CASE UNCHANGED sessionVars
  BY <1>14 DEF sessionVars
<1> QED BY <1>1, <1>2, <1>3, <1>4, <1>5, <1>6, <1>7, <1>8, <1>9, <1>10, <1>11, <1>12, <1>13, <1>14
           DEF SessionNext, Handlers, Engine, TaskRuns

-----------------------------------------------------------------------------

SessionInv ==
  /\ SessionTypeOK /\ BookInv /\ ChargeInv /\ RegistryInv /\ DoomInv /\ HearInv /\ SignalInv
  /\ CarryInv

\* All of it holds when the engine comes up.
LEMMA InitInv == SessionInit => SessionInv
<1> SUFFICES ASSUME SessionInit PROVE SessionInv
  OBVIOUS
<1>1. /\ \A t \in Tasks : task[t] = "none" /\ listens[t] = None
      /\ \A c \in Clients : request[c].at = "none"
      /\ active = None /\ event = None /\ doomed = {}
      /\ row = "RUNNING" => boot = "recovering" /\ stuck
    BY DEF SessionInit, NoRequest
<1>2. SessionTypeOK
  BY InitTypeOK
<1> QED BY <1>1, <1>2 DEF SessionInv, BookInv, ChargeInv, RegistryInv, DoomInv, HearInv, SignalInv,
             CarryInv, InCharge, Maker, Halting, Unbound

\* The parts above hold together in every state that handlers, tasks, crashes
\* and recovery reach, for any number of clients and of tasks (the handlers under
\* _get_session_lock and _run_transfer_background of routes.py).
THEOREM SessionInvariant == SessionSpec => []SessionInv
<1>1. SessionInv /\ [SessionNext]_sessionVars => SessionInv'
  BY NextTypeOK, NextBook, NextCharge, NextRegistry, NextDoom, NextHear, NextSignal, NextCarry
     DEF SessionInv
<1> QED BY <1>1, InitInv, PTL DEF SessionSpec

\* "This prevents two tasks from running the same session concurrently"
\* (routes.py:1888): no two tasks scan, take batches or are in one at a time,
\* unless one of four lapses came before: a start that overlaps another task's beginning, a
\* wait that timed out, a lock that was dropped under a handler, a registration that
\* a delete took from a task still there.
THEOREM NoTwoTasks == SessionSpec => []OneTaskRuns
<1>1. SessionInv => OneTaskRuns
  BY OneEngaged DEF SessionInv
<1> QED BY <1>1, SessionInvariant, PTL

\* Once the handler that stored PAUSED or CANCELLED is done, the task that is in
\* a batch has been signalled, for any number of clients, whichever handlers, ends
\* of tasks, crashes and recoveries come between; the lapses excepted are those of
\* NoTwoTasks but the timeout, and a task that resolve_duplicates left deaf.
THEOREM StopReachesTask == SessionSpec => []StoppedTaskIsSignalled
<1>1. SessionInv => StoppedTaskIsSignalled
  BY DEF SessionInv, SignalInv, StoppedTaskIsSignalled, Guarded
<1> QED BY <1>1, SessionInvariant, PTL

\* A session stored as RUNNING has a task that goes on with it, a handler about
\* to make one, or a recovery that will find it: none is stranded, in any number
\* of crashes and restarts, unless recovery forgot it.
THEOREM NoneStranded == SessionSpec => []RunningHasTask
<1>1. SessionInv => RunningHasTask
  BY DEF SessionInv, CarryInv, RunningHasTask, Carries, Makes, Alive
<1> QED BY <1>1, SessionInvariant, PTL
=============================================================================
