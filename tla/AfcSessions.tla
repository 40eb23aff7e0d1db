----------------------------- MODULE AfcSessions -----------------------------
(***************************************************************************)
(* Sessions with an iPhone (ios_device.py): the pool of AFC sessions that  *)
(* browsing and thumbnails share, the sessions that the streaming readers  *)
(* of a transfer open for themselves, and the cached verdict on whether    *)
(* the phone trusts this computer.                                         *)
(*                                                                         *)
(* A call to the phone runs on a worker thread.  The caller that awaits it *)
(* may time out or be cancelled, and the thread goes on all the same.      *)
(***************************************************************************)
EXTENDS Integers, FiniteSets

CONSTANTS
  Callers,     \* requests and transfers that use the phone at once
  PoolSize,    \* _AFC_POOL_SIZE
  LastCancel,  \* bound on the callers that are cancelled or fail to open
  TrustTtl,    \* _TRUST_CACHE_TTL_SECONDS
  ReadyWindow  \* _TRUST_RECENT_READY_WINDOW_SECONDS

ASSUME AfcAssumption == PoolSize \in Nat /\ LastCancel \in Nat /\ IsFiniteSet(Callers)

VARIABLES
  pool,      \* sessions in _AFC_POOL
  locked,    \* sessions whose slot lock is taken
  open,      \* sessions that are open on the phone
  threads,   \* number of worker threads inside every session
  caller,    \* what every caller is doing, and with which session
  pending,   \* number of threads that connect for a caller that gave up
  verdict,   \* the entry of _TRUST_CACHE
  lost,      \* history: callers that were cancelled or failed to open
  overrun    \* history: sessions that a caller closes a file in, or themselves,
             \* while its own earlier call is still inside, as long as they are

\* What the calls that do not touch the phone's sessions leave alone.
sessionsVars == <<pool, locked, open, threads, pending, lost, overrun>>
afcVars      == <<pool, locked, open, threads, caller, pending, verdict, lost, overrun>>

Sessions == 1 .. PoolSize + Cardinality(Callers) + LastCancel
NoSession == 0
Idle      == [at |-> "idle", with |-> NoSession, pooled |-> FALSE]
NoVerdict == [status |-> "none", age |-> 0, streak |-> 0]

-----------------------------------------------------------------------------
(* Bugs the code could have; each stands in for a definition below.        *)

ReleasedAnyway(n, X) == UNCHANGED <<pool, open>> /\ locked' = locked \ {n}
LeftOpen(n)          == {}

-----------------------------------------------------------------------------

AfcInit ==
  /\ pool = {} /\ locked = {} /\ open = {} /\ threads = [n \in Sessions |-> 0]
  /\ caller = [c \in Callers |-> Idle]
  /\ pending = 0 /\ verdict = NoVerdict /\ lost = 0 /\ overrun = {}

Holds(c, n) == caller[c].with = n
Unused      == {n \in Sessions : /\ n \notin open \cup pool /\ threads[n] = 0
                                 /\ \A c \in Callers : ~Holds(c, n)}
NewSession(n) == n \in Unused /\ \A m \in Unused : n <= m
Enters(n)     == threads' = [threads EXCEPT ![n] = @ + 1]
Leaves(n)     == /\ threads' = [threads EXCEPT ![n] = @ - 1]
                 /\ overrun' = IF threads[n] > 2 THEN overrun ELSE overrun \ {n}
LeavesIf(n, ended) == IF ended THEN Leaves(n) ELSE UNCHANGED <<threads, overrun>>
Becomes(c, at, n, pooled) ==
  caller' = [caller EXCEPT ![c] = [at |-> at, with |-> n, pooled |-> pooled]]

\* _sweep_idle_afc_slots: X are the slots that have been idle for too long.
Swept(X) == pool' = pool \ X /\ open' = open \ X

\* A slot that nobody works with is handed out, else the caller connects; it
\* remembers whether there was room for one more.
AcquireSlot(c, X) ==
  /\ caller[c].at = "idle" /\ X \subseteq pool \ locked /\ Swept(X)
  /\ \/ \E n \in pool' :
          /\ n \notin locked
          /\ Becomes(c, "using", n, TRUE)
          /\ locked' = locked \cup {n} /\ Enters(n)
     \/ /\ pool' \subseteq locked
        /\ Becomes(c, "connecting", NoSession, Cardinality(pool') < PoolSize)
        /\ UNCHANGED <<locked, threads>>
  /\ UNCHANGED <<pending, verdict, lost, overrun>>

\* "A racer may have filled the pool first": then the session is used once.
RoomIn(wanted) == wanted /\ Cardinality(pool) < PoolSize

Connected(c, n) ==
  /\ caller[c].at = "connecting" /\ NewSession(n)
  /\ pool' = IF RoomIn(caller[c].pooled) THEN pool \cup {n} ELSE pool
  /\ Becomes(c, "using", n, RoomIn(caller[c].pooled))
  /\ open' = open \cup {n} /\ locked' = locked \cup {n}
  /\ Enters(n)
  /\ UNCHANGED <<pending, verdict, lost, overrun>>

ConnectFails(c) ==
  /\ caller[c].at = "connecting" /\ caller' = [caller EXCEPT ![c] = Idle]
  /\ UNCHANGED <<sessionsVars, verdict>>

\* create_using_usbmux is given up after ten seconds, by a reader as well; its
\* thread connects all the same, and nobody closes what it opens.
ConnectTimesOut(c) ==
  /\ caller[c].at \in {"idle", "connecting"} /\ caller' = [caller EXCEPT ![c] = Idle]
  /\ lost < LastCancel /\ lost' = lost + 1 /\ pending' = pending + 1
  /\ UNCHANGED <<pool, locked, open, threads, verdict, overrun>>

ConnectsLate ==
  /\ pending > 0 /\ pending' = pending - 1
  /\ \/ UNCHANGED open
     \/ \E n \in Sessions : NewSession(n) /\ open' = open \cup {n}
  /\ UNCHANGED <<pool, locked, threads, caller, verdict, lost, overrun>>

\* A session that is not pooled ends with its operation.
ClosedOnRelease(n) == {n}

ReleaseSlot(c, n) ==
  /\ caller[c].at = "using" /\ Holds(c, n)
  /\ open' = IF caller[c].pooled THEN open ELSE open \ ClosedOnRelease(n)
  /\ locked' = locked \ {n} /\ Leaves(n)
  /\ caller' = [caller EXCEPT ![c] = Idle]
  /\ UNCHANGED <<pool, pending, verdict, lost>>

\* _drop_afc_slot, and drop_afc_slots for the slots X.
DropSlot(n, X) == pool' = pool \ (X \cup {n}) /\ open' = open \ (X \cup {n}) /\ locked' = locked \ {n}

\* read_device_file_partial: when its fread times out or is cancelled, the file
\* is closed all the same, by a second thread.
PartialReadCloses(c, n) ==
  /\ caller[c].at = "using" /\ Holds(c, n)
  /\ caller' = [caller EXCEPT ![c].at = "closing"]
  /\ Enters(n) /\ overrun' = overrun \cup {n}
  /\ UNCHANGED <<pool, locked, open, pending, verdict, lost>>

\* The operation raised or timed out; the thread may still be inside.
OperationRaises(c, n, ended) ==
  /\ Holds(c, n) /\ (caller[c].at = "using" \/ (caller[c].at = "closing" /\ ended))
  /\ DropSlot(n, {}) /\ LeavesIf(n, ended)
  /\ caller' = [caller EXCEPT ![c] = Idle]
  /\ UNCHANGED <<pending, verdict, lost>>

\* Locked or not trusted: no pooled session and no verdict survives.
PhoneIsLocked(c, n) ==
  /\ caller[c].at = "using" /\ Holds(c, n)
  /\ DropSlot(n, pool) /\ Leaves(n)
  /\ caller' = [caller EXCEPT ![c] = Idle] /\ verdict' = NoVerdict
  /\ UNCHANGED <<pending, lost>>

\* POST recover and retry drop the slots of operations under way as well.
DropAllSlots ==
  /\ pool # {} /\ pool' = {} /\ open' = open \ pool
  /\ UNCHANGED <<locked, threads, caller, pending, verdict, lost, overrun>>

\* A CancelledError is no Exception: pooled_afc_service neither drops nor
\* releases the slot, which stays locked, in the pool or outside.
OperationCancelled(c, n) ==
  /\ caller[c].at \in {"using", "closing"} /\ Holds(c, n) /\ lost < LastCancel
  /\ lost' = lost + 1 /\ caller' = [caller EXCEPT ![c] = Idle]
  /\ UNCHANGED <<pool, locked, open, threads, pending, verdict, overrun>>

ThreadReturns(n) ==
  /\ threads[n] > Cardinality({c \in Callers : Holds(c, n)}) /\ Leaves(n)
  /\ UNCHANGED <<pool, locked, open, caller, pending, verdict, lost>>

-----------------------------------------------------------------------------
(* AFCFileReader                                                           *)

\* A reader that connects but cannot open its file is never closed: the
\* context manager was not entered.
OpenReader(c, n) ==
  /\ caller[c].at = "idle" /\ NewSession(n)
  /\ open' = open \cup {n}
  /\ \/ Becomes(c, "reading", n, FALSE) /\ Enters(n) /\ UNCHANGED lost
     \/ lost < LastCancel /\ lost' = lost + 1 /\ UNCHANGED <<caller, threads>>
  /\ UNCHANGED <<pool, locked, pending, verdict, overrun>>

\* close: fclose, then the session, each on a thread of its own and for two
\* seconds at most, whatever became of the call before, which may have been
\* cancelled as well.  Last the session is closed on the event loop.
ReaderGoesOn(c, n, at, next, ended) ==
  /\ caller[c].at = at /\ Holds(c, n) /\ caller' = [caller EXCEPT ![c].at = next]
  /\ IF ended THEN UNCHANGED <<threads, overrun>> ELSE Enters(n) /\ overrun' = overrun \cup {n}
  /\ UNCHANGED <<pool, locked, open, pending, verdict, lost>>

ClosesFile(c, n, ended)    == ReaderGoesOn(c, n, "reading", "closing file", ended)
ClosesSession(c, n, ended) == ReaderGoesOn(c, n, "closing file", "closing session", ended)

CloseReader(c, n, ended) ==
  /\ caller[c].at = "closing session" /\ Holds(c, n)
  /\ open' = open \ {n} /\ caller' = [caller EXCEPT ![c] = Idle] /\ LeavesIf(n, ended)
  /\ UNCHANGED <<pool, locked, pending, verdict, lost>>

-----------------------------------------------------------------------------
(* The trust probe of list_ios_devices.                                    *)

\* A fresh verdict is used as it is.  LOCKED and NOT_TRUSTED are "not ready".
ProbeBegins(c) ==
  /\ caller[c].at = "idle" /\ (verdict.status = "none" \/ verdict.age >= TrustTtl)
  /\ Becomes(c, "probing", NoSession, FALSE)
  /\ UNCHANGED <<sessionsVars, verdict>>

ProbeEnds(c) ==
  /\ caller[c].at = "probing" /\ caller' = [caller EXCEPT ![c] = Idle]
  /\ UNCHANGED sessionsVars

SetCachedTrust(s) == verdict' = [status |-> s, age |-> 0, streak |-> 0]

ProbeAnswers(c) ==
  ProbeEnds(c) /\ (SetCachedTrust("ready") \/ SetCachedTrust("not ready"))

\* "A single probe timeout never flips a recently-READY device to LOCKED".
Forgiven    == verdict.status = "ready" /\ verdict.age < ReadyWindow /\ verdict.streak < 1
NoteGrace(v) == [v EXCEPT !.streak = @ + 1]

ProbeTimesOut(c) ==
  /\ ProbeEnds(c)
  /\ IF Forgiven THEN verdict' = NoteGrace(verdict) ELSE SetCachedTrust("not ready")

TrustAges ==
  /\ verdict.status # "none" /\ verdict.age < ReadyWindow
  /\ verdict' = [verdict EXCEPT !.age = @ + 1]
  /\ UNCHANGED <<sessionsVars, caller>>

-----------------------------------------------------------------------------

AfcNext ==
  \/ DropAllSlots \/ TrustAges \/ ConnectsLate
  \/ \E n \in Sessions : ThreadReturns(n)
  \/ \E c \in Callers :
       \/ \E X \in SUBSET pool : AcquireSlot(c, X)
       \/ \E n \in Sessions :
            \/ Connected(c, n) \/ ReleaseSlot(c, n) \/ PhoneIsLocked(c, n)
            \/ OperationCancelled(c, n) \/ PartialReadCloses(c, n) \/ OpenReader(c, n)
            \/ \E ended \in BOOLEAN :
                 \/ OperationRaises(c, n, ended) \/ ClosesFile(c, n, ended)
                 \/ ClosesSession(c, n, ended) \/ CloseReader(c, n, ended)
       \/ ConnectFails(c) \/ ConnectTimesOut(c)
       \/ ProbeBegins(c) \/ ProbeAnswers(c) \/ ProbeTimesOut(c)

AfcSpec == AfcInit /\ [][AfcNext]_afcVars

-----------------------------------------------------------------------------
(* Properties.                                                             *)

\* "Services are not safe for concurrent use": no two callers, those that gave
\* up included, have threads inside one session, and a slot that has a thread
\* inside is not handed out.  A caller may crowd its own session: the file of a
\* read that timed out, and the reader's session, are closed while the read is
\* still inside.
OneThreadPerSession ==
  \A n \in Sessions : /\ threads[n] <= 1 \/ n \in overrun
                      /\ n \in pool \ locked => threads[n] = 0

\* The pool holds open sessions, no more than its size, and every session that
\* is open is in the pool or in use, every lock taken by a caller: none is
\* lost but by a cancelled operation, a connection that was given up, or a
\* reader that failed to open.
SessionsAccounted ==
  LET used == {caller[c].with : c \in Callers}
  IN  /\ pool \subseteq open /\ Cardinality(pool) <= PoolSize
      /\ Cardinality((open \ (pool \cup used)) \cup ((pool \cap locked) \ used)) <= lost

=============================================================================
