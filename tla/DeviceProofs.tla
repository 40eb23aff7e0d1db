---------------------------- MODULE DeviceProofs -----------------------------
(*****************************************************************************)
(* For any number of callers, any size of the pool, and any number of        *)
(* cancelled callers: no two callers have threads inside one session, and    *)
(* every session is in the pool, in use, or abandoned (AfcSessions).  For any*)
(* number of requests and of polls: an operation fails only after all tiers  *)
(* that were due, and a driver that recovers is used again (DeviceTiers).    *)
(*****************************************************************************)
EXTENDS AfcSessions, DeviceTiers, FiniteSetTheorems, SequenceTheorems, TLAPS

(* AfcSessions.                                                            *)

CallerStates ==
  [at : {"idle", "connecting", "using", "closing", "reading", "closing file", "closing session",
         "probing"},
   with : Sessions \cup {NoSession}, pooled : BOOLEAN]

AfcTypeOK ==
  /\ pool \subseteq Sessions /\ locked \subseteq Sessions
  /\ threads \in [Sessions -> Nat] /\ overrun \subseteq Sessions
  /\ caller \in [Callers -> CallerStates]

SlotStates   == {"using", "closing"}
ReaderStates == {"reading", "closing file", "closing session"}

\* A caller has its session for itself, and its thread inside.  A slot of the
\* pool that it uses is locked.
HoldInv ==
  \A c \in Callers, n \in Sessions : Holds(c, n) =>
    /\ threads[n] >= 1 /\ (caller[c].at = "using" => threads[n] = 1)
    /\ \A d \in Callers : Holds(d, n) => d = c
    /\ \/ caller[c].at \in SlotStates /\ n \in locked
       \/ caller[c].at \in ReaderStates /\ n \notin pool

\* A slot that can be handed out has no thread inside.
FreeSlotInv == \A n \in pool \ locked : threads[n] = 0

\* Only a caller crowds the session, its own.
CrowdInv == \A n \in Sessions : threads[n] <= 1 \/ n \in overrun

AfcInv == AfcTypeOK /\ HoldInv /\ FreeSlotInv /\ CrowdInv

-----------------------------------------------------------------------------

LEMMA SessionsArePositive == Sessions \subseteq Nat \ {0} /\ NoSession \notin Sessions
<1>1. Cardinality(Callers) \in Nat
  BY AfcAssumption, FS_CardinalityType
<1> QED BY <1>1, AfcAssumption DEF Sessions, NoSession

LEMMA InitIsSafe == AfcInit => AfcInv
BY SessionsArePositive DEF AfcInit, Idle, AfcInv, AfcTypeOK, CallerStates, HoldInv, FreeSlotInv, CrowdInv, Holds

\* A thread goes into a session, or comes out of it.
LEMMA ThreadGoesIn ==
  ASSUME AfcInv, NEW n \in Sessions, Enters(n), overrun \subseteq overrun', overrun' \subseteq Sessions,
         threads[n] = 0 \/ n \in overrun'
  PROVE  /\ threads' \in [Sessions -> Nat] /\ threads'[n] = threads[n] + 1
         /\ \A m \in Sessions \ {n} : threads'[m] = threads[m]
         /\ CrowdInv'
BY DEF Enters, AfcInv, AfcTypeOK, CrowdInv

LEMMA ThreadComesOut ==
  ASSUME AfcInv, NEW n \in Sessions, threads[n] >= 1, Leaves(n)
  PROVE  /\ threads' \in [Sessions -> Nat] /\ threads'[n] = threads[n] - 1
         /\ \A m \in Sessions \ {n} : threads'[m] = threads[m]
         /\ overrun' \subseteq Sessions /\ CrowdInv'
<1>1. /\ threads' \in [Sessions -> Nat] /\ threads'[n] = threads[n] - 1
      /\ \A m \in Sessions \ {n} : threads'[m] = threads[m]
  BY DEF Leaves, AfcInv, AfcTypeOK
<1>2. overrun' \subseteq overrun /\ \A m \in Sessions : m \in overrun => m \in overrun' \/ (m = n /\ threads[n] <= 2)
  BY DEF Leaves, AfcInv, AfcTypeOK
<1> QED BY <1>1, <1>2 DEF AfcInv, AfcTypeOK, CrowdInv

\* A caller that has no session goes on without one.
LEMMA WithoutSession ==
  ASSUME AfcInv, NEW c \in Callers, NEW q \in CallerStates, q.with = NoSession,
         caller' = [caller EXCEPT ![c] = q],
         pool' \subseteq pool, UNCHANGED <<locked, threads, overrun>>
  PROVE  AfcInv'
<1>1. AfcTypeOK'
  BY DEF AfcInv, AfcTypeOK
<1>2. \A d \in Callers, n \in Sessions : Holds(d, n)' => Holds(d, n) /\ caller'[d] = caller[d]
  BY SessionsArePositive DEF AfcInv, AfcTypeOK, Holds
<1>3. HoldInv'
  BY <1>2 DEF AfcInv, HoldInv
<1>4. FreeSlotInv' /\ CrowdInv'
  BY DEF AfcInv, FreeSlotInv, CrowdInv
<1> QED BY <1>1, <1>3, <1>4 DEF AfcInv

LEMMA IdleIsState == Idle \in CallerStates /\ Idle.with = NoSession
BY DEF Idle, CallerStates

\* A caller takes a session that nobody has and no thread is inside.
LEMMA TakesSession ==
  ASSUME AfcInv, NEW c \in Callers, NEW n \in Sessions, NEW at \in {"using", "reading"},
         NEW pooled \in BOOLEAN, Becomes(c, at, n, pooled),
         threads[n] = 0, Enters(n), overrun' = overrun,
         pool' \subseteq pool \cup {n}, at = "reading" => n \notin pool',
         locked' = IF at = "using" THEN locked \cup {n} ELSE locked
  PROVE  AfcInv'
<1> DEFINE q == [at |-> at, with |-> n, pooled |-> pooled]
<1>1. caller' = [caller EXCEPT ![c] = q] /\ q \in CallerStates /\ q.with = n /\ q.at = at
  BY DEF Becomes, CallerStates
<1> HIDE DEF q
<1>2. /\ threads' \in [Sessions -> Nat] /\ threads'[n] = 1 /\ CrowdInv'
      /\ \A m \in Sessions \ {n} : threads'[m] = threads[m]
  BY ThreadGoesIn DEF AfcInv, AfcTypeOK
<1>3. AfcTypeOK'
  BY <1>1, <1>2 DEF AfcInv, AfcTypeOK
<1>4. \A d \in Callers : ~Holds(d, n)
  BY DEF AfcInv, AfcTypeOK, HoldInv
<1>5. \A d \in Callers, m \in Sessions :
        Holds(d, m)' <=> IF d = c THEN m = n ELSE Holds(d, m)
  BY <1>1 DEF AfcInv, AfcTypeOK, Holds
<1>6. ASSUME NEW d \in Callers, NEW m \in Sessions, Holds(d, m)'
      PROVE  /\ threads'[m] >= 1 /\ (caller'[d].at = "using" => threads'[m] = 1)
             /\ \A e \in Callers : Holds(e, m)' => e = d
             /\ \/ caller'[d].at \in SlotStates /\ m \in locked'
                \/ caller'[d].at \in ReaderStates /\ m \notin pool'
  <2>1. CASE d = c
    <3>1. m = n /\ caller'[d].at = at
      <4>1. m = n
        BY <1>5, <1>6, <2>1
      <4> QED BY <4>1, <1>1, <2>1 DEF AfcInv, AfcTypeOK
    <3>2. ASSUME NEW e \in Callers, Holds(e, m)' PROVE e = d
      BY <1>4, <1>5, <2>1, <3>1, <3>2
    <3>3. CASE at = "using"
      <4>1. m \in locked'
        BY <3>1, <3>3
      <4> QED BY <1>2, <3>1, <3>2, <3>3, <4>1 DEF SlotStates
    <3>4. CASE at = "reading"
      <4>1. m \notin pool'
        BY <3>1, <3>4
      <4> QED BY <1>2, <3>1, <3>2, <3>4, <4>1 DEF ReaderStates
    <3> QED BY <3>3, <3>4
  <2>2. CASE d # c
    <3>1. Holds(d, m) /\ m # n /\ caller'[d] = caller[d]
      BY <1>1, <1>4, <1>5, <1>6, <2>2 DEF AfcInv, AfcTypeOK
    <3>2. /\ threads[m] >= 1 /\ (caller[d].at = "using" => threads[m] = 1)
          /\ \A e \in Callers : Holds(e, m) => e = d
          /\ \/ caller[d].at \in SlotStates /\ m \in locked
             \/ caller[d].at \in ReaderStates /\ m \notin pool
      BY <3>1 DEF AfcInv, HoldInv
    <3>3. threads'[m] = threads[m] /\ \A e \in Callers : Holds(e, m)' => e = d
      BY <1>2, <1>5, <3>1, <3>2
    <3>4. m \in locked => m \in locked'
      OBVIOUS
    <3>5. m \notin pool => m \notin pool'
      BY <3>1
    <3> QED BY <3>1, <3>2, <3>3, <3>4, <3>5
  <2> QED BY <2>1, <2>2
<1>7. HoldInv'
  BY <1>6 DEF HoldInv
<1>8. FreeSlotInv'
  BY <1>2 DEF AfcInv, AfcTypeOK, FreeSlotInv
<1> QED BY <1>2, <1>3, <1>7, <1>8 DEF AfcInv

\* A caller goes on with its session, on a further thread perhaps.
LEMMA KeepsSession ==
  ASSUME AfcInv, NEW c \in Callers, NEW n \in Sessions, Holds(c, n), NEW at \in SlotStates \cup ReaderStates,
         at # "using", at \in SlotStates <=> caller[c].at \in SlotStates,
         caller' = [caller EXCEPT ![c].at = at],
         \/ UNCHANGED <<threads, overrun>>
         \/ Enters(n) /\ overrun' = overrun \cup {n},
         UNCHANGED <<pool, locked>>
  PROVE  AfcInv'
<1>1. /\ threads' \in [Sessions -> Nat] /\ threads'[n] >= 1 /\ CrowdInv' /\ overrun' \subseteq Sessions
      /\ \A m \in Sessions \ {n} : threads'[m] = threads[m]
  <2>1. threads[n] \in Nat /\ threads[n] >= 1
    BY DEF AfcInv, AfcTypeOK, HoldInv
  <2>2. CASE UNCHANGED <<threads, overrun>>
    BY <2>1, <2>2 DEF AfcInv, AfcTypeOK, CrowdInv
  <2>3. CASE Enters(n) /\ overrun' = overrun \cup {n}
    BY <2>1, <2>3, ThreadGoesIn DEF AfcInv, AfcTypeOK
  <2> QED BY <2>2, <2>3
<1>2. /\ caller' \in [Callers -> CallerStates] /\ caller'[c].at = at
      /\ \A d \in Callers : caller'[d].with = caller[d].with
      /\ \A d \in Callers \ {c} : caller'[d] = caller[d]
  BY DEF AfcInv, AfcTypeOK, CallerStates, SlotStates, ReaderStates
<1>3. AfcTypeOK'
  BY <1>1, <1>2 DEF AfcInv, AfcTypeOK
<1>4. HoldInv'
  <2>1. \A d \in Callers, m \in Sessions : Holds(d, m)' <=> Holds(d, m)
    BY <1>2 DEF Holds
  <2>2. (at \in SlotStates /\ n \in locked) \/ (at \in ReaderStates /\ n \notin pool)
    BY DEF AfcInv, HoldInv, SlotStates, ReaderStates
  <2>3. \A d \in Callers \ {c}, m \in Sessions : Holds(d, m) => m # n
    BY DEF AfcInv, HoldInv
  <2>4. \A m \in Sessions : Holds(c, m) => m = n
    BY DEF Holds
  <2> QED BY <1>1, <1>2, <2>1, <2>2, <2>3, <2>4 DEF AfcInv, HoldInv
<1>5. FreeSlotInv'
  BY <1>1 DEF AfcInv, FreeSlotInv, HoldInv, AfcTypeOK, SlotStates, ReaderStates
<1> QED BY <1>1, <1>3, <1>4, <1>5 DEF AfcInv

\* A caller lets go of its session: its thread has returned, or the session is
\* out of the pool, or stays locked.
LEMMA LeavesSession ==
  ASSUME AfcInv, NEW c \in Callers, NEW n \in Sessions, Holds(c, n), NEW ended \in BOOLEAN,
         caller' = [caller EXCEPT ![c] = Idle],
         LeavesIf(n, ended),
         pool' \subseteq pool, locked' \in {locked, locked \ {n}},
         (ended /\ caller[c].at = "using") \/ n \notin pool' \ locked'
  PROVE  AfcInv'
<1>1. threads[n] >= 1 /\ (caller[c].at = "using" => threads[n] = 1) /\ \A d \in Callers : Holds(d, n) => d = c
  BY DEF AfcInv, HoldInv
<1>2. /\ threads' \in [Sessions -> Nat] /\ (ended => threads'[n] = threads[n] - 1)
      /\ CrowdInv' /\ overrun' \subseteq Sessions
      /\ \A m \in Sessions \ {n} : threads'[m] = threads[m]
  <2>1. CASE ended
    BY <1>1, <2>1, ThreadComesOut DEF LeavesIf
  <2>2. CASE ~ended
    BY <2>2 DEF LeavesIf, AfcInv, AfcTypeOK, CrowdInv
  <2> QED BY <2>1, <2>2
<1>3. AfcTypeOK'
  BY <1>2, IdleIsState DEF AfcInv, AfcTypeOK
<1>4. \A d \in Callers, m \in Sessions :
        Holds(d, m)' => Holds(d, m) /\ m # n /\ caller'[d] = caller[d]
  BY <1>1, IdleIsState, SessionsArePositive DEF AfcInv, AfcTypeOK, Holds
<1>5. HoldInv'
  BY <1>2, <1>4 DEF AfcInv, HoldInv
<1>6. FreeSlotInv'
  BY <1>1, <1>2 DEF AfcInv, AfcTypeOK, FreeSlotInv
<1> QED BY <1>2, <1>3, <1>5, <1>6 DEF AfcInv

\* A thread that returns without a caller leaves those of the callers alone.
LEMMA ThreadReturnsSafely ==
  ASSUME AfcInv, NEW n \in Sessions, ThreadReturns(n)
  PROVE  AfcInv'
<1> DEFINE H == {c \in Callers : Holds(c, n)}
<1>1. IsFiniteSet(H) /\ Cardinality(H) \in Nat
  BY AfcAssumption, FS_Subset, FS_CardinalityType
<1>2. threads[n] > Cardinality(H) /\ Leaves(n) /\ UNCHANGED <<pool, locked, caller>>
  BY DEF ThreadReturns
<1>3. \A c \in Callers : Holds(c, n) => threads[n] >= 2
  <2> SUFFICES ASSUME NEW c \in Callers, Holds(c, n) PROVE threads[n] >= 2
    OBVIOUS
  <2>1. H # {}
    OBVIOUS
  <2>2. Cardinality(H) # 0
    BY <1>1, <2>1, FS_EmptySet
  <2> QED BY <1>1, <1>2, <2>2 DEF AfcInv, AfcTypeOK
<1>4. threads[n] \in Nat /\ threads[n] >= 1
  BY <1>1, <1>2 DEF AfcInv, AfcTypeOK
<1> HIDE DEF H
<1>5. /\ threads' \in [Sessions -> Nat] /\ threads'[n] = threads[n] - 1
      /\ \A m \in Sessions \ {n} : threads'[m] = threads[m]
      /\ overrun' \subseteq Sessions /\ CrowdInv'
  BY <1>2, <1>4, ThreadComesOut
<1>6. AfcTypeOK'
  BY <1>2, <1>5 DEF AfcInv, AfcTypeOK
<1>7. HoldInv'
  <2>1. \A c \in Callers, m \in Sessions : Holds(c, m)' <=> Holds(c, m)
    BY <1>2 DEF Holds
  <2> QED BY <1>2, <1>3, <1>4, <1>5, <2>1 DEF AfcInv, HoldInv
<1>8. FreeSlotInv'
  BY <1>2, <1>4, <1>5 DEF AfcInv, AfcTypeOK, FreeSlotInv
<1> QED BY <1>5, <1>6, <1>7, <1>8 DEF AfcInv

LEMMA AcquireIsSafe ==
  ASSUME AfcInv, NEW c \in Callers, NEW X \in SUBSET pool, AcquireSlot(c, X)
  PROVE  AfcInv'
<1>1. pool' \subseteq pool
  BY DEF AcquireSlot, Swept
<1>2. ASSUME NEW n \in pool', n \notin locked, Becomes(c, "using", n, TRUE),
             locked' = locked \cup {n}, Enters(n)
      PROVE  AfcInv'
  <2>1. n \in Sessions /\ threads[n] = 0
    BY <1>1, <1>2 DEF AfcInv, AfcTypeOK, FreeSlotInv
  <2>2. overrun' = overrun
    BY DEF AcquireSlot
  <2> QED BY <1>1, <1>2, <2>1, <2>2, TakesSession
<1>3. CASE /\ Becomes(c, "connecting", NoSession, Cardinality(pool') < PoolSize)
           /\ UNCHANGED <<locked, threads>>
  <2> DEFINE q == [at |-> "connecting", with |-> NoSession, pooled |-> Cardinality(pool') < PoolSize]
  <2>1. q \in CallerStates /\ q.with = NoSession
    BY DEF CallerStates
  <2>2. caller' = [caller EXCEPT ![c] = q]
    BY <1>3 DEF Becomes
  <2> HIDE DEF q
  <2> QED BY <1>1, <1>3, <2>1, <2>2, WithoutSession DEF AcquireSlot
<1> QED BY <1>2, <1>3 DEF AcquireSlot

LEMMA NextIsSafe == AfcInv /\ [AfcNext]_afcVars => AfcInv'
<1> SUFFICES ASSUME AfcInv, [AfcNext]_afcVars PROVE AfcInv'
  OBVIOUS
<1>1. ASSUME pool' \subseteq pool, UNCHANGED <<locked, threads, caller, overrun>> PROVE AfcInv'
  BY <1>1 DEF AfcInv, AfcTypeOK, HoldInv, FreeSlotInv, CrowdInv, Holds
<1>2. CASE DropAllSlots \/ TrustAges \/ ConnectsLate \/ UNCHANGED afcVars
  BY <1>1, <1>2 DEF DropAllSlots, TrustAges, ConnectsLate, sessionsVars, afcVars
<1>3. ASSUME NEW c \in Callers, NEW n \in Sessions, Connected(c, n) PROVE AfcInv'
  <2>1. threads[n] = 0
    BY <1>3 DEF Connected, NewSession, Unused
  <2>2. /\ RoomIn(caller[c].pooled) \in BOOLEAN /\ Becomes(c, "using", n, RoomIn(caller[c].pooled))
        /\ locked' = locked \cup {n} /\ Enters(n) /\ overrun' = overrun
        /\ pool' \subseteq pool \cup {n}
    BY <1>3 DEF Connected, RoomIn, AfcInv, AfcTypeOK, CallerStates
  <2> QED BY <2>1, <2>2, TakesSession
<1>4. ASSUME NEW c \in Callers, NEW n \in Sessions, OpenReader(c, n) PROVE AfcInv'
  <2>1. threads[n] = 0 /\ n \notin pool /\ UNCHANGED <<pool, locked, overrun>>
    BY <1>4 DEF OpenReader, NewSession, Unused
  <2>2. CASE Becomes(c, "reading", n, FALSE) /\ Enters(n)
    BY <2>1, <2>2, TakesSession
  <2>3. CASE UNCHANGED <<caller, threads>>
    BY <1>1, <2>1, <2>3
  <2> QED BY <1>4, <2>2, <2>3 DEF OpenReader
<1>5. ASSUME NEW c \in Callers, NEW n \in Sessions,
             ReleaseSlot(c, n) \/ PhoneIsLocked(c, n) \/ OperationCancelled(c, n)
      PROVE  AfcInv'
  <2>1. CASE ReleaseSlot(c, n)
    <3>1. LeavesIf(n, TRUE)
      BY <2>1 DEF ReleaseSlot, LeavesIf
    <3> QED BY <2>1, <3>1, LeavesSession DEF ReleaseSlot
  <2>2. CASE PhoneIsLocked(c, n)
    <3>1. LeavesIf(n, TRUE)
      BY <2>2 DEF PhoneIsLocked, LeavesIf
    <3> QED BY <2>2, <3>1, LeavesSession DEF PhoneIsLocked, DropSlot
  <2>3. CASE OperationCancelled(c, n)
    <3>1. n \in locked
      BY <2>3 DEF OperationCancelled, AfcInv, HoldInv, ReaderStates
    <3>2. LeavesIf(n, FALSE)
      BY <2>3 DEF OperationCancelled, LeavesIf
    <3> QED BY <2>3, <3>1, <3>2, LeavesSession DEF OperationCancelled
  <2> QED BY <1>5, <2>1, <2>2, <2>3
<1>6. ASSUME NEW c \in Callers, NEW n \in Sessions, NEW ended \in BOOLEAN,
             OperationRaises(c, n, ended) \/ CloseReader(c, n, ended)
      PROVE  AfcInv'
  <2>1. CASE OperationRaises(c, n, ended)
    BY <2>1, LeavesSession DEF OperationRaises, DropSlot
  <2>2. CASE CloseReader(c, n, ended)
    <3>1. n \notin pool
      BY <2>2 DEF CloseReader, AfcInv, HoldInv, SlotStates
    <3> QED BY <2>2, <3>1, LeavesSession DEF CloseReader
  <2> QED BY <1>6, <2>1, <2>2
<1>7. ASSUME NEW c \in Callers,
             ConnectFails(c) \/ ConnectTimesOut(c) \/ ProbeBegins(c) \/ ProbeAnswers(c) \/ ProbeTimesOut(c)
      PROVE  AfcInv'
  <2> DEFINE Rest == UNCHANGED <<pool, locked, threads, overrun>>
  <2>1. PICK q \in CallerStates : q.with = NoSession /\ caller' = [caller EXCEPT ![c] = q] /\ Rest
    <3>1. CASE ProbeBegins(c)
      <4> DEFINE q == [at |-> "probing", with |-> NoSession, pooled |-> FALSE]
      <4>1. q \in CallerStates /\ q.with = NoSession
        BY DEF CallerStates
      <4>2. caller' = [caller EXCEPT ![c] = q] /\ Rest
        BY <3>1 DEF ProbeBegins, Becomes, sessionsVars
      <4> HIDE DEF q
      <4> QED BY <4>1, <4>2
    <3>2. CASE ConnectFails(c) \/ ConnectTimesOut(c) \/ ProbeAnswers(c) \/ ProbeTimesOut(c)
      BY <3>2, IdleIsState DEF ConnectFails, ConnectTimesOut, ProbeAnswers, ProbeTimesOut, ProbeEnds, sessionsVars
    <3> QED BY <1>7, <3>1, <3>2
  <2> QED BY <2>1, WithoutSession
<1>8. ASSUME NEW c \in Callers, NEW n \in Sessions, PartialReadCloses(c, n) PROVE AfcInv'
  BY <1>8, KeepsSession DEF PartialReadCloses, SlotStates, ReaderStates
<1>9. ASSUME NEW c \in Callers, NEW n \in Sessions, NEW ended \in BOOLEAN,
             ClosesFile(c, n, ended) \/ ClosesSession(c, n, ended)
      PROVE  AfcInv'
  <2>1. ASSUME NEW at \in ReaderStates, NEW next \in ReaderStates, ReaderGoesOn(c, n, at, next, ended)
        PROVE  AfcInv'
    BY <2>1, KeepsSession DEF ReaderGoesOn, SlotStates, ReaderStates
  <2> QED BY <1>9, <2>1 DEF ClosesFile, ClosesSession, ReaderStates
<1> QED
  BY <1>2, <1>3, <1>4, <1>5, <1>6, <1>7, <1>8, <1>9, AcquireIsSafe, ThreadReturnsSafely DEF AfcNext

\* "Services are not safe for concurrent use": however callers overlap, time
\* out and are cancelled, no two callers have threads inside one session, and
\* no slot with a thread inside is handed out.
THEOREM ThreadsAreAlone == AfcSpec => []OneThreadPerSession
<1>1. AfcInv => OneThreadPerSession
  BY DEF AfcInv, AfcTypeOK, CrowdInv, FreeSlotInv, OneThreadPerSession
<1> QED BY InitIsSafe, NextIsSafe, <1>1, PTL DEF AfcSpec
-----------------------------------------------------------------------------
(* No session is lost.                                                     *)

\* A session that a caller took from the pool, or put there, is in it as long
\* as it is open; one that was not pooled never gets there.
SlotInv ==
  \A c \in Callers, n \in Sessions : Holds(c, n) /\ caller[c].at \in SlotStates =>
    IF caller[c].pooled THEN n \in pool \/ n \notin open ELSE n \notin pool

Used  == {caller[c].with : c \in Callers}
Stray == (open \ (pool \cup Used)) \cup ((pool \cap locked) \ Used)

AccountInv ==
  /\ open \subseteq Sessions /\ lost \in Nat /\ pending \in Nat /\ SlotInv
  /\ pool \subseteq open /\ Cardinality(pool) <= PoolSize
  /\ Cardinality(Stray) + pending <= lost

\* What a step loses: no session, or one.
NoneLost == lost' \in Nat /\ pending' \in Nat /\ lost' - pending' = lost - pending
OneLost  == lost' \in Nat /\ pending' \in Nat /\ lost' - pending' = lost - pending + 1

\* There are finitely many sessions.
LEMMA SessionsAreFinite == IsFiniteSet(Sessions)
<1>1. Cardinality(Callers) \in Nat
  BY AfcAssumption, FS_CardinalityType
<1> QED BY <1>1, AfcAssumption, FS_Interval DEF Sessions

\* At first no session is open.
LEMMA InitIsAccounted == AfcInit => AccountInv
<1> SUFFICES ASSUME AfcInit PROVE AccountInv
  OBVIOUS
<1>1. pool = {} /\ open = {} /\ locked = {} /\ lost = 0 /\ pending = 0 /\ Stray = {}
  BY DEF AfcInit, Stray
<1>2. SlotInv
  BY SessionsArePositive DEF AfcInit, SlotInv, SlotStates, Holds, Idle
<1> QED BY <1>1, <1>2, FS_EmptySet, AfcAssumption DEF AccountInv

\* What a bound leaves over stays, when both sides grow alike.
LEMMA SlackIsKept ==
  \A s, t, p, q, x, y \in Nat :
    s + p <= x /\ ((t <= s /\ y - q = x - p) \/ (t <= s + 1 /\ y - q = x - p + 1)) => t + q <= y
OBVIOUS

\* What a step strays is bounded by what it counts.
LEMMA StillAccounted ==
  ASSUME AccountInv, open' \subseteq Sessions, SlotInv', pool' \subseteq open',
         Cardinality(pool') <= PoolSize,
         \/ Stray' \subseteq Stray /\ NoneLost
         \/ \E n \in Sessions : Stray' \subseteq Stray \cup {n} /\ OneLost
  PROVE  AccountInv'
<1>1. IsFiniteSet(Stray) /\ Cardinality(Stray) \in Nat
  <2>1. Stray \subseteq Sessions
    BY DEF AccountInv, Stray
  <2> QED BY <2>1, SessionsAreFinite, FS_Subset, FS_CardinalityType
<1>2. CASE Stray' \subseteq Stray /\ NoneLost
  <2>1. Cardinality(Stray') <= Cardinality(Stray) /\ Cardinality(Stray') \in Nat
    BY <1>1, <1>2, FS_Subset, FS_CardinalityType
  <2>2. Cardinality(Stray') + pending' <= lost' /\ lost' \in Nat /\ pending' \in Nat
    <3>1. Cardinality(Stray) + pending <= lost /\ lost \in Nat /\ pending \in Nat
      BY DEF AccountInv
    <3>2. lost' \in Nat /\ pending' \in Nat /\ lost' - pending' = lost - pending
      BY <1>2 DEF NoneLost
    <3> QED BY <1>1, <2>1, <3>1, <3>2, SlackIsKept
  <2> QED BY <2>2 DEF AccountInv
<1>3. ASSUME NEW n \in Sessions, Stray' \subseteq Stray \cup {n}, OneLost PROVE AccountInv'
  <2>1. IsFiniteSet(Stray \cup {n}) /\ Cardinality(Stray \cup {n}) <= Cardinality(Stray) + 1
    <3>1. /\ IsFiniteSet(Stray \cup {n})
          /\ Cardinality(Stray \cup {n}) = IF n \in Stray THEN Cardinality(Stray) ELSE Cardinality(Stray) + 1
      BY <1>1, FS_AddElement, Zenon
    <3> QED BY <1>1, <3>1
  <2>2. IsFiniteSet(Stray') /\ Cardinality(Stray') <= Cardinality(Stray) + 1 /\ Cardinality(Stray') \in Nat
    BY <1>1, <1>3, <2>1, FS_Subset, FS_CardinalityType
  <2>3. Cardinality(Stray') + pending' <= lost' /\ lost' \in Nat /\ pending' \in Nat
    <3>1. Cardinality(Stray) + pending <= lost /\ lost \in Nat /\ pending \in Nat
      BY DEF AccountInv
    <3>2. lost' \in Nat /\ pending' \in Nat /\ lost' - pending' = lost - pending + 1
      BY <1>3 DEF OneLost
    <3> QED BY <1>1, <2>2, <3>1, <3>2, SlackIsKept
  <2> QED BY <2>3 DEF AccountInv
<1> QED BY <1>2, <1>3

\* A part of the pool is no larger than the pool.
LEMMA PoolShrinks ==
  ASSUME AfcInv, AccountInv, pool' \subseteq pool
  PROVE  Cardinality(pool') <= PoolSize
<1>1. IsFiniteSet(pool)
  BY SessionsAreFinite, FS_Subset DEF AfcInv, AfcTypeOK
<1>2. IsFiniteSet(pool') /\ Cardinality(pool') <= Cardinality(pool) /\ Cardinality(pool) \in Nat /\ Cardinality(pool') \in Nat
  BY <1>1, FS_Subset, FS_CardinalityType
<1> QED BY <1>2, AfcAssumption DEF AccountInv

\* A caller without a session goes on without one.
LEMMA WithoutSessionAccounted ==
  ASSUME AfcInv, AccountInv, NEW c \in Callers, NEW q \in CallerStates, q.with = NoSession,
         caller[c].with = NoSession, caller' = [caller EXCEPT ![c] = q],
         NEW X \in SUBSET pool, Swept(X), UNCHANGED locked, NoneLost
  PROVE  AccountInv'
<1>1. pool' = pool \ X /\ open' = open \ X
  BY DEF Swept
<1>2. Used' = Used
  <2>1. \A d \in Callers : caller'[d].with = caller[d].with
    BY DEF AfcInv, AfcTypeOK
  <2> QED BY <2>1 DEF Used
<1>3. Stray' \subseteq Stray
  BY <1>1, <1>2 DEF Stray
<1>4. \A d \in Callers, n \in Sessions : Holds(d, n)' => Holds(d, n) /\ caller'[d] = caller[d]
  BY SessionsArePositive DEF AfcInv, AfcTypeOK, Holds
<1>5. SlotInv'
  BY <1>1, <1>4 DEF AccountInv, SlotInv
<1> QED BY <1>1, <1>3, <1>5, PoolShrinks, StillAccounted DEF AccountInv

\* Only callers at work with a session hold one.
LEMMA Held ==
  ASSUME AfcInv, NEW c \in Callers
  PROVE  /\ caller[c].at \notin SlotStates \cup ReaderStates => caller[c].with = NoSession
         /\ caller[c].with \in Sessions => Holds(c, caller[c].with)
BY DEF AfcInv, AfcTypeOK, CallerStates, HoldInv, SlotStates, ReaderStates, Holds

\* A caller takes the session n.
LEMMA TakesSessionAccounted ==
  ASSUME AfcInv, AccountInv, NEW c \in Callers, NEW n \in Sessions, NEW at \in {"using", "reading"},
         NEW pooled \in BOOLEAN, Becomes(c, at, n, pooled), caller[c].with = NoSession,
         open' \subseteq open \cup {n}, open' \ pool' \subseteq (open \ pool) \cup {n},
         pool' \subseteq pool \cup {n}, pool' \subseteq open', n \in open',
         locked' \subseteq locked \cup {n}, \A d \in Callers : ~Holds(d, n),
         NoneLost, Cardinality(pool') <= PoolSize,
         at = "using" => (pooled <=> n \in pool')
  PROVE  AccountInv'
<1> DEFINE q == [at |-> at, with |-> n, pooled |-> pooled]
<1>1. caller' = [caller EXCEPT ![c] = q] /\ q.with = n /\ q.at = at /\ q.pooled = pooled
  BY DEF Becomes
<1> HIDE DEF q
<1>2. caller'[c] = q /\ \A d \in Callers \ {c} : caller'[d] = caller[d]
  BY <1>1 DEF AfcInv, AfcTypeOK
<1>3. n \in Used' /\ \A m \in Sessions : m \in Used => m \in Used'
  BY <1>1, <1>2, SessionsArePositive DEF Used
<1>4. Stray' \subseteq Stray
  BY <1>3 DEF Stray, AfcInv, AfcTypeOK, AccountInv
<1>5. ASSUME NEW d \in Callers, NEW m \in Sessions, Holds(d, m)', caller'[d].at \in SlotStates
      PROVE  IF caller'[d].pooled THEN m \in pool' \/ m \notin open' ELSE m \notin pool'
  <2>1. CASE d = c
    BY <1>1, <1>2, <1>5, <2>1 DEF Holds, SlotStates
  <2>2. CASE d # c
    <3>1. Holds(d, m) /\ caller'[d] = caller[d] /\ m # n
      BY <1>2, <1>5, <2>2 DEF Holds
    <3> QED BY <1>5, <3>1 DEF AccountInv, SlotInv
  <2> QED BY <2>1, <2>2
<1>6. SlotInv'
  BY <1>5 DEF SlotInv
<1>7. pool' \subseteq open' /\ open' \subseteq Sessions
  BY DEF AccountInv
<1> QED BY <1>4, <1>6, <1>7, StillAccounted

\* A caller lets go of its session n, and drops the sessions X.
LEMMA LeavesSessionAccounted ==
  ASSUME AfcInv, AccountInv, NEW c \in Callers, NEW n \in Sessions, Holds(c, n),
         caller' = [caller EXCEPT ![c] = Idle],
         open' \subseteq open, open' \ pool' \subseteq open \ pool,
         pool' \subseteq pool, pool' \subseteq open',
         locked' \in {locked, locked \ {n}},
         \/ OneLost
         \/ NoneLost /\ (n \in open' => n \in pool' /\ n \notin locked')
  PROVE  AccountInv'
<1>1. Idle.with = NoSession /\ caller'[c] = Idle /\ \A d \in Callers \ {c} : caller'[d] = caller[d]
  BY IdleIsState DEF AfcInv, AfcTypeOK
<1>2. \A m \in Sessions : m \in Used => m \in Used' \/ m = n
  BY <1>1 DEF Used, Holds
<1>3. Stray' \subseteq Stray \cup {n}
  BY <1>2 DEF Stray, AfcInv, AfcTypeOK, AccountInv
<1>4. NoneLost => n \notin Stray'
  <2>1. lost \in Nat /\ pending \in Nat
    BY DEF AccountInv
  <2>2. ~(NoneLost /\ OneLost)
    BY <2>1 DEF NoneLost, OneLost
  <2>3. NoneLost => (n \in open' => n \in pool' /\ n \notin locked')
    BY <2>2
  <2> QED BY <2>3 DEF Stray, AccountInv
<1>5. \A d \in Callers, m \in Sessions : Holds(d, m)' => Holds(d, m) /\ caller'[d] = caller[d]
  BY <1>1, SessionsArePositive DEF AfcInv, AfcTypeOK, Holds
<1>6. SlotInv'
  BY <1>5 DEF AccountInv, SlotInv
<1>7. pool' \subseteq open' /\ open' \subseteq Sessions /\ lost \in Nat
  BY DEF AccountInv
<1>8. NoneLost => Stray' \subseteq Stray
  BY <1>3, <1>4
<1> QED BY <1>3, <1>6, <1>7, <1>8, PoolShrinks, StillAccounted

\* Every step counts what it loses.
LEMMA NextIsAccounted == AfcInv /\ AccountInv /\ [AfcNext]_afcVars => AccountInv'
<1> SUFFICES ASSUME AfcInv, AccountInv, [AfcNext]_afcVars PROVE AccountInv'
  OBVIOUS
<1>0. lost \in Nat /\ pending \in Nat /\ (UNCHANGED <<lost, pending>> => NoneLost)
  BY DEF AccountInv, NoneLost
<1>1. ASSUME NEW X \in SUBSET pool, Swept(X), UNCHANGED <<locked, caller>>, NoneLost PROVE AccountInv'
  <2>1. Used' = Used /\ Stray' \subseteq Stray
    BY <1>1 DEF Swept, Used, Stray
  <2>2. SlotInv'
    BY <1>1 DEF Swept, SlotInv, AccountInv, Holds
  <2> QED BY <1>1, <2>1, <2>2, PoolShrinks, StillAccounted DEF Swept, AccountInv
<1>2. CASE DropAllSlots
  BY <1>0, <1>1, <1>2 DEF DropAllSlots, Swept
<1>3. ASSUME UNCHANGED <<pool, open, locked, caller>>, NoneLost PROVE AccountInv'
  <2>1. Swept({})
    BY <1>3 DEF Swept
  <2> QED BY <1>1, <1>3, <2>1
<1>4. CASE TrustAges \/ (\E n \in Sessions : ThreadReturns(n)) \/ UNCHANGED afcVars
  BY <1>0, <1>3, <1>4 DEF TrustAges, ThreadReturns, sessionsVars, afcVars
<1>5. ASSUME NEW c \in Callers, NEW X \in SUBSET pool, AcquireSlot(c, X) PROVE AccountInv'
  <2>0. caller[c].with = NoSession /\ pool' = pool \ X /\ open' = open \ X /\ Cardinality(pool') <= PoolSize
    BY <1>5, Held, PoolShrinks DEF AcquireSlot, Swept, SlotStates, ReaderStates
  <2>1. ASSUME NEW n \in pool', n \notin locked, Becomes(c, "using", n, TRUE), locked' = locked \cup {n}
        PROVE  AccountInv'
    <3>1. n \in Sessions /\ n \in open /\ \A d \in Callers : ~Holds(d, n)
      BY <2>0, <2>1 DEF AfcInv, AfcTypeOK, HoldInv, AccountInv
    <3>2. pool' \subseteq open' /\ open' \ pool' \subseteq open \ pool /\ NoneLost /\ n \in open'
      BY <1>0, <1>5, <2>0, <3>1 DEF AcquireSlot, AccountInv
    <3> QED BY <2>0, <2>1, <3>1, <3>2, TakesSessionAccounted
  <2>2. CASE /\ Becomes(c, "connecting", NoSession, Cardinality(pool') < PoolSize)
             /\ UNCHANGED <<locked, threads>>
    <3> DEFINE q == [at |-> "connecting", with |-> NoSession, pooled |-> Cardinality(pool') < PoolSize]
    <3>1. q \in CallerStates /\ q.with = NoSession
      BY DEF CallerStates
    <3>2. caller' = [caller EXCEPT ![c] = q]
      BY <2>2 DEF Becomes
    <3> HIDE DEF q
    <3> QED BY <1>0, <1>5, <2>0, <2>2, <3>1, <3>2, WithoutSessionAccounted DEF AcquireSlot
  <2> QED BY <1>5, <2>1, <2>2 DEF AcquireSlot
<1>6. ASSUME NEW c \in Callers, NEW n \in Sessions, Connected(c, n) PROVE AccountInv'
  <2>1. /\ caller[c].with = NoSession /\ n \notin open \cup pool /\ \A d \in Callers : ~Holds(d, n)
        /\ open' = open \cup {n} /\ locked' = locked \cup {n} /\ NoneLost
        /\ Becomes(c, "using", n, RoomIn(caller[c].pooled))
    BY <1>0, <1>6, Held DEF SlotStates, ReaderStates, Connected, NewSession, Unused
  <2>2. RoomIn(caller[c].pooled) \in BOOLEAN
    BY DEF RoomIn, AfcInv, AfcTypeOK, CallerStates
  <2>3. CASE RoomIn(caller[c].pooled)
    <3>1. pool' = pool \cup {n} /\ Cardinality(pool) < PoolSize
      BY <1>6, <2>3 DEF Connected, RoomIn
    <3>2. IsFiniteSet(pool) /\ Cardinality(pool) \in Nat
      BY SessionsAreFinite, FS_Subset, FS_CardinalityType DEF AfcInv, AfcTypeOK
    <3>3. Cardinality(pool') <= PoolSize
      <4>1. Cardinality(pool \cup {n}) = Cardinality(pool) + 1
        BY <2>1, <3>2, FS_AddElement
      <4> QED BY <3>1, <3>2, <4>1, AfcAssumption
    <3>4. pool' \subseteq open' /\ open' \ pool' \subseteq (open \ pool) \cup {n}
      BY <2>1, <3>1 DEF AccountInv
    <3> QED BY <2>1, <2>2, <2>3, <3>1, <3>3, <3>4, TakesSessionAccounted
  <2>4. CASE ~RoomIn(caller[c].pooled)
    <3>1. pool' = pool /\ Cardinality(pool') <= PoolSize
      BY <1>6, <2>4, PoolShrinks DEF Connected
    <3>2. pool' \subseteq open' /\ open' \ pool' \subseteq (open \ pool) \cup {n}
      BY <2>1, <3>1 DEF AccountInv
    <3> QED BY <2>1, <2>2, <2>4, <3>1, <3>2, TakesSessionAccounted
  <2> QED BY <2>3, <2>4
<1>7. ASSUME NEW c \in Callers, NEW n \in Sessions, OpenReader(c, n) PROVE AccountInv'
  <2>1. /\ caller[c].with = NoSession /\ n \notin open \cup pool /\ \A d \in Callers : ~Holds(d, n)
        /\ open' = open \cup {n} /\ UNCHANGED <<pool, locked, pending>>
    BY <1>7, Held DEF SlotStates, ReaderStates, OpenReader, NewSession, Unused
  <2>2. CASE Becomes(c, "reading", n, FALSE) /\ lost' = lost
    <3>1. /\ pool' \subseteq open' /\ open' \ pool' \subseteq (open \ pool) \cup {n}
          /\ Cardinality(pool') <= PoolSize
      BY <2>1, PoolShrinks DEF AccountInv
    <3> QED BY <1>0, <2>1, <2>2, <3>1, TakesSessionAccounted
  <2>3. CASE lost' = lost + 1 /\ UNCHANGED caller
    <3>1. Used' = Used /\ Stray' \subseteq Stray \cup {n}
      BY <2>1, <2>3 DEF Used, Stray
    <3>2. SlotInv'
      BY <2>1, <2>3 DEF SlotInv, AccountInv, Holds
    <3>3. OneLost
      BY <1>0, <2>1, <2>3 DEF OneLost
    <3> QED BY <2>1, <2>3, <3>1, <3>2, <3>3, PoolShrinks, StillAccounted DEF AccountInv
  <2> QED BY <1>7, <2>2, <2>3 DEF OpenReader
<1>8. ASSUME NEW c \in Callers, NEW n \in Sessions,
             \/ ReleaseSlot(c, n) \/ PhoneIsLocked(c, n) \/ OperationCancelled(c, n)
             \/ \E ended \in BOOLEAN : OperationRaises(c, n, ended) \/ CloseReader(c, n, ended)
      PROVE  AccountInv'
  <2>0. Holds(c, n) /\ caller' = [caller EXCEPT ![c] = Idle]
    BY <1>8 DEF ReleaseSlot, PhoneIsLocked, OperationCancelled, OperationRaises, CloseReader
  <2>a. pool \subseteq open
    BY DEF AccountInv
  <2>1. CASE ReleaseSlot(c, n)
    <3>1. IF caller[c].pooled THEN n \in pool \/ n \notin open ELSE n \notin pool
      BY <2>1 DEF ReleaseSlot, AccountInv, SlotInv, SlotStates
    <3>2. pool' = pool /\ open' = (IF caller[c].pooled THEN open ELSE open \ {n})
          /\ locked' = locked \ {n} /\ NoneLost
      BY <1>0, <2>1 DEF ReleaseSlot, ClosedOnRelease
    <3> QED BY <2>0, <2>a, <3>1, <3>2, LeavesSessionAccounted
  <2>2. CASE PhoneIsLocked(c, n)
    BY <1>0, <2>0, <2>a, <2>2, LeavesSessionAccounted DEF PhoneIsLocked, DropSlot
  <2>3. CASE OperationCancelled(c, n)
    <3>1. OneLost
      BY <1>0, <2>3 DEF OperationCancelled, OneLost
    <3> QED BY <2>0, <2>a, <2>3, <3>1, LeavesSessionAccounted DEF OperationCancelled
  <2>4. ASSUME NEW ended \in BOOLEAN, OperationRaises(c, n, ended) PROVE AccountInv'
    BY <1>0, <2>0, <2>a, <2>4, LeavesSessionAccounted DEF OperationRaises, DropSlot
  <2>5. ASSUME NEW ended \in BOOLEAN, CloseReader(c, n, ended) PROVE AccountInv'
    <3>1. n \notin pool
      BY <2>0, <2>5 DEF CloseReader, AfcInv, HoldInv, SlotStates
    <3> QED BY <1>0, <2>0, <2>a, <2>5, <3>1, LeavesSessionAccounted DEF CloseReader
  <2> QED BY <1>8, <2>1, <2>2, <2>3, <2>4, <2>5
<1>9. ASSUME NEW c \in Callers,
             ConnectFails(c) \/ ConnectTimesOut(c) \/ ProbeBegins(c) \/ ProbeAnswers(c) \/ ProbeTimesOut(c)
      PROVE  AccountInv'
  <2>1. caller[c].with = NoSession /\ UNCHANGED <<pool, open, locked>>
    BY <1>9, Held DEF ConnectFails, ConnectTimesOut, ProbeBegins, ProbeAnswers, ProbeTimesOut, ProbeEnds,
                      sessionsVars, SlotStates, ReaderStates
  <2>2. NoneLost
    <3>1. UNCHANGED <<lost, pending>> \/ (lost' = lost + 1 /\ pending' = pending + 1)
      BY <1>9 DEF ConnectFails, ConnectTimesOut, ProbeBegins, ProbeAnswers, ProbeTimesOut, ProbeEnds, sessionsVars
    <3> QED BY <1>0, <3>1 DEF NoneLost
  <2>3. PICK q : q.with = NoSession /\ q \in CallerStates /\ caller' = [caller EXCEPT ![c] = q]
    <3> DEFINE p == [at |-> "probing", with |-> NoSession, pooled |-> FALSE]
    <3>1. p \in CallerStates /\ p.with = NoSession
      BY DEF CallerStates
    <3>2. caller' \in {[caller EXCEPT ![c] = p], [caller EXCEPT ![c] = Idle]}
      BY <1>9 DEF ConnectFails, ConnectTimesOut, ProbeBegins, ProbeAnswers, ProbeTimesOut, ProbeEnds, Becomes
    <3> HIDE DEF p
    <3> QED BY <3>1, <3>2, IdleIsState
  <2>4. Swept({})
    BY <2>1 DEF Swept
  <2> QED BY <2>1, <2>2, <2>3, <2>4, WithoutSessionAccounted
<1>10. CASE ConnectsLate
  <2>1. pending' = pending - 1 /\ pending > 0 /\ UNCHANGED <<pool, locked, caller, lost>>
    BY <1>10 DEF ConnectsLate
  <2>2. Used' = Used /\ Cardinality(pool') <= PoolSize
    BY <2>1, PoolShrinks DEF Used
  <2>3. OneLost
    BY <1>0, <2>1 DEF OneLost
  <2>4. CASE UNCHANGED open
    <3>1. Cardinality(Stray') = Cardinality(Stray) /\ SlotInv'
      BY <2>1, <2>2, <2>4 DEF Stray, SlotInv, AccountInv, Holds
    <3>2. Cardinality(Stray) \in Nat
      <4>1. Stray \subseteq Sessions
        BY DEF AccountInv, Stray
      <4> QED BY <4>1, SessionsAreFinite, FS_Subset, FS_CardinalityType
    <3> QED BY <1>0, <2>1, <2>2, <2>4, <3>1, <3>2 DEF AccountInv
  <2>5. ASSUME NEW n \in Sessions, NewSession(n), open' = open \cup {n} PROVE AccountInv'
    <3>1. Stray' \subseteq Stray \cup {n}
      BY <2>1, <2>2, <2>5 DEF Stray
    <3>2. SlotInv'
      BY <2>1, <2>5 DEF SlotInv, AccountInv, Holds, NewSession, Unused
    <3> QED BY <2>1, <2>2, <2>3, <2>5, <3>1, <3>2, StillAccounted DEF AccountInv
  <2> QED BY <1>10, <2>4, <2>5 DEF ConnectsLate
<1>11. ASSUME NEW c \in Callers, NEW n \in Sessions,
              \/ PartialReadCloses(c, n)
              \/ \E ended \in BOOLEAN : ClosesFile(c, n, ended) \/ ClosesSession(c, n, ended)
       PROVE  AccountInv'
  <2>1. PICK at \in SlotStates \cup ReaderStates :
          /\ caller' = [caller EXCEPT ![c].at = at] /\ (at \in SlotStates => caller[c].at \in SlotStates)
          /\ UNCHANGED <<pool, locked, open, pending, lost>>
    <3>1. CASE PartialReadCloses(c, n)
      BY <3>1 DEF PartialReadCloses, SlotStates
    <3>2. ASSUME NEW ended \in BOOLEAN, ClosesFile(c, n, ended) \/ ClosesSession(c, n, ended)
          PROVE  \E at \in ReaderStates :
                   /\ caller' = [caller EXCEPT ![c].at = at]
                   /\ UNCHANGED <<pool, locked, open, pending, lost>>
      BY <3>2 DEF ClosesFile, ClosesSession, ReaderGoesOn, ReaderStates
    <3>3. ReaderStates \cap SlotStates = {}
      BY DEF ReaderStates, SlotStates
    <3> QED BY <1>11, <3>1, <3>2, <3>3
  <2>a. \A d \in Callers : /\ caller'[d].with = caller[d].with
                           /\ caller'[d].pooled = caller[d].pooled
                           /\ caller'[d].at \in SlotStates => caller[d].at \in SlotStates
    BY <2>1 DEF AfcInv, AfcTypeOK, CallerStates
  <2>2. Used' = Used
    BY <2>a DEF Used
  <2>3. Stray' = Stray
    BY <2>1, <2>2 DEF Stray
  <2>4. SlotInv'
    BY <2>1, <2>a DEF SlotInv, AccountInv, Holds
  <2> QED BY <1>0, <2>1, <2>3, <2>4 DEF AccountInv
<1> QED BY <1>2, <1>4, <1>5, <1>6, <1>7, <1>8, <1>9, <1>10, <1>11 DEF AfcNext

\* The pool holds no more than its size, and every session that is open on the
\* phone is in it or at work, every lock somebody's: as many are lost as calls
\* were cancelled or failed to open, however many callers there are.
THEOREM SessionsAreAccounted == AfcSpec => []SessionsAccounted
<1>1. AccountInv => SessionsAccounted
  <2> SUFFICES ASSUME AccountInv PROVE SessionsAccounted
    OBVIOUS
  <2>1. Stray \subseteq Sessions
    BY DEF AccountInv, Stray
  <2>2. Cardinality(Stray) \in Nat
    BY <2>1, SessionsAreFinite, FS_Subset, FS_CardinalityType
  <2>3. Cardinality(Stray) <= lost
    BY <2>2 DEF AccountInv
  <2> QED BY <2>3 DEF AccountInv, Stray, Used, SessionsAccounted
<1> QED BY InitIsSafe, NextIsSafe, InitIsAccounted, NextIsAccounted, <1>1, PTL DEF AfcSpec

-----------------------------------------------------------------------------
(* DeviceTiers.                                                            *)

Calls ==
  [kind : {"none", "list", "browse", "retry", "reset"}, at : {"idle", "listing", "trying"},
   row : [tier : Tiers \cup {Unknown}, ready : BOOLEAN], serial : {"udid", "pnp"},
   rest : Seq(Tiers), tried : SUBSET Tiers, due : SUBSET Tiers]

\* A tier that is due has been tried or comes later; a row is kept only while
\* its listing lasts.
CallInv(q) ==
  /\ q \in Calls
  /\ q.at # "listing" => q.row = NoRow
  /\ q.at = "trying" => q.due \subseteq q.tried \cup ToSet(q.rest)

TierInv ==
  /\ configured \subseteq Tiers /\ "tier1" \in configured
  /\ preferTier2 \in BOOLEAN /\ calls \in Nat
  /\ call \in [DeviceClients -> Calls] /\ \A c \in DeviceClients : CallInv(call[c])

-----------------------------------------------------------------------------
(* The order of the tiers.                                                 *)

\* The tiers of an order are its elements.
LEMMA Elements ==
  ASSUME NEW s \in Seq(Tiers)
  PROVE  \A x : x \in ToSet(s) <=> \E i \in 1 .. Len(s) : s[i] = x
<1>1. DOMAIN s = 1 .. Len(s)
  OBVIOUS
<1> QED BY <1>1 DEF ToSet

\* What two orders in a row hold.
LEMMA ElementsOfBoth ==
  ASSUME NEW s \in Seq(Tiers), NEW t \in Seq(Tiers)
  PROVE  s \o t \in Seq(Tiers) /\ ToSet(s \o t) = ToSet(s) \cup ToSet(t)
<1>1. s \o t \in Seq(Tiers) /\ Len(s \o t) = Len(s) + Len(t)
  OBVIOUS
<1>2. \A i \in 1 .. Len(s) : (s \o t)[i] = s[i]
  OBVIOUS
<1>3. \A i \in 1 .. Len(t) : (s \o t)[i + Len(s)] = t[i]
  OBVIOUS
<1>4. ASSUME NEW x \in ToSet(s \o t) PROVE x \in ToSet(s) \cup ToSet(t)
  <2>1. PICK i \in 1 .. Len(s) + Len(t) : (s \o t)[i] = x
    BY <1>1, Elements
  <2>2. CASE i <= Len(s)
    BY <1>2, <2>1, <2>2, Elements
  <2>3. CASE i > Len(s)
    <3>1. i - Len(s) \in 1 .. Len(t) /\ t[i - Len(s)] = x
      BY <2>1, <2>3
    <3> QED BY <3>1, Elements
  <2> QED BY <2>2, <2>3
<1>5. ASSUME NEW x \in ToSet(s) PROVE x \in ToSet(s \o t)
  <2>1. PICK i \in 1 .. Len(s) : s[i] = x
    BY Elements
  <2>2. i \in 1 .. Len(s \o t) /\ (s \o t)[i] = x
    BY <1>1, <1>2, <2>1
  <2> QED BY <1>1, <2>2, Elements
<1>6. ASSUME NEW x \in ToSet(t) PROVE x \in ToSet(s \o t)
  <2>1. PICK i \in 1 .. Len(t) : t[i] = x
    BY Elements
  <2>2. i + Len(s) \in 1 .. Len(s \o t) /\ (s \o t)[i + Len(s)] = x
    BY <1>1, <1>3, <2>1
  <2> QED BY <1>1, <2>2, Elements
<1> QED BY <1>1, <1>4, <1>5, <1>6

\* What an order of at most one tier holds.
LEMMA ElementsOfOne ==
  ASSUME NEW b \in Tiers, NEW taken \in BOOLEAN
  PROVE  /\ OnlyIf(b, taken) \in Seq(Tiers)
         /\ ToSet(OnlyIf(b, taken)) = IF taken THEN {b} ELSE {}
BY DEF OnlyIf, ToSet

\* An order of two, written out.
LEMMA TwoTiers ==
  ASSUME NEW a \in Tiers, NEW b \in Tiers PROVE <<a>> \o <<b>> = <<a, b>>
<1>1. <<a>> \o <<b>> \in Seq(Tiers) /\ <<a, b>> \in Seq(Tiers) /\ Len(<<a>> \o <<b>>) = Len(<<a, b>>)
  OBVIOUS
<1>2. \A i \in 1 .. Len(<<a>> \o <<b>>) : (<<a>> \o <<b>>)[i] = <<a, b>>[i]
  OBVIOUS
<1> QED BY <1>1, <1>2, SeqEqual

\* An order of three, written out.
LEMMA ThreeTiers ==
  ASSUME NEW a \in Tiers, NEW b \in Tiers, NEW c \in Tiers PROVE <<a, b>> \o <<c>> = <<a, b, c>>
<1>1. <<a, b>> \o <<c>> \in Seq(Tiers) /\ <<a, b, c>> \in Seq(Tiers) /\ Len(<<a, b>> \o <<c>>) = Len(<<a, b, c>>)
  OBVIOUS
<1>2. \A i \in 1 .. Len(<<a, b>> \o <<c>>) : (<<a, b>> \o <<c>>)[i] = <<a, b, c>>[i]
  OBVIOUS
<1> QED BY <1>1, <1>2, SeqEqual

\* Where nothing is moved to the front.
LEMMA PlainOrder ==
  ASSUME TierInv, NEW ios \in BOOLEAN, NEW want, want \notin Candidates(ios) \cap configured
  PROVE  LET D == DefaultOrder
         IN  WaterfallOrder(ios, want) =
               IF "wpd" \in Candidates(ios) THEN <<D[1], D[2], D[3]>> ELSE <<D[1], D[3]>>
<1> DEFINE D == DefaultOrder
<1>1. /\ D[1] \in {"tier1", "tier2"} /\ D[3] \in {"tier1", "tier2"} /\ D[2] = "wpd"
  BY DEF DefaultOrder
<1>2. {"tier1", "tier2"} \subseteq Candidates(ios)
  BY DEF Candidates
<1> HIDE DEF D
<1>3. WaterfallOrder(ios, want) =
        <<>> \o (<<D[1]>> \o OnlyIf("wpd", "wpd" \in Candidates(ios)) \o <<D[3]>>)
  BY <1>1, <1>2 DEF WaterfallOrder, OnlyIf, D
<1>4. CASE "wpd" \in Candidates(ios)
  <2>1. WaterfallOrder(ios, want) = <<>> \o <<D[1], D[2], D[3]>>
    <3>1. OnlyIf("wpd", "wpd" \in Candidates(ios)) = <<"wpd">>
      BY <1>4 DEF OnlyIf
    <3>2. <<D[1]>> \o <<"wpd">> \o <<D[3]>> = <<D[1], D[2], D[3]>>
      BY <1>1, TwoTiers, ThreeTiers DEF Tiers
    <3> QED BY <1>3, <3>1, <3>2
  <2>2. <<D[1], D[2], D[3]>> \in Seq(Tiers)
    BY <1>1 DEF Tiers
  <2> QED BY <1>4, <2>1, <2>2, ConcatEmptySeq DEF D
<1>5. CASE "wpd" \notin Candidates(ios)
  <2>1. WaterfallOrder(ios, want) = <<>> \o (<<D[1]>> \o <<>> \o <<D[3]>>)
    BY <1>3, <1>5 DEF OnlyIf
  <2>2. <<D[1]>> \in Seq(Tiers) /\ <<D[1], D[3]>> \in Seq(Tiers)
    BY <1>1 DEF Tiers
  <2>3. <<D[1]>> \o <<>> = <<D[1]>> /\ <<>> \o <<D[1], D[3]>> = <<D[1], D[3]>>
    BY <2>2, ConcatEmptySeq
  <2>4. <<D[1]>> \o <<D[3]>> = <<D[1], D[3]>>
    BY <1>1, TwoTiers DEF Tiers
  <2> QED BY <1>5, <2>1, <2>3, <2>4 DEF D
<1> QED BY <1>4, <1>5

\* Where "want" is moved there.
LEMMA MovedOrder ==
  ASSUME TierInv, NEW ios \in BOOLEAN, NEW want \in Candidates(ios) \cap configured
  PROVE  LET order == WaterfallOrder(ios, want)
         IN  /\ order \in Seq(Tiers) /\ Len(order) >= 1 /\ order[1] = want
             /\ \A i \in 2 .. Len(order) : order[i] # want
             /\ ToSet(order) = Candidates(ios)
<1> DEFINE D == DefaultOrder
           Rest(i) == OnlyIf(D[i], D[i] \in Candidates(ios) /\ D[i] # want)
           R == Rest(1) \o Rest(2) \o Rest(3)
<1>0. Candidates(ios) \subseteq Tiers /\ want \in Tiers
  BY DEF Candidates, TierInv, Tiers
<1>1. Tiers = {D[1], D[2], D[3]}
  BY DEF DefaultOrder, Tiers
<1>2. WaterfallOrder(ios, want) = <<want>> \o R
  BY DEF WaterfallOrder, OnlyIf
<1> HIDE DEF D
<1>3. \A i \in 1 .. 3 : /\ Rest(i) \in Seq(Tiers)
                        /\ ToSet(Rest(i)) = IF D[i] \in Candidates(ios) /\ D[i] # want THEN {D[i]} ELSE {}
  <2> SUFFICES ASSUME NEW i \in 1 .. 3
               PROVE  /\ Rest(i) \in Seq(Tiers)
                      /\ ToSet(Rest(i)) = IF D[i] \in Candidates(ios) /\ D[i] # want THEN {D[i]} ELSE {}
    OBVIOUS
  <2>1. D[i] \in Tiers
    BY <1>1
  <2> QED BY <2>1, ElementsOfOne
<1> HIDE DEF Rest
<1>4. R \in Seq(Tiers) /\ ToSet(R) = ToSet(Rest(1)) \cup ToSet(Rest(2)) \cup ToSet(Rest(3))
  <2>1. Rest(1) \o Rest(2) \in Seq(Tiers) /\ ToSet(Rest(1) \o Rest(2)) = ToSet(Rest(1)) \cup ToSet(Rest(2))
    BY <1>3, ElementsOfBoth
  <2>2. Rest(3) \in Seq(Tiers)
    BY <1>3
  <2> DEFINE P == Rest(1) \o Rest(2)
  <2> HIDE DEF P
  <2>3. P \o Rest(3) \in Seq(Tiers) /\ ToSet(P \o Rest(3)) = ToSet(P) \cup ToSet(Rest(3))
    BY <2>1, <2>2, ElementsOfBoth DEF P
  <2> QED BY <2>1, <2>3 DEF P
<1>5. ToSet(R) = Candidates(ios) \ {want}
  BY <1>0, <1>1, <1>3, <1>4
<1> HIDE DEF R
<1>6. <<want>> \in Seq(Tiers) /\ ToSet(<<want>>) = {want}
  BY <1>0 DEF ToSet
<1>7. <<want>> \o R \in Seq(Tiers) /\ ToSet(<<want>> \o R) = Candidates(ios)
  <2>1. <<want>> \o R \in Seq(Tiers) /\ ToSet(<<want>> \o R) = ToSet(<<want>>) \cup ToSet(R)
    BY <1>4, <1>6, ElementsOfBoth
  <2> QED BY <1>5, <1>6, <2>1
<1>8. /\ Len(<<want>> \o R) = 1 + Len(R) /\ (<<want>> \o R)[1] = want
      /\ \A i \in 2 .. 1 + Len(R) : (<<want>> \o R)[i] = R[i - 1]
  BY <1>4, <1>6
<1>9. \A i \in 1 .. Len(R) : R[i] # want
  BY <1>4, <1>5, Elements
<1> QED BY <1>2, <1>4, <1>7, <1>8, <1>9

\* What follows the tier that is asked first holds the others that are due,
\* when none of them comes before it.
LEMMA ChainHolds ==
  ASSUME NEW order \in Seq(Tiers), NEW k \in 1 .. Len(order), NEW S,
         \A i \in 1 .. Len(order) : order[i] = order[k] => i = k,
         S \subseteq ToSet(order), \A j \in 1 .. k - 1 : order[j] \notin S
  PROVE  LET rest == <<order[k]>> \o FallbackChain(order[k], order)
         IN  rest \in Seq(Tiers) /\ S \cup {order[k]} \subseteq ToSet(rest)
<1> DEFINE first == order[k]
           chain == SubSeq(order, 1 + k, Len(order))
<1>1. Contains(order, first)
  BY DEF Contains
<1>2. (CHOOSE i \in 1 .. Len(order) : order[i] = first) = k
  OBVIOUS
<1>3. FallbackChain(first, order) = chain
  BY <1>1, <1>2 DEF FallbackChain
<1>4. /\ chain \in Seq(Tiers) /\ Len(chain) = Len(order) - k
      /\ \A i \in 1 .. Len(order) - k : chain[i] = order[i + k]
  OBVIOUS
<1>5. ASSUME NEW b \in S, b # first PROVE b \in ToSet(chain)
  <2>1. PICK j \in 1 .. Len(order) : b = order[j]
    BY Elements
  <2>2. j > k
    BY <1>5, <2>1
  <2>3. j - k \in 1 .. Len(chain) /\ chain[j - k] = b
    BY <1>4, <2>1, <2>2
  <2> QED BY <1>4, <2>3, Elements
<1> HIDE DEF chain
<1>6. <<first>> \in Seq(Tiers) /\ ToSet(<<first>>) = {first}
  BY DEF ToSet
<1>7. <<first>> \o chain \in Seq(Tiers) /\ ToSet(<<first>> \o chain) = {first} \cup ToSet(chain)
  BY <1>4, <1>6, ElementsOfBoth
<1> QED BY <1>3, <1>5, <1>7

\* A tier that can be asked is found.
LEMMA FirstIsFound ==
  ASSUME NEW order \in Seq(Tiers), Len(order) \in {2, 3}, NEW S, S \cap ToSet(order) # {}
  PROVE  \E k \in 1 .. Len(order) : /\ FirstOf(order, S) = order[k] /\ order[k] \in S
                                    /\ \A j \in 1 .. k - 1 : order[j] \notin S
<1> DEFINE First(i) == order[i] \in S /\ \A j \in 1 .. i - 1 : order[j] \notin S
<1>1. \E i \in 1 .. Len(order) : First(i)
  <2>1. PICK i \in 1 .. Len(order) : order[i] \in S
    BY DEF ToSet
  <2>2. CASE order[1] \in S
    BY <2>2
  <2>3. CASE order[1] \notin S /\ order[2] \in S
    BY <2>3
  <2>4. CASE order[1] \notin S /\ order[2] \notin S
    <3>1. i = 3 /\ Len(order) = 3
      BY <2>1, <2>4
    <3> QED BY <2>1, <2>4, <3>1
  <2> QED BY <2>2, <2>3, <2>4
<1>2. First(CHOOSE i \in 1 .. Len(order) : First(i)) /\ (CHOOSE i \in 1 .. Len(order) : First(i)) \in 1 .. Len(order)
  BY <1>1
<1> QED BY <1>2 DEF FirstOf

\* A request is to go through all the tiers that are due.
LEMMA OperationIsComplete ==
  ASSUME TierInv, NEW q \in Calls, NEW serial \in {"udid", "pnp"}, NEW want
  PROVE  CallInv(Operation(q, serial, want))
<1> DEFINE U == Usable(serial)
           ios == IsIos(serial)
           first == ResolveBackend(serial, want)
           order == WaterfallOrder(ios, want)
           rest == <<first>> \o FallbackChain(first, order)
           due == IF first = want THEN U ELSE U \ PutBefore(first)
<1>u. U = Candidates(ios) \cap configured /\ ios \in BOOLEAN /\ "tier1" \in U /\ U \subseteq Tiers
  BY DEF Usable, IsIos, Candidates, TierInv
<1>1. rest \in Seq(Tiers) /\ due \subseteq ToSet(rest) /\ due \subseteq Tiers
  <2>1. CASE want \in U
    <3>1. first = want
      BY <2>1 DEF ResolveBackend
    <3>2. /\ order \in Seq(Tiers) /\ Len(order) >= 1 /\ order[1] = want
          /\ \A i \in 2 .. Len(order) : order[i] # want
          /\ ToSet(order) = Candidates(ios)
      BY <1>u, <2>1, MovedOrder
    <3>3. due = U
      BY <3>1
    <3>4. 1 \in 1 .. Len(order) /\ \A i \in 1 .. Len(order) : order[i] = order[1] => i = 1
      BY <3>2
    <3>5. U \subseteq ToSet(order) /\ \A j \in 1 .. 1 - 1 : order[j] \notin U
      BY <1>u, <3>2
    <3> HIDE DEF first, order, U, ios
    <3>6. LET r == <<order[1]>> \o FallbackChain(order[1], order) 
          IN  r \in Seq(Tiers) /\ U \cup {order[1]} \subseteq ToSet(r)
      BY <3>2, <3>4, <3>5, ChainHolds
    <3> QED BY <1>u, <3>1, <3>2, <3>3, <3>6
  <2>2. CASE want \notin U
    <3>1. order = IF "wpd" \in Candidates(ios)
                  THEN <<DefaultOrder[1], DefaultOrder[2], DefaultOrder[3]>> ELSE <<DefaultOrder[1], DefaultOrder[3]>>
      BY <1>u, <2>2, PlainOrder
    <3>2. /\ order \in Seq(Tiers) /\ Len(order) \in {2, 3}
          /\ \A i, k \in 1 .. Len(order) : order[i] = order[k] => i = k
          /\ Candidates(ios) \subseteq ToSet(order)
      <4> DEFINE a == DefaultOrder[1]
                 b == DefaultOrder[3]
      <4>1. a \in Tiers /\ b \in Tiers /\ DefaultOrder[2] = "wpd" /\ "wpd" \in Tiers /\ a # b /\ a # "wpd" /\ b # "wpd"
            /\ Tiers = {a, "wpd", b}
        BY DEF DefaultOrder, Tiers
      <4>2. Candidates(ios) \subseteq Tiers
        BY DEF Candidates, Tiers
      <4> HIDE DEF a, b, ios
      <4>3. CASE "wpd" \in Candidates(ios)
        <5>1. order = <<a, "wpd", b>>
          BY <3>1, <4>1, <4>3 DEF a, b
        <5> HIDE DEF order
        <5>2. ToSet(order) = {a, "wpd", b}
          BY <5>1, <4>1 DEF ToSet
        <5> QED BY <4>1, <4>2, <5>1, <5>2
      <4>4. CASE "wpd" \notin Candidates(ios)
        <5>1. order = <<a, b>>
          BY <3>1, <4>4 DEF a, b
        <5> HIDE DEF order
        <5>2. ToSet(order) = {a, b}
          BY <5>1, <4>1 DEF ToSet
        <5> QED BY <4>1, <4>2, <4>4, <5>1, <5>2
      <4> QED BY <4>3, <4>4
    <3>3. order = WaterfallOrder(ios, "auto")
      <4>1. Candidates(ios) = Candidates(ios)
        BY DEF Candidates
      <4>2. "auto" \notin Candidates(ios) \cap configured
        BY DEF Candidates
      <4> QED BY <1>u, <3>1, <4>1, <4>2, PlainOrder
    <3>4. U \subseteq ToSet(order)
      BY <1>u, <3>2
    <3>5. PICK k \in 1 .. Len(order) : order[k] = first /\ order[k] \in U
      <4>1. CASE hint \in U
        <5>1. first = hint
          BY <2>2, <4>1 DEF ResolveBackend
        <5> QED BY <3>4, <4>1, <5>1 DEF ToSet
      <4>2. CASE hint \notin U
        <5>1. first = FirstOf(order, U)
          BY <2>2, <3>3, <4>2 DEF ResolveBackend
        <5> HIDE DEF first, order, U, ios
        <5> QED BY <1>u, <3>2, <3>4, <5>1, FirstIsFound
      <4> QED BY <4>1, <4>2
    <3>6. \A j \in 1 .. k - 1 : order[j] \in PutBefore(order[k])
      <4>1. \A i \in 1 .. 3 : DefaultOrder[i] \in Tiers
        BY DEF DefaultOrder, Tiers
      <4>2. ASSUME NEW j \in 1 .. k - 1
            PROVE  \E i, l \in 1 .. 3 : i < l /\ DefaultOrder[i] = order[j] /\ DefaultOrder[l] = order[k]
        <5>1. CASE "wpd" \in Candidates(ios)
          <6>1. Len(order) = 3 /\ order[1] = DefaultOrder[1] /\ order[2] = DefaultOrder[2] /\ order[3] = DefaultOrder[3]
            BY <3>1, <5>1
          <6> HIDE DEF order
          <6> QED BY <4>2, <6>1
        <5>2. CASE "wpd" \notin Candidates(ios)
          <6>1. Len(order) = 2 /\ order[1] = DefaultOrder[1] /\ order[2] = DefaultOrder[3]
            BY <3>1, <5>2
          <6> HIDE DEF order
          <6>2. k = 2 /\ j = 1
            BY <4>2, <6>1
          <6> QED BY <6>1, <6>2
        <5> QED BY <5>1, <5>2
      <4> QED BY <4>1, <4>2 DEF PutBefore
    <3>7. due = U \ PutBefore(order[k])
      BY <2>2, <3>5
    <3> HIDE DEF first, order, U, ios, due
    <3>8. due \subseteq ToSet(order) /\ due \subseteq Tiers /\ \A j \in 1 .. k - 1 : order[j] \notin due
      BY <1>u, <3>4, <3>6, <3>7
    <3>9. LET r == <<order[k]>> \o FallbackChain(order[k], order) 
          IN  r \in Seq(Tiers) /\ due \cup {order[k]} \subseteq ToSet(r)
      BY <3>2, <3>8, ChainHolds
    <3> QED BY <3>5, <3>8, <3>9
  <2> QED BY <2>1, <2>2
<1> DEFINE o == Operation(q, serial, want)
<1>2. o = [q EXCEPT !.at = "trying", !.row = NoRow, !.serial = serial, !.tried = {}, !.rest = rest, !.due = due]
  BY DEF Operation
<1> HIDE DEF rest, due, o
<1>3. o \in Calls /\ o.at = "trying" /\ o.row = NoRow /\ o.due = due /\ o.rest = rest
  BY <1>1, <1>2 DEF Calls, NoRow, Unknown
<1> QED BY <1>1, <1>3 DEF CallInv, o

-----------------------------------------------------------------------------
(* Requests.                                                               *)

\* Who has no request under way waits for no tier.
LEMMA RestingIsCall ==
  /\ CallInv(NoCall) /\ NoCall.at = "idle"
  /\ \A k \in {"list", "browse", "retry", "reset"} : CallInv(Poll(k)) /\ Poll(k).at = "listing"
<1>1. NoRow \in [tier : Tiers \cup {Unknown}, ready : BOOLEAN] /\ <<>> \in Seq(Tiers)
  BY DEF NoRow
<1>2. CallInv(NoCall) /\ NoCall.at = "idle"
  BY <1>1 DEF NoCall, CallInv, Calls
<1>3. ASSUME NEW k \in {"list", "browse", "retry", "reset"}
      PROVE  CallInv(Poll(k)) /\ Poll(k).at = "listing"
  BY <1>1 DEF NoCall, Poll, CallInv, Calls
<1> QED BY <1>2, <1>3

\* At first there are no requests.
LEMMA InitIsDue == TierInit => TierInv
<1> SUFFICES ASSUME TierInit PROVE TierInv
  OBVIOUS
<1>1. call = [c \in DeviceClients |-> NoCall] /\ configured = {"tier1"} /\ preferTier2 = FALSE /\ calls = 0
  BY DEF TierInit
<1>2. NoCall \in Calls
  BY RestingIsCall DEF CallInv
<1> QED BY <1>1, <1>2, RestingIsCall DEF TierInv, Tiers

\* One request goes on; nothing else concerns the tiers that are due.
LEMMA CallGoesOn ==
  ASSUME TierInv, NEW c \in DeviceClients, NEW q, CallInv(q), call' = [call EXCEPT ![c] = q],
         calls' \in {calls, calls + 1}, UNCHANGED <<configured, preferTier2>>
  PROVE  TierInv'
<1>1. q \in Calls
  BY DEF CallInv
<1>2. call' \in [DeviceClients -> Calls] /\ \A d \in DeviceClients : CallInv(call'[d])
  BY <1>1 DEF TierInv
<1>3. \A d \in DeviceClients : CallInv(call[d])' <=> CallInv(call'[d])
  BY DEF CallInv
<1> QED BY <1>2, <1>3 DEF TierInv

\* A listing goes on to its end.
LEMMA ListingGoesOn ==
  ASSUME TierInv, NEW c \in DeviceClients, NEW others \in BOOLEAN, ListingEnds(c, others)
  PROVE  TierInv'
<1>1. call[c] \in Calls /\ UNCHANGED <<configured, preferTier2, calls>>
  BY DEF TierInv, ListingEnds, settings
<1>2. CASE call' = [call EXCEPT ![c] = NoCall]
  BY <1>1, <1>2, RestingIsCall, CallGoesOn
<1>3. ASSUME NEW serial \in {"udid", "pnp"}, NEW want,
             call' = [call EXCEPT ![c] = Operation(@, serial, want)]
      PROVE  TierInv'
  <2>1. CallInv(Operation(call[c], serial, want))
    BY <1>1, OperationIsComplete
  <2>2. call' = [call EXCEPT ![c] = Operation(call[c], serial, want)]
    BY <1>3 DEF TierInv
  <2> QED BY <1>1, <2>1, <2>2, CallGoesOn
<1> QED BY <1>2, <1>3 DEF ListingEnds, AfterListing

\* A tier that failed leaves the tiers after it.
LEMMA NextTier ==
  ASSUME TierInv, NEW c \in DeviceClients, NEW t \in Tiers, TierFails(c, t)
  PROVE  TierInv'
<1> DEFINE q == [call[c] EXCEPT !.rest = Tail(@), !.tried = @ \cup {t}]
<1>1. call[c] \in Calls /\ CallInv(call[c]) /\ call[c].at = "trying" /\ call[c].rest # <<>> /\ t = Head(call[c].rest)
  BY DEF TierInv, TierFails, Trying
<1>2. call' = [call EXCEPT ![c] = q]
  BY DEF TierInv, TierFails
<1>3. /\ q \in Calls /\ q.at = "trying" /\ q.row = call[c].row /\ q.due = call[c].due
      /\ q.rest = Tail(call[c].rest) /\ q.tried = call[c].tried \cup {t} /\ call[c].rest \in Seq(Tiers)
  <2>1. call[c].rest \in Seq(Tiers) /\ Tail(call[c].rest) \in Seq(Tiers)
    BY <1>1 DEF Calls
  <2> QED BY <1>1, <2>1 DEF Calls
<1> HIDE DEF q
<1>4. ToSet(call[c].rest) \subseteq ToSet(q.rest) \cup {t}
  <2>1. /\ q.rest \in Seq(Tiers) /\ Len(q.rest) = Len(call[c].rest) - 1 /\ t = call[c].rest[1]
        /\ \A i \in 1 .. Len(q.rest) : q.rest[i] = call[c].rest[i + 1]
    BY <1>1, <1>3
  <2>2. ASSUME NEW x \in ToSet(call[c].rest), x # t PROVE x \in ToSet(q.rest)
    <3>1. PICK i \in 1 .. Len(call[c].rest) : call[c].rest[i] = x
      BY <1>3, Elements
    <3>2. i - 1 \in 1 .. Len(q.rest) /\ q.rest[i - 1] = x
      BY <1>3, <2>1, <2>2, <3>1
    <3> QED BY <2>1, <3>2, Elements
  <2> QED BY <2>2
<1>5. CallInv(q)
  BY <1>1, <1>3, <1>4 DEF CallInv
<1> QED BY <1>2, <1>5, CallGoesOn DEF TierFails, settings

\* Every step leaves a request the tiers that are due.
LEMMA NextIsDue == TierInv /\ [TierNext]_tierVars => TierInv'
<1> SUFFICES ASSUME TierInv, [TierNext]_tierVars PROVE TierInv'
  OBVIOUS
<1> USE RestingIsCall
<1>1. ASSUME NEW c \in DeviceClients, NEW k \in {"list", "browse", "retry"}, RequestArrives(c, k)
      PROVE  TierInv'
  BY <1>1, CallGoesOn DEF RequestArrives, Accepted, settings
<1>2. ASSUME NEW c \in DeviceClients, NEW t \in Tiers, NEW ready \in BOOLEAN, TierListsPhone(c, t, ready)
      PROVE  TierInv'
  <2> DEFINE q == [call[c] EXCEPT !.row = [tier |-> t, ready |-> ready]]
  <2>1. call' = [call EXCEPT ![c] = q] /\ call[c].at = "listing"
    BY <1>2 DEF TierListsPhone
  <2>2. CallInv(q)
    <3>1. call[c] \in Calls /\ [tier |-> t, ready |-> ready] \in [tier : Tiers \cup {Unknown}, ready : BOOLEAN]
      BY DEF TierInv
    <3> QED BY <2>1, <3>1 DEF CallInv, Calls
  <2> HIDE DEF q
  <2> QED BY <1>2, <2>1, <2>2, CallGoesOn DEF TierListsPhone, settings
<1>3. ASSUME NEW c \in DeviceClients, NEW t \in Tiers, TierServes(c, t) \/ TierIsTerminal(c, t) PROVE TierInv'
  BY <1>3, CallGoesOn DEF TierServes, TierIsTerminal, settings
<1>4. ASSUME NEW c \in DeviceClients, OperationFails(c) \/ RetryFails(c) PROVE TierInv'
  <2>1. PICK q \in {NoCall, Poll("reset")} : call' = [call EXCEPT ![c] = q]
    BY <1>4 DEF OperationFails, RetryFails
  <2> QED BY <1>4, <2>1, CallGoesOn DEF OperationFails, RetryFails, settings
<1>5. ASSUME \/ \E t \in Tiers \cup {"auto"} : SetUserTier(t)
             \/ \E t \in Tiers : TierIsFound(t)
             \/ \E b \in BOOLEAN : PreferTier2(b)
             \/ ResetSetup \/ UNCHANGED tierVars
      PROVE  TierInv'
  <2>1. UNCHANGED call /\ calls' \in {calls, calls + 1} /\ configured \subseteq configured'
        /\ configured' \subseteq Tiers /\ preferTier2' \in BOOLEAN
    BY <1>5 DEF SetUserTier, TierIsFound, PreferTier2, ResetSetup, Accepted, tierVars, settings, TierInv
  <2> QED BY <2>1 DEF TierInv, CallInv
<1>6. CASE DeviceEngineRestarts
  <2>1. call' = [c \in DeviceClients |-> NoCall] /\ configured' = {"tier1"} /\ preferTier2' = FALSE /\ calls' = calls + 1
    BY <1>6 DEF DeviceEngineRestarts, Accepted
  <2>2. NoCall \in Calls /\ CallInv(NoCall)
    BY DEF CallInv
  <2>3. call' \in [DeviceClients -> Calls] /\ \A c \in DeviceClients : CallInv(call'[c])
    BY <2>1, <2>2
  <2>4. calls' \in Nat
    <3>1. calls \in Nat
      BY DEF TierInv
    <3> QED BY <2>1, <3>1
  <2>5. configured' \subseteq Tiers /\ "tier1" \in configured' /\ preferTier2' \in BOOLEAN
    BY <2>1 DEF Tiers
  <2> QED BY <2>3, <2>4, <2>5 DEF TierInv, CallInv
<1> QED BY <1>1, <1>2, <1>3, <1>4, <1>5, <1>6, ListingGoesOn, NextTier DEF TierNext, Requests

\* "The remaining tiers are always tried as fallback": an operation that has no
\* tier left to ask has asked all that were due, however settings, hints and
\* tiers changed while it was under way.
THEOREM FailsOnlyAfterAllTiers == TierSpec => []FailsAfterAllTiers
<1>1. TierInv => FailsAfterAllTiers
  <2> SUFFICES ASSUME TierInv, NEW c \in DeviceClients, Exhausted(c) PROVE call[c].due \subseteq call[c].tried
    BY DEF FailsAfterAllTiers
  <2>1. CallInv(call[c]) /\ call[c].at = "trying" /\ call[c].rest = <<>>
    BY DEF TierInv, Exhausted
  <2>2. ToSet(call[c].rest) = {}
    BY <2>1 DEF ToSet
  <2> QED BY <2>1, <2>2 DEF CallInv
<1> QED BY InitIsDue, NextIsDue, <1>1, PTL DEF TierSpec

\* A listing whose row is there goes on until ListingEnds, unless the engine
\* restarts.
LEMMA OnlyItsEndEnds ==
  ASSUME TierInv, [TierNext]_tierVars, NEW c \in DeviceClients,
         call[c].row # NoRow, call'[c].at # "listing", calls' = calls
  PROVE  \E others \in BOOLEAN : ListingEnds(c, others)
<1>1. call[c].at = "listing" /\ call \in [DeviceClients -> Calls] /\ calls \in Nat
  BY DEF TierInv, CallInv
<1>2. call' # call
  BY <1>1
<1>3. ASSUME NEW d \in DeviceClients, NEW q, call' = [call EXCEPT ![d] = q] PROVE d = c
  BY <1>1, <1>3
<1>4. ASSUME NEW d \in DeviceClients, NEW t \in Tiers, NEW ready \in BOOLEAN, TierListsPhone(d, t, ready) PROVE FALSE
  BY <1>1, <1>4, <1>3 DEF TierListsPhone
<1>5. ASSUME NEW d \in DeviceClients, NEW k, RequestArrives(d, k) PROVE FALSE
  BY <1>1, <1>5 DEF RequestArrives, Accepted
<1>6. ASSUME NEW d \in DeviceClients, NEW t \in Tiers, TierFails(d, t) \/ TierServes(d, t) \/ TierIsTerminal(d, t) PROVE FALSE
  <2>1. d # c
    BY <1>1, <1>6 DEF TierFails, TierServes, TierIsTerminal, Trying
  <2> QED BY <1>1, <1>6, <2>1 DEF TierFails, TierServes, TierIsTerminal
<1>7. ASSUME NEW d \in DeviceClients, OperationFails(d) \/ RetryFails(d) PROVE FALSE
  <2>1. d # c
    BY <1>1, <1>7 DEF OperationFails, RetryFails, Exhausted
  <2> QED BY <1>1, <1>7, <2>1 DEF OperationFails, RetryFails
<1>8. ASSUME NEW d \in DeviceClients, NEW others \in BOOLEAN, ListingEnds(d, others) PROVE d = c
  BY <1>1, <1>8 DEF ListingEnds, AfterListing
<1>9. ~DeviceEngineRestarts
  BY <1>1 DEF DeviceEngineRestarts, Accepted
<1>10. ~(\/ \E t \in Tiers \cup {"auto"} : SetUserTier(t)
         \/ \E t \in Tiers : TierIsFound(t)
         \/ \E b \in BOOLEAN : PreferTier2(b)
         \/ ResetSetup \/ UNCHANGED tierVars)
  BY <1>2 DEF SetUserTier, TierIsFound, PreferTier2, ResetSetup, tierVars
<1> QED BY <1>4, <1>5, <1>6, <1>7, <1>8, <1>9, <1>10 DEF TierNext, Requests

\* "A persisted WPD preference must not keep routing at WPD": whatever other
\* requests have written meanwhile, a listing that saw the phone ready on the
\* Apple driver leaves neither map nor hint at WPD.
THEOREM DriverIsUsedAgain == TierSpec => RecoveredDriverIsUsed
<1> DEFINE Back(c) == /\ call[c].row = [tier |-> "tier1", ready |-> TRUE]
                      /\ call'[c].at # "listing" /\ calls' = calls
                      => "wpd" \notin {tierMap', hint', savedHint'}
<1>1. TierInv /\ [TierNext]_tierVars => [\A c \in DeviceClients : Back(c)]_tierVars
  <2> SUFFICES ASSUME TierInv, [TierNext]_tierVars, NEW c \in DeviceClients,
                      call[c].row = [tier |-> "tier1", ready |-> TRUE],
                      call'[c].at # "listing", calls' = calls
               PROVE  "wpd" \notin {tierMap', hint', savedHint'}
    OBVIOUS
  <2>1. call[c].row # NoRow
    BY DEF NoRow, Unknown
  <2>2. PICK others \in BOOLEAN : ListingEnds(c, others)
    BY <2>1, OnlyItsEndEnds
  <2>3. Demoted(call[c].row)
    BY DEF Demoted
  <2>4. \A t : (IF Demoted(call[c].row) /\ t = "wpd" THEN "tier1" ELSE t) # "wpd"
    BY <2>3
  <2> QED BY <2>1, <2>2, <2>3, <2>4 DEF ListingEnds
<1> QED BY InitIsDue, NextIsDue, <1>1, PTL DEF TierSpec, RecoveredDriverIsUsed
=============================================================================
