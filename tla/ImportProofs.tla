---------------------------- MODULE ImportProofs -----------------------------
(*****************************************************************************)
(* For any number of files and sessions, and any dates: an incremental scan  *)
(* passes over no file that was not imported (ImportCutoff).  For any number *)
(* of viewers, of sort orders and of files that come: a transfer that reuses *)
(* a listing reuses a fresh one (PreviewListing).  For any number of         *)
(* requests, of versions of the file, and any sizes: a thumbnail on disk is  *)
(* not older than its listing, and what is refused cannot be decoded         *)
(* (DeviceThumbs).                                                           *)
(*****************************************************************************)
EXTENDS ImportCutoff, PreviewListing, DeviceThumbs, FiniteSetTheorems,
        WellFoundedInduction, TLAPS

(* ImportCutoff.                                                           *)

ImportStates ==
  [at : {"none", "running", "ended", "settled"}, items : SUBSET Files,
   done : SUBSET Files, created : Nat, chosen : BOOLEAN]

CutoffTypeOK ==
  /\ now \in Nat /\ cutoff \in Nat /\ imported \subseteq Files
  /\ device = {f \in Files : Mtime[f] < now}
  /\ import \in [Imports -> ImportStates]

DoneInv ==
  \A s \in Imports :
    /\ import[s].done \subseteq imported
    /\ import[s].at # "none" => import[s].items # {}

\* The files whose two clocks agree, as far as the code relies on them.
Trusted(f) == Taken[f] # NoDate /\ Taken[f] <= Mtime[f]

\* What a session has found is older than the session, and what it has not
\* found, and nobody has imported, is not.
ScanOf(s) ==
  /\ \A f \in import[s].items : Mtime[f] < import[s].created
  /\ \A f \in Files \ (imported \cup import[s].items) :
       Trusted(f) => Mtime[f] >= import[s].created

ScanInv ==
  excused = {} =>
    \A s \in Imports : import[s].at # "none" /\ ~import[s].chosen => ScanOf(s)

\* No cutoff lies in the future, so that it spares what is still to come.
ClockInv ==
  /\ \A s \in Imports : import[s].created <= now
  /\ excused = {} => cutoff <= now

CutoffInv == CutoffTypeOK /\ DoneInv /\ ScanInv /\ ClockInv /\ NonePassedOver

-----------------------------------------------------------------------------
(* The oldest and the newest date.                                         *)

LEMMA LeastNatural ==
  ASSUME NEW S \in SUBSET Nat, S # {}
  PROVE  \E m \in S : \A k \in S : m <= k
<1> DEFINE Less == {p \in Nat \X Nat : p[1] < p[2]}
<1>1. IsWellFoundedOn(Less, Nat)
  BY NatLessThanWellFounded, Zenon DEF OpToRel
<1>2. \A k, n \in Nat : k < n => <<k, n>> \in Less
  OBVIOUS
<1> HIDE DEF Less
<1>3. PICK m \in S : \A k \in S : <<k, m>> \notin Less
  BY <1>1, WFMin
<1>4. SUFFICES ASSUME NEW k \in S PROVE m <= k
  OBVIOUS
<1>5. k \in Nat /\ m \in Nat /\ ~(k < m)
  BY <1>2, <1>3
<1> QED BY <1>5

LEMMA FiniteIsBounded ==
  ASSUME NEW F, IsFiniteSet(F), NEW date \in [F -> Nat]
  PROVE  \E b \in Nat : \A f \in F : date[f] <= b
<1>1. PICK n \in Nat : ExistsBijection(1 .. n, F)
  BY FS_NatBijection
<1>2. PICK g \in [1 .. n -> F] : \A f \in F : \E i \in 1 .. n : g[i] = f
  BY <1>1 DEF ExistsBijection, Bijection, Surjection
<1> DEFINE Bounded(k) == \E b \in Nat : \A i \in 1 .. k : date[g[i]] <= b
<1> DEFINE T == {k \in 1 .. n : ~Bounded(k)}
<1>3. ASSUME T # {} PROVE FALSE
  <2>1. PICK k \in T : \A j \in T : k <= j
    <3>1. T \in SUBSET Nat
      OBVIOUS
    <3> HIDE DEF T
    <3> QED BY <1>3, <3>1, LeastNatural
  <2>2. k \in 1 .. n /\ ~Bounded(k)
    BY <2>1
  <2>3. Bounded(k - 1)
    <3>1. CASE k = 1
      BY <3>1
    <3>2. CASE k # 1
      <4>1. k - 1 \in 1 .. n /\ ~(k <= k - 1)
        BY <2>2, <3>2
      <4>2. k - 1 \notin T
        BY <2>1, <4>1
      <4> QED BY <4>1, <4>2
    <3> QED BY <3>1, <3>2
  <2>4. PICK b \in Nat : \A i \in 1 .. k - 1 : date[g[i]] <= b
    BY <2>3
  <2>5. date[g[k]] \in Nat
    BY <1>2, <2>2
  <2>6. PICK c \in Nat : b <= c /\ date[g[k]] <= c
    <3>1. CASE b <= date[g[k]]
      BY <2>5, <3>1
    <3>2. CASE date[g[k]] <= b
      BY <2>5, <3>2
    <3> QED BY <2>5, <3>1, <3>2
  <2>7. \A i \in 1 .. k : date[g[i]] <= c
    <3> SUFFICES ASSUME NEW i \in 1 .. k PROVE date[g[i]] <= c
      OBVIOUS
    <3>1. CASE i = k
      BY <2>6, <3>1
    <3>2. CASE i # k
      <4>1. i \in 1 .. k - 1 /\ date[g[i]] \in Nat
        BY <1>2, <2>2, <3>2
      <4> QED BY <2>4, <2>6, <4>1
    <3> QED BY <3>1, <3>2
  <2> QED BY <2>2, <2>7
<1>4. Bounded(n)
  <2>1. CASE n = 0
    <3>1. 1 .. n = {} /\ 0 \in Nat
      BY <2>1
    <3> QED BY <3>1
  <2>2. CASE n # 0
    <3>1. n \in 1 .. n
      BY <2>2
    <3> QED BY <1>3, <3>1
  <2> QED BY <2>1, <2>2
<1> QED BY <1>2, <1>4

LEMMA GreatestNatural ==
  ASSUME NEW S \in SUBSET Nat, S # {}, NEW b \in Nat, \A k \in S : k <= b
  PROVE  \E m \in S : \A k \in S : k <= m
<1> DEFINE R == {b - k : k \in S}
<1>1. R \in SUBSET Nat /\ R # {}
  <2>1. ASSUME NEW k \in S PROVE b - k \in Nat
    <3>1. k \in Nat /\ k <= b
      OBVIOUS
    <3> QED BY <3>1
  <2> QED BY <2>1
<1>2. \E r \in R : \A q \in R : r <= q
  <2> HIDE DEF R
  <2> QED BY <1>1, LeastNatural
<1>3. PICK m \in S : \A k \in S : b - m <= b - k
  BY <1>2
<1>4. ASSUME NEW k \in S PROVE k <= m
  <2>1. k \in Nat /\ m \in Nat /\ b - m <= b - k
    BY <1>3
  <2> QED BY <2>1
<1> QED BY <1>4

\* What compute_cutoff_from_session looks up is a date of one of the files.
LEMMA OldestIsADate ==
  ASSUME NEW F \in SUBSET Files, OldestOf(F) # NoDate
  PROVE  /\ \E f \in F : Taken[f] = OldestOf(F)
         /\ \A f \in F : Taken[f] # NoDate => OldestOf(F) <= Taken[f]
<1> DEFINE D == {Taken[f] : f \in Dated(F)}
<1>1. Dated(F) # {} /\ D \in SUBSET Nat /\ D # {}
  BY CutoffAssumption DEF OldestOf, Dated
<1>2. \E t \in D : \A u \in D : t <= u
  BY <1>1, LeastNatural
<1>3. \E t \in D : \A f \in Dated(F) : t <= Taken[f]
  BY <1>2
<1>4. OldestOf(F) \in D /\ \A f \in Dated(F) : OldestOf(F) <= Taken[f]
  BY <1>1, <1>3 DEF OldestOf
<1> QED BY <1>4 DEF Dated

LEMMA LatestIsADate ==
  ASSUME NEW F \in SUBSET Files, F # {}, LatestOf(F) # NoDate
  PROVE  /\ \E f \in F : Taken[f] = LatestOf(F)
         /\ \A f \in F : Taken[f] # NoDate
<1> DEFINE D == {Taken[f] : f \in F}
<1>1. Dated(F) = F /\ D \in SUBSET Nat /\ D # {}
  BY CutoffAssumption DEF LatestOf
<1>2. PICK b \in Nat : \A f \in Files : Taken[f] <= b
  BY FiniteIsBounded, CutoffAssumption
<1>3. \A t \in D : t <= b
  BY <1>2
<1>4. \E t \in D : \A u \in D : u <= t
  BY <1>1, <1>3, GreatestNatural
<1>5. \E t \in D : \A f \in F : Taken[f] <= t
  BY <1>4
<1>6. LatestOf(F) \in D
  BY <1>1, <1>5 DEF LatestOf
<1> QED BY <1>1, <1>6 DEF Dated

-----------------------------------------------------------------------------

LEMMA InitCutoff == CutoffInit => CutoffInv
<1> SUFFICES ASSUME CutoffInit PROVE CutoffInv
  OBVIOUS
<1>1. \A f \in Files : ~(Mtime[f] < 0)
  BY CutoffAssumption
<1>2. CutoffTypeOK
  BY <1>1 DEF CutoffInit, CutoffTypeOK, ImportStates, NoImport
<1>3. DoneInv /\ ScanInv /\ ClockInv
  BY DEF CutoffInit, DoneInv, ScanInv, ClockInv, NoImport
<1>4. NonePassedOver
  BY DEF CutoffInit, NonePassedOver
<1> QED BY <1>2, <1>3, <1>4 DEF CutoffInv

\* A step that stores no cutoff and begins no scan.
LEMMA NoNewCutoff ==
  ASSUME CutoffInv, UNCHANGED <<excused, now, device>>, cutoff' \in {cutoff, 0},
         imported \subseteq imported', imported' \subseteq Files, DoneInv',
         import' \in [Imports -> ImportStates],
         \A s \in Imports :
           /\ import'[s].at # "none" => import[s].at # "none"
           /\ import'[s].items = import[s].items /\ import'[s].created = import[s].created
           /\ import'[s].chosen = import[s].chosen
  PROVE  CutoffInv'
<1>1. CutoffTypeOK'
  BY DEF CutoffInv, CutoffTypeOK
<1>2. ScanInv'
  BY DEF CutoffInv, ScanInv, ScanOf
<1>3. ClockInv'
  BY DEF CutoffInv, CutoffTypeOK, ClockInv
<1>4. NonePassedOver'
  BY CutoffAssumption DEF CutoffInv, CutoffTypeOK, NonePassedOver, Passes, CutoffOf
<1> QED BY <1>1, <1>2, <1>3, <1>4 DEF CutoffInv

LEMMA DeviceGrowsSafely ==
  ASSUME CutoffInv, DeviceGrows
  PROVE  CutoffInv'
<1> USE DEF DeviceGrows
<1>1. now \in Nat /\ cutoff \in Nat /\ \A f \in Files : Mtime[f] \in Nat
  BY CutoffAssumption DEF CutoffInv, CutoffTypeOK
<1>2. CutoffTypeOK'
  BY <1>1 DEF CutoffInv, CutoffTypeOK
<1>3. DoneInv' /\ ScanInv'
  BY DEF CutoffInv, DoneInv, ScanInv, ScanOf, Trusted
<1>4. ClockInv'
  BY <1>1 DEF CutoffInv, CutoffTypeOK, ClockInv, ImportStates
<1>5. NonePassedOver'
  <2> SUFFICES ASSUME excused = {}, NEW f \in device' \ imported, Trusted(f)
               PROVE  cutoff = 0 \/ cutoff - Overlap = 0 \/ Mtime[f] > cutoff - Overlap
    BY DEF NonePassedOver, Passes, CutoffOf, Trusted
  <2>1. CASE f \in device
    <3>1. Passes(f, CutoffOf(TRUE), FALSE, {})
      BY <2>1 DEF CutoffInv, NonePassedOver, Trusted
    <3> QED BY <1>1, <3>1, CutoffAssumption DEF Passes, CutoffOf
  <2>2. CASE f \notin device
    <3>1. f \in Files /\ ~(Mtime[f] < now)
      BY <2>2 DEF CutoffInv, CutoffTypeOK
    <3>2. cutoff <= now
      BY DEF CutoffInv, ClockInv
    <3> QED BY <1>1, <3>1, <3>2, CutoffAssumption
  <2> QED BY <2>1, <2>2
<1> QED BY <1>2, <1>3, <1>4, <1>5 DEF CutoffInv

LEMMA ScanIsSafe ==
  ASSUME CutoffInv, NEW s \in Imports, NEW only_new \in BOOLEAN, NEW chosen \in BOOLEAN,
         NEW S \in SUBSET Files, ScanDevice(s, only_new, chosen, S)
  PROVE  CutoffInv'
<1> DEFINE items == {f \in device : Passes(f, CutoffOf(only_new), chosen, S)}
<1> DEFINE q == [at |-> "running", items |-> items, done |-> {}, created |-> now, chosen |-> chosen]
<1>1. items # {} /\ import' = [import EXCEPT ![s] = q]
      /\ UNCHANGED <<device, imported, cutoff, now, excused>>
  BY DEF ScanDevice
<1>2. items \subseteq device /\ device \subseteq Files /\ now \in Nat
  BY DEF CutoffInv, CutoffTypeOK
<1>3. q \in ImportStates
  BY <1>2 DEF ImportStates
<1>4. CutoffTypeOK'
  BY <1>1, <1>3 DEF CutoffInv, CutoffTypeOK
<1>5. DoneInv' /\ ClockInv'
  BY <1>1, <1>2 DEF CutoffInv, CutoffTypeOK, DoneInv, ClockInv
<1>6. ASSUME excused = {}, ~chosen PROVE ScanOf(s)'
  <2>1. import'[s].items = items /\ import'[s].created = now
    BY <1>1 DEF CutoffInv, CutoffTypeOK
  <2>2. \A f \in items : Mtime[f] < now
    BY <1>2 DEF CutoffInv, CutoffTypeOK
  <2>3. ASSUME NEW f \in Files \ (imported \cup items), Trusted(f) PROVE Mtime[f] >= now
    <3>1. f \notin device
      BY <1>6, <2>3 DEF CutoffInv, NonePassedOver, Trusted, Passes, CutoffOf
    <3>2. ~(Mtime[f] < now)
      BY <3>1 DEF CutoffInv, CutoffTypeOK
    <3> QED BY <1>2, <3>2, CutoffAssumption
  <2> HIDE DEF items
  <2> QED BY <1>1, <2>1, <2>2, <2>3 DEF ScanOf, Trusted
<1>7. ScanInv'
  <2> HIDE DEF items
  <2> SUFFICES ASSUME excused = {}, NEW r \in Imports, import'[r].at # "none", ~import'[r].chosen
               PROVE  ScanOf(r)'
    BY <1>1 DEF ScanInv
  <2>1. CASE r = s
    BY <1>1, <1>6, <2>1 DEF CutoffInv, CutoffTypeOK
  <2>2. CASE r # s
    BY <1>1, <2>2 DEF CutoffInv, CutoffTypeOK, ScanInv, ScanOf, Trusted
  <2> QED BY <2>1, <2>2
<1>8. NonePassedOver'
  BY <1>1 DEF CutoffInv, NonePassedOver, Passes, CutoffOf
<1> QED BY <1>4, <1>5, <1>7, <1>8 DEF CutoffInv

LEMMA FinalizeIsSafe ==
  ASSUME CutoffInv, NEW s \in Imports, NEW S \in SUBSET Files, FinalizeImport(s, S)
  PROVE  CutoffInv'
<1> DEFINE q == [import[s] EXCEPT !.at = IF S = {} THEN "settled" ELSE "ended", !.done = S]
<1>0. /\ import' = [import EXCEPT ![s] = q] /\ q \in ImportStates
      /\ q.done = S /\ q.items = import[s].items /\ import[s].items # {}
  BY DEF FinalizeImport, CutoffInv, CutoffTypeOK, ImportStates, DoneInv
<1>1. import' \in [Imports -> ImportStates] /\ DoneInv'
  <2> HIDE DEF q
  <2>1. import' \in [Imports -> ImportStates]
    BY <1>0 DEF CutoffInv, CutoffTypeOK
  <2>2. imported' = imported \cup S
    BY DEF FinalizeImport
  <2> QED BY <1>0, <2>1, <2>2 DEF CutoffInv, CutoffTypeOK, DoneInv
<1>2. \A r \in Imports :
        /\ import'[r].at # "none" => import[r].at # "none"
        /\ import'[r].items = import[r].items /\ import'[r].created = import[r].created
        /\ import'[r].chosen = import[r].chosen
  BY DEF FinalizeImport, CutoffInv, CutoffTypeOK, ImportStates
<1> QED BY <1>1, <1>2, NoNewCutoff DEF FinalizeImport, CutoffInv, CutoffTypeOK

LEMMA NotStoredIsSafe ==
  ASSUME CutoffInv, NEW s \in Imports, CutoffIsNotStored(s)
  PROVE  CutoffInv'
<1>1. import' \in [Imports -> ImportStates] /\ DoneInv'
  BY DEF CutoffIsNotStored, CutoffInv, CutoffTypeOK, ImportStates, DoneInv
<1>2. \A r \in Imports :
        /\ import'[r].at # "none" => import[r].at # "none"
        /\ import'[r].items = import[r].items /\ import'[r].created = import[r].created
        /\ import'[r].chosen = import[r].chosen
  BY DEF CutoffIsNotStored, CutoffInv, CutoffTypeOK, ImportStates
<1> QED BY <1>1, <1>2, NoNewCutoff DEF CutoffIsNotStored, CutoffInv, CutoffTypeOK

LEMMA ClearIsSafe ==
  ASSUME CutoffInv, ClearDeviceState
  PROVE  CutoffInv'
BY NoNewCutoff DEF ClearDeviceState, CutoffInv, CutoffTypeOK, DoneInv

\* The cutoff that a session computes from dates lies before the session, and
\* not after any file of it that did not complete.
LEMMA CutoffOfDates ==
  ASSUME CutoffInv, NEW s \in Imports, ScanOf(s), import[s].items # {},
         DateOfCutoff(s) # NoDate,
         ~ \E f \in Files : Mtime[f] < Taken[f] /\ Taken[f] = DateOfCutoff(s)
  PROVE  /\ DateOfCutoff(s) \in Nat /\ DateOfCutoff(s) < import[s].created
         /\ \A f \in Failed(s) : Taken[f] # NoDate => DateOfCutoff(s) <= Taken[f]
<1>1. import[s].items \subseteq Files /\ import[s].created \in Nat
  BY DEF CutoffInv, CutoffTypeOK, ImportStates
<1>2. Failed(s) \in SUBSET import[s].items
  BY DEF Failed
<1>3. \E f \in import[s].items : Taken[f] = DateOfCutoff(s)
  <2>1. CASE Failed(s) # {}
    BY <1>1, <1>2, <2>1, OldestIsADate DEF DateOfCutoff
  <2>2. CASE Failed(s) = {}
    BY <1>1, <2>2, LatestIsADate DEF DateOfCutoff
  <2> QED BY <2>1, <2>2
<1>4. PICK f \in import[s].items : Taken[f] = DateOfCutoff(s)
  BY <1>3
<1>5. f \in Files /\ Taken[f] \in Nat /\ Mtime[f] \in Nat /\ Mtime[f] < import[s].created
  BY <1>1, CutoffAssumption DEF ScanOf
<1>6. ~(Mtime[f] < Taken[f])
  BY <1>4, <1>5
<1>7. ASSUME NEW g \in Failed(s), Taken[g] # NoDate PROVE DateOfCutoff(s) <= Taken[g]
  BY <1>1, <1>2, <1>7, OldestIsADate DEF DateOfCutoff
<1> QED BY <1>1, <1>4, <1>5, <1>6, <1>7

LEMMA UpdateIsSafe ==
  ASSUME CutoffInv, NEW s \in Imports, UpdateCutoff(s)
  PROVE  CutoffInv'
<1>1. /\ import[s].at = "ended" /\ import' = [import EXCEPT ![s].at = "settled"]
      /\ cutoff' = IF DateOfCutoff(s) = NoDate THEN Fallback(s) ELSE DateOfCutoff(s)
      /\ UNCHANGED <<device, imported, now>>
  BY DEF UpdateCutoff
<1>2. excused' = {} => /\ excused = {} /\ ~import[s].chosen /\ DateOfCutoff(s) # NoDate
                       /\ ~ \E f \in Files : Mtime[f] < Taken[f] /\ Taken[f] = DateOfCutoff(s)
  BY DEF UpdateCutoff
<1>3. \A r \in Imports :
        /\ import'[r].at # "none" => import[r].at # "none"
        /\ import'[r].items = import[r].items /\ import'[r].created = import[r].created
        /\ import'[r].chosen = import[r].chosen /\ import'[r].done = import[r].done
  BY <1>1 DEF CutoffInv, CutoffTypeOK, ImportStates
<1>4. cutoff' \in Nat
  <2>1. /\ Failed(s) \in SUBSET Files /\ import[s].items \in SUBSET Files
        /\ import[s].items # {}
    BY <1>1 DEF Failed, CutoffInv, CutoffTypeOK, ImportStates, DoneInv
  <2>2. Fallback(s) \in Nat
    BY DEF Fallback, CutoffInv, CutoffTypeOK, ImportStates
  <2>3. CASE Failed(s) # {} /\ DateOfCutoff(s) # NoDate
    BY <1>1, <2>1, <2>3, OldestIsADate, CutoffAssumption DEF DateOfCutoff
  <2>4. CASE Failed(s) = {} /\ DateOfCutoff(s) # NoDate
    BY <1>1, <2>1, <2>4, LatestIsADate, CutoffAssumption DEF DateOfCutoff
  <2> QED BY <1>1, <2>2, <2>3, <2>4
<1>5. CutoffTypeOK'
  BY <1>1, <1>4 DEF CutoffInv, CutoffTypeOK, ImportStates
<1>6. DoneInv'
  BY <1>1, <1>3 DEF CutoffInv, DoneInv
<1>7. ScanInv'
  BY <1>1, <1>2, <1>3 DEF CutoffInv, ScanInv, ScanOf
<1>8. ASSUME excused' = {}
      PROVE  /\ ScanOf(s) /\ cutoff' < import[s].created
             /\ \A f \in Failed(s) : Taken[f] # NoDate => cutoff' <= Taken[f]
  <2>1. ScanOf(s)
    BY <1>1, <1>2, <1>8 DEF CutoffInv, ScanInv
  <2>2. import[s].items # {}
    BY <1>1 DEF CutoffInv, DoneInv
  <2> QED BY <1>1, <1>2, <1>8, <2>1, <2>2, CutoffOfDates
<1>9. ClockInv'
  BY <1>1, <1>3, <1>4, <1>8 DEF CutoffInv, CutoffTypeOK, ImportStates, ClockInv
<1>10. NonePassedOver'
  <2> SUFFICES ASSUME excused' = {}, NEW f \in device \ imported, Trusted(f)
               PROVE  Mtime[f] > cutoff' - Overlap
    BY <1>1 DEF NonePassedOver, Passes, CutoffOf, Trusted
  <2>1. f \in Files /\ Mtime[f] \in Nat /\ Taken[f] \in Nat /\ import[s].created \in Nat
    BY CutoffAssumption DEF CutoffInv, CutoffTypeOK, ImportStates
  <2>2. CASE f \in import[s].items
    <3>1. f \in Failed(s)
      BY <2>2 DEF Failed, CutoffInv, DoneInv
    <3>2. cutoff' <= Taken[f] /\ Taken[f] <= Mtime[f]
      BY <1>8, <3>1 DEF Trusted
    <3> QED BY <1>4, <2>1, <3>2, CutoffAssumption
  <2>3. CASE f \notin import[s].items
    <3>1. Mtime[f] >= import[s].created /\ cutoff' < import[s].created
      BY <1>8, <2>1, <2>3 DEF ScanOf
    <3> QED BY <1>4, <2>1, <3>1, CutoffAssumption
  <2> QED BY <2>2, <2>3
<1> QED BY <1>5, <1>6, <1>7, <1>9, <1>10 DEF CutoffInv

LEMMA NextCutoff == CutoffInv /\ [CutoffNext]_cutoffVars => CutoffInv'
<1> SUFFICES ASSUME CutoffInv, [CutoffNext]_cutoffVars PROVE CutoffInv'
  OBVIOUS
<1>1. CASE DeviceGrows
  BY <1>1, DeviceGrowsSafely
<1>2. CASE ClearDeviceState
  BY <1>2, ClearIsSafe
<1>3. ASSUME NEW s \in Imports, NEW only_new \in BOOLEAN, ScanDevice(s, only_new, FALSE, {})
      PROVE  CutoffInv'
  <2>1. {} \in SUBSET Files /\ FALSE \in BOOLEAN
    OBVIOUS
  <2> QED BY <1>3, <2>1, ScanIsSafe
<1>4. ASSUME NEW s \in Imports, NEW only_new \in BOOLEAN, NEW S \in SUBSET Files \ {{}},
             ScanDevice(s, only_new, TRUE, S)
      PROVE  CutoffInv'
  <2>1. S \in SUBSET Files /\ TRUE \in BOOLEAN
    OBVIOUS
  <2> QED BY <1>4, <2>1, ScanIsSafe
<1>5. ASSUME NEW s \in Imports, NEW S \in SUBSET Files, FinalizeImport(s, S)
      PROVE  CutoffInv'
  BY <1>5, FinalizeIsSafe
<1>6. ASSUME NEW s \in Imports, UpdateCutoff(s) \/ CutoffIsNotStored(s)
      PROVE  CutoffInv'
  BY <1>6, UpdateIsSafe, NotStoredIsSafe
<1>7. CASE UNCHANGED cutoffVars
  BY <1>7
  DEF cutoffVars, CutoffInv, CutoffTypeOK, DoneInv, ScanInv, ScanOf, ClockInv,
      NonePassedOver, Passes, CutoffOf
<1> QED BY <1>1, <1>2, <1>3, <1>4, <1>5, <1>6, <1>7 DEF CutoffNext

\* "Never advance past a file that failed": whatever sessions overlap, fail, are
\* resumed and finalized again, the next incremental scan takes up every file
\* that nobody has imported, up to the exceptions NonePassedOver names.
THEOREM NothingIsPassedOver == CutoffSpec => []NonePassedOver
<1>1. CutoffInv => NonePassedOver
  BY DEF CutoffInv
<1> QED BY InitCutoff, NextCutoff, <1>1, PTL DEF CutoffSpec

-----------------------------------------------------------------------------
(* PreviewListing.                                                         *)

Items   == [top : Int, nested : Int, moved : BOOLEAN]
Entries == [snap : Int, items : Items]
Walks   == [at : {"idle", "listing", "snapshot", "walking", "resnap"},
            sort : Sorts \cup {"none"}, items : Items]
Reuses  == [at : {"none", "created", "reused"}, id : Int, how : {"none", "compared", "unchecked"},
            items : Items, top : Int]

\* A listing that is filed under a snapshot was walked when the top folder
\* looked like that, unless the phone changed in between.
Fits(items, snap) == snap = NoSnap \/ items = Nothing \/ items.moved \/ items.top = snap
CacheInv ==
  /\ memory \in [Sorts -> Entries] /\ disk \in [Sorts -> Entries]
  /\ \A s \in Sorts : /\ Fits(memory[s].items, memory[s].snap)
                      /\ Fits(disk[s].items, disk[s].snap)

\* A walk that waits for its snapshot knows whether it was overtaken.
UpToDate(w)  == w.at = "resnap" => w.items.moved \/ w.items.top = top
ViewerInv    == viewer \in [Viewers -> Walks] /\ \A v \in Viewers : UpToDate(viewer[v])
RefresherInv == refresher \in [Sorts -> Walks] /\ \A s \in Sorts : UpToDate(refresher[s])

PhoneInv == top \in Int /\ nested \in Int
ReuseInv == reuse \in Reuses /\ ReuseIsFresh

ListInv == PhoneInv /\ CacheInv /\ ViewerInv /\ RefresherInv /\ ReuseInv

\* At first there is no listing.
LEMMA InitIsFresh == ListInit => ListInv
BY DEF ListInit, ListInv, PhoneInv, CacheInv, ViewerInv, RefresherInv, ReuseInv, ReuseIsFresh,
       Fits, UpToDate, NoEntry, Nothing, Quiet, NoReuse, NoSnap, Items, Entries, Walks, Reuses

\* No walk is an up-to-date walk.
LEMMA QuietIsUpToDate == Quiet \in Walks /\ UpToDate(Quiet) /\ UpToDate(Quiet)' /\ Nothing \in Items
BY DEF Quiet, Walks, UpToDate, Nothing, Items, NoSnap

\* What is stored fits the snapshot that it is stored under.
LEMMA StoreFits ==
  ASSUME CacheInv, NEW s, NEW items \in Items, NEW snap \in Int, Fits(items, snap),
         Store(s, items, snap)
  PROVE  CacheInv'
BY DEF CacheInv, Store, StoreOnDisk, Entries

\* A purged cache fits.
LEMMA PurgeFits ==
  ASSUME CacheInv,
         memory' = [s \in Sorts |-> memory'[s]], disk' = [s \in Sorts |-> disk'[s]],
         \A s \in Sorts : memory'[s] \in {memory[s], NoEntry} /\ disk'[s] \in {disk[s], NoEntry}
  PROVE  CacheInv'
<1>1. NoEntry \in Entries /\ Fits(NoEntry.items, NoEntry.snap)
  BY DEF NoEntry, Nothing, NoSnap, Entries, Items, Fits
<1> QED BY <1>1 DEF CacheInv

\* One viewer goes on, with a walk that is up to date.
LEMMA ViewerGoesOn ==
  ASSUME ViewerInv, NEW v \in Viewers, NEW w \in Walks, UpToDate(w), UNCHANGED top,
         viewer' = [viewer EXCEPT ![v] = w]
  PROVE  ViewerInv'
BY DEF ViewerInv, UpToDate

\* The refresh goes on, with a walk that is up to date.
LEMMA RefresherGoesOn ==
  ASSUME RefresherInv, NEW s \in Sorts, NEW w \in Walks, UpToDate(w), UNCHANGED top,
         refresher' = [refresher EXCEPT ![s] = w]
  PROVE  RefresherInv'
BY DEF RefresherInv, UpToDate

\* A walk that has ended and is up to date fits the snapshot that is taken now.
LEMMA WalkFits ==
  ASSUME PhoneInv, NEW w \in Walks, UpToDate(w), w.at = "resnap", NEW snap \in Browsed
  PROVE  snap \in Int /\ w.items \in Items /\ Fits(w.items, snap)
BY DEF PhoneInv, Browsed, NoSnap, Walks, UpToDate, Fits

\* A walk that ends has what the phone has.
LEMMA WalkEnds ==
  ASSUME PhoneInv, NEW w \in Walks
  PROVE  LET e == [w EXCEPT !.at = "resnap", !.items = Walked] IN e \in Walks /\ UpToDate(e)
BY DEF PhoneInv, Walked, Walks, Items, UpToDate

\* A walk that has ended stays up to date.
LEMMA WalkGoesOn ==
  ASSUME NEW w \in Walks, NEW at \in {"idle", "listing", "snapshot", "walking"}
  PROVE  LET e == [w EXCEPT !.at = at] IN e \in Walks /\ UpToDate(e)
BY DEF Walks, UpToDate

\* The phone and the transfer are as they were.
LEMMA RestIsSame ==
  /\ UNCHANGED phoneVars => (PhoneInv => PhoneInv') /\ UNCHANGED top
  /\ UNCHANGED cacheVars => (CacheInv => CacheInv')
  /\ UNCHANGED reuse => (ReuseInv => ReuseInv')
  /\ UNCHANGED <<viewer, top>> => (ViewerInv => ViewerInv')
  /\ UNCHANGED <<refresher, top>> => (RefresherInv => RefresherInv')
BY DEF phoneVars, cacheVars, PhoneInv, CacheInv, ReuseInv, ReuseIsFresh, ViewerInv, RefresherInv,
       UpToDate

\* Previews store what fits.
LEMMA ViewersKeepFresh ==
  ASSUME ListInv, NEW v \in Viewers,
         \/ PreviewWalks(v) \/ WalkFails(v)
         \/ \E s \in Sorts : PreviewHit(v, s) \/ PreviewMiss(v, s)
         \/ \E snap \in Versions \cup {NoSnap} : PreviewSnapshot(v, snap) \/ PreviewStores(v, snap)
  PROVE  ListInv'
<1> USE RestIsSame, QuietIsUpToDate DEF ListInv
<1>w. viewer[v] \in Walks /\ UpToDate(viewer[v])
  BY DEF ViewerInv
<1>1. CASE PreviewWalks(v) \/ WalkFails(v)
  <2> DEFINE w == [viewer[v] EXCEPT !.at = "resnap", !.items = Walked]
  <2>1. w \in Walks /\ UpToDate(w)
    BY <1>w, WalkEnds
  <2>2. viewer' \in {[viewer EXCEPT ![v] = w], [viewer EXCEPT ![v] = Quiet]}
    BY <1>1 DEF PreviewWalks, WalkFails
  <2> HIDE DEF w
  <2> QED BY <1>1, <2>1, <2>2, ViewerGoesOn DEF PreviewWalks, WalkFails, phoneVars
<1>2. ASSUME NEW s \in Sorts, PreviewHit(v, s) PROVE ListInv'
  <2> DEFINE w == [refresher[s] EXCEPT !.at = "listing"]
  <2>1. w \in Walks /\ UpToDate(w)
    BY WalkGoesOn DEF RefresherInv
  <2>2. refresher' = [refresher EXCEPT ![s] = w]
    BY <1>2 DEF PreviewHit
  <2> HIDE DEF w
  <2> QED BY <1>2, <2>1, <2>2, RefresherGoesOn DEF PreviewHit, phoneVars
<1>3. ASSUME NEW s \in Sorts, PreviewMiss(v, s) PROVE ListInv'
  <2> DEFINE w == [at |-> "snapshot", sort |-> s, items |-> Nothing]
  <2>1. w \in Walks /\ UpToDate(w)
    BY DEF Walks, UpToDate
  <2>2. viewer' = [viewer EXCEPT ![v] = w]
    BY <1>3 DEF PreviewMiss
  <2> HIDE DEF w
  <2> QED BY <1>3, <2>1, <2>2, ViewerGoesOn DEF PreviewMiss, phoneVars
<1>4. ASSUME NEW snap \in Versions \cup {NoSnap}, PreviewSnapshot(v, snap) PROVE ListInv'
  <2>1. CASE UNCHANGED cacheVars /\ viewer' = [viewer EXCEPT ![v].at = "walking"]
    <3> DEFINE w == [viewer[v] EXCEPT !.at = "walking"]
    <3>1. w \in Walks /\ UpToDate(w)
      BY <1>w, WalkGoesOn
    <3>2. viewer' = [viewer EXCEPT ![v] = w]
      BY <2>1
    <3> HIDE DEF w
    <3> QED BY <1>4, <2>1, <3>1, <3>2, ViewerGoesOn DEF PreviewSnapshot, phoneVars
  <2>2. ASSUME NEW e \in KeptInMemory(snap) \cup KeptOnDisk(snap),
               Store(viewer[v].sort, e.items, snap), viewer' = [viewer EXCEPT ![v] = Quiet]
        PROVE  ListInv'
    <3>1. e \in Entries /\ Fits(e.items, snap)
      BY DEF KeptInMemory, KeptOnDisk, Reusable, CacheInv
    <3>2. snap \in Int /\ e.items \in Items
      BY <3>1 DEF Entries, Versions, NoSnap
    <3>3. CacheInv'
      BY <2>2, <3>1, <3>2, StoreFits
    <3> QED BY <1>4, <2>2, <3>3, ViewerGoesOn DEF PreviewSnapshot, phoneVars
  <2> QED BY <1>4, <2>1, <2>2 DEF PreviewSnapshot
<1>5. ASSUME NEW snap \in Versions \cup {NoSnap}, PreviewStores(v, snap) PROVE ListInv'
  <2>1. CacheInv'
    BY <1>5, <1>w, WalkFits, StoreFits DEF PreviewStores
  <2> QED BY <1>5, <2>1, ViewerGoesOn DEF PreviewStores, phoneVars
<1> QED BY <1>1, <1>2, <1>3, <1>4, <1>5

\* The refresh in the background stores what fits.
LEMMA RefreshKeepsFresh ==
  ASSUME ListInv, NEW s \in Sorts,
         \/ RefreshBegins(s) \/ \E whole \in BOOLEAN : RefreshWalks(s, whole)
         \/ \E snap \in Versions \cup {NoSnap} : RefreshStores(s, snap)
  PROVE  ListInv'
<1> USE RestIsSame, QuietIsUpToDate DEF ListInv
<1>w. refresher[s] \in Walks /\ UpToDate(refresher[s])
  BY DEF RefresherInv
<1>1. CASE RefreshBegins(s)
  <2> DEFINE w == [refresher[s] EXCEPT !.at = "walking"]
  <2>1. w \in Walks /\ UpToDate(w)
    BY <1>w, WalkGoesOn
  <2>2. refresher' \in {[refresher EXCEPT ![s] = w], [refresher EXCEPT ![s] = Quiet]}
    BY <1>1 DEF RefreshBegins
  <2>3. CacheInv'
    BY <1>1, PurgeFits DEF RefreshBegins, CacheInv
  <2> HIDE DEF w
  <2> QED BY <1>1, <2>1, <2>2, <2>3, RefresherGoesOn DEF RefreshBegins, phoneVars
<1>2. ASSUME NEW whole \in BOOLEAN, RefreshWalks(s, whole) PROVE ListInv'
  <2> DEFINE w == [refresher[s] EXCEPT !.at = "resnap", !.items = Walked]
  <2>1. w \in Walks /\ UpToDate(w)
    BY <1>w, WalkEnds
  <2>2. refresher' \in {[refresher EXCEPT ![s] = w], [refresher EXCEPT ![s] = Quiet]}
    BY <1>2 DEF RefreshWalks
  <2> HIDE DEF w
  <2> QED BY <1>2, <2>1, <2>2, RefresherGoesOn DEF RefreshWalks, phoneVars
<1>3. ASSUME NEW snap \in Versions \cup {NoSnap}, RefreshStores(s, snap) PROVE ListInv'
  <2>1. CacheInv'
    BY <1>3, <1>w, WalkFits, StoreFits DEF RefreshStores
  <2> QED BY <1>3, <2>1, RefresherGoesOn DEF RefreshStores, phoneVars
<1> QED BY <1>1, <1>2, <1>3

\* The transfer takes the listing of its scan id, and compares it with the
\* phone's snapshot of that moment where it compares.
LEMMA TransferReusesFresh ==
  ASSUME ListInv, NEW id \in Versions \cup {NoSnap},
         CreateWithScan(id) \/ \E sameRoot \in BOOLEAN : ScanReuses(id, sameRoot)
  PROVE  ReuseInv'
<1>i. id \in Int /\ reuse \in Reuses
  BY DEF Versions, NoSnap, ListInv, ReuseInv
<1>n. NoReuse \in Reuses /\ NoReuse.at = "none"
  BY QuietIsUpToDate DEF NoReuse, NoSnap, Reuses
<1>1. CASE CreateWithScan(id)
  BY <1>1, <1>i, <1>n DEF CreateWithScan, Reuses, ReuseInv, ReuseIsFresh
<1>2. ASSUME NEW sameRoot \in BOOLEAN, ScanReuses(id, sameRoot) PROVE ReuseInv'
  <2>1. CASE reuse' = NoReuse
    BY <2>1, <1>n DEF ReuseInv, ReuseIsFresh
  <2>2. ASSUME NEW e \in Entries, Cached(e), e.snap = reuse.id, Fits(e.items, e.snap),
               NEW how \in {"compared", "unchecked"}, how = "compared" => e.snap = id,
               id # NoSnap, TakesListing(how, e.items, id)
        PROVE  ReuseInv'
    <3>1. /\ e.items \in Items
          /\ e.snap # NoSnap => e.items.moved \/ e.items.top = e.snap
      BY <2>2 DEF Cached, Entries, Fits
    <3>2. /\ reuse' = [reuse EXCEPT !.at = "reused", !.how = how, !.items = e.items, !.top = id]
          /\ reuse' \in Reuses
      BY <1>i, <2>2, <3>1 DEF TakesListing, Reuses
    <3>3. /\ reuse'.id = reuse.id /\ reuse'.how = how
          /\ reuse'.items = e.items /\ reuse'.top = id
      BY <1>i, <3>2 DEF Reuses
    <3> QED BY <2>2, <3>1, <3>2, <3>3 DEF ReuseInv, ReuseIsFresh
  <2>3. ASSUME NEW s \in InMemory(reuse.id)
        PROVE  memory[s] \in Entries /\ Cached(memory[s]) /\ memory[s].snap = reuse.id
               /\ Fits(memory[s].items, memory[s].snap)
    BY DEF InMemory, ListInv, CacheInv
  <2>4. ASSUME NEW s \in OnDisk(reuse.id)
        PROVE  disk[s] \in Entries /\ Cached(disk[s]) /\ disk[s].snap = reuse.id
               /\ Fits(disk[s].items, disk[s].snap)
    BY DEF OnDisk, ListInv, CacheInv
  <2> DEFINE cached   == InMemory(reuse.id)
             kept     == IF cached # {} THEN {memory[s] : s \in cached}
                                        ELSE {disk[s] : s \in OnDisk(reuse.id)}
             compared == cached # {} /\ sameRoot
             how      == IF compared THEN "compared" ELSE "unchecked"
  <2>5. ASSUME NEW e \in kept
        PROVE  e \in Entries /\ Cached(e) /\ e.snap = reuse.id /\ Fits(e.items, e.snap)
    BY <2>3, <2>4
  <2>6. ASSUME NEW e \in kept, id # NoSnap, compared => SnapshotMatches(e, id),
               TakesListing(how, e.items, id)
        PROVE  ReuseInv'
    <3>1. how \in {"compared", "unchecked"} /\ (how = "compared" => e.snap = id)
      BY <2>6 DEF SnapshotMatches
    <3> HIDE DEF kept, how
    <3> QED BY <2>2, <2>5, <2>6, <3>1
  <2> QED BY <1>2, <2>1, <2>6 DEF ScanReuses
<1> QED BY <1>1, <1>2

\* Every step keeps the listings fresh.
LEMMA NextIsFresh == ListInv /\ [ListNext]_listVars => ListInv'
<1> SUFFICES ASSUME ListInv, [ListNext]_listVars PROVE ListInv'
  OBVIOUS
<1>1. CASE PurgeForSerial
  <2>1. CacheInv'
    BY <1>1, PurgeFits DEF PurgeForSerial, ListInv
  <2>2. ViewerInv'
    BY <1>1, RestIsSame, QuietIsUpToDate, ViewerGoesOn DEF PurgeForSerial, phoneVars, ListInv
  <2> QED BY <1>1, <2>1, <2>2, RestIsSame DEF PurgeForSerial, phoneVars, ListInv
<1>2. CASE PurgeDisconnected \/ \E s \in Sorts : ListingEvicted(s)
  <2>1. CacheInv'
    BY <1>2, PurgeFits DEF PurgeDisconnected, ListingEvicted, ListInv, CacheInv
  <2> QED BY <1>2, <2>1, RestIsSame DEF PurgeDisconnected, ListingEvicted, phoneVars, ListInv
<1>3. CASE PhoneChanges
  <2>1. /\ viewer' = [v \in Viewers |-> Moved(viewer[v])]
        /\ refresher' = [s \in Sorts |-> Moved(refresher[s])]
        /\ PhoneInv' /\ UNCHANGED <<cacheVars, reuse>>
    BY <1>3 DEF PhoneChanges, PhoneInv, ListInv
  <2>2. ASSUME NEW w \in Walks PROVE Moved(w) \in Walks /\ UpToDate(Moved(w))'
    BY DEF Walks, Moved, UpToDate, Items
  <2>3. ViewerInv' /\ RefresherInv'
    BY <2>1, <2>2 DEF ViewerInv, RefresherInv, ListInv
  <2> QED BY <2>1, <2>3, RestIsSame DEF ListInv
<1>4. CASE PlugOrUnplug
  BY <1>4, RestIsSame DEF PlugOrUnplug, PhoneInv, ListInv
<1>5. CASE ListEngineRestarts
  <2>1. CacheInv'
    BY <1>5, PurgeFits DEF ListEngineRestarts, ListInv, CacheInv
  <2>2. ViewerInv' /\ RefresherInv'
    BY <1>5, QuietIsUpToDate DEF ListEngineRestarts, ViewerInv, RefresherInv
  <2>3. ReuseInv'
    BY <1>5, QuietIsUpToDate
    DEF ListEngineRestarts, ReuseInv, ReuseIsFresh, Reuses, NoReuse, NoSnap
  <2> QED BY <1>5, <2>1, <2>2, <2>3, RestIsSame DEF ListEngineRestarts, ListInv
<1>6. ASSUME NEW id \in Versions \cup {NoSnap},
             CreateWithScan(id) \/ \E sameRoot \in BOOLEAN : ScanReuses(id, sameRoot)
      PROVE  ListInv'
  BY <1>6, TransferReusesFresh, RestIsSame DEF CreateWithScan, ScanReuses, phoneVars, ListInv
<1>7. CASE UNCHANGED listVars
  BY <1>7, RestIsSame DEF listVars, phoneVars, cacheVars, ListInv
<1> QED
  BY <1>1, <1>2, <1>3, <1>4, <1>5, <1>6, <1>7, ViewersKeepFresh, RefreshKeepsFresh DEF ListNext

\* "Reuse only when the live top-level snapshot still matches": whatever
\* previews, refreshes, evictions and restarts overlap, the listing that a
\* transfer takes for the phone is the one of its scan id, and where it was
\* compared it was walked over the top folder that the phone has now, unless the
\* phone changed between the walk and the snapshot it is filed under.
THEOREM ReusedListingIsFresh == ListSpec => []ReuseIsFresh
<1>1. ListInv => ReuseIsFresh
  BY DEF ListInv, ReuseInv
<1> QED BY InitIsFresh, NextIsFresh, <1>1, PTL DEF ListSpec

-----------------------------------------------------------------------------
(* DeviceThumbs.                                                           *)

\* What a request holds: the listing it was made for, and the picture it has
\* got.
ThumbRequests ==
  [at : {"idle", "asked", "prefix", "whole", "got", "kept", "lost"},
   key : Int, full : BOOLEAN, shows : Int, transient : BOOLEAN]

ThumbTypeOK ==
  /\ media \in {"photo", "video", "local"} /\ version \in Listed
  /\ staged \in Listed \cup {NoThumb} /\ (staged # NoThumb => staged <= version)
  /\ thumbDisk \in [Keys -> Listed \cup {NoThumb}] /\ refused \subseteq Keys
  /\ thumb \in [Requesters -> ThumbRequests]

\* A version that may stand for the listed one.
StandsFor(v, k) == v \in Listed /\ (ListedSize(k) \notin {0, SizeOf[v]} => v >= k)
\* What makes a refusal true.
Hopeless(k) == \E v \in Undecodable : k <= v /\ v <= version

\* Every request under way is about a listed version, or an unknown one; the
\* picture it has got may stand for that version, and when it has lost, the
\* file cannot be decoded or nothing was.
RequestInv ==
  \A r \in Requesters :
    /\ thumb[r].at # "idle" => thumb[r].key \in 0 .. version
    /\ thumb[r].at \in {"got", "kept"} => StandsFor(thumb[r].shows, thumb[r].key)
    /\ thumb[r].at = "lost" => thumb[r].key \in hasty \/ Hopeless(thumb[r].key) \/ (media = "video" /\ r = "prefetch")

ThumbInv == ThumbTypeOK /\ RequestInv /\ DiskThumbNotStale /\ RefusedIsUndecodable

-----------------------------------------------------------------------------

LEMMA RestingIsRequest == Resting \in ThumbRequests
BY DEF Resting, ThumbRequests, NoThumb

LEMMA InitThumbs == ThumbInit => ThumbInv
<1> SUFFICES ASSUME ThumbInit PROVE ThumbInv
  OBVIOUS
<1>1. ThumbTypeOK
  <2>1. 1 \in Listed
    BY VersionsAssumption DEF Listed
  <2> QED BY <2>1, RestingIsRequest DEF ThumbInit, ThumbTypeOK
<1>2. RequestInv
  BY DEF ThumbInit, RequestInv, Resting
<1>3. DiskThumbNotStale /\ RefusedIsUndecodable
  BY DEF ThumbInit, DiskThumbNotStale, RefusedIsUndecodable
<1> QED BY <1>1, <1>2, <1>3 DEF ThumbInv

\* A request goes on to q, and nothing but the history has changed.
LEMMA RequestGoesOn ==
  ASSUME ThumbInv, NEW r \in Requesters, NEW q \in ThumbRequests,
         thumb' = [thumb EXCEPT ![r] = q], hasty \subseteq hasty',
         UNCHANGED <<deviceVars, thumbDisk, refused>>,
         q.at # "idle" => q.key \in 0 .. version,
         q.at \in {"got", "kept"} => StandsFor(q.shows, q.key),
         q.at = "lost" => q.key \in hasty' \/ Hopeless(q.key) \/ (media = "video" /\ r = "prefetch")
  PROVE  ThumbInv'
<1> USE DEF ThumbInv, deviceVars
<1>1. ThumbTypeOK'
  BY DEF ThumbTypeOK
<1>2. RequestInv'
  BY DEF RequestInv, StandsFor, Hopeless, ThumbTypeOK
<1>3. DiskThumbNotStale' /\ RefusedIsUndecodable'
  BY DEF DiskThumbNotStale, RefusedIsUndecodable
<1> QED BY <1>1, <1>2, <1>3

LEMMA RequestRests ==
  ASSUME ThumbInv, NEW r \in Requesters, Done(r), hasty \subseteq hasty',
         UNCHANGED <<deviceVars, thumbDisk, refused>>
  PROVE  ThumbInv'
BY RequestGoesOn, RestingIsRequest DEF Done, Resting

\* What Step and Shows make of a request.
LEMMA RequestSteps ==
  ASSUME ThumbInv, NEW r \in Requesters,
         NEW p \in {"prefix", "whole", "lost", "kept"}, Step(r, p),
         hasty \subseteq hasty',
         UNCHANGED <<deviceVars, thumbDisk, refused>>, thumb[r].at # "idle",
         p = "kept" => thumb[r].at = "got",
         p = "lost" => thumb[r].key \in hasty' \/ Hopeless(thumb[r].key) \/ (media = "video" /\ r = "prefetch")
  PROVE  ThumbInv'
<1> DEFINE q == [thumb[r] EXCEPT !.at = p]
<1>1. thumb[r] \in ThumbRequests
  BY DEF ThumbInv, ThumbTypeOK
<1>2. q \in ThumbRequests /\ q.at = p /\ q.key = thumb[r].key /\ q.shows = thumb[r].shows
  BY <1>1 DEF ThumbRequests
<1>3. thumb' = [thumb EXCEPT ![r] = q]
  BY DEF Step
<1>4. q.key \in 0 .. version /\ (q.at = "kept" => StandsFor(q.shows, q.key))
  BY <1>2 DEF ThumbInv, RequestInv
<1> HIDE DEF q
<1> QED BY <1>2, <1>3, <1>4, RequestGoesOn

LEMMA RequestShows ==
  ASSUME ThumbInv, NEW r \in Requesters, NEW v \in Listed, Shows(r, v),
         hasty \subseteq hasty',
         UNCHANGED <<deviceVars, thumbDisk, refused>>, thumb[r].at # "idle",
         StandsFor(v, thumb[r].key)
  PROVE  ThumbInv'
<1> DEFINE q == [thumb[r] EXCEPT !.at = "got", !.shows = v]
<1>1. thumb[r] \in ThumbRequests /\ v \in Int
  BY DEF ThumbInv, ThumbTypeOK, Listed
<1>2. q \in ThumbRequests /\ q.at = "got" /\ q.key = thumb[r].key /\ q.shows = v
  BY <1>1 DEF ThumbRequests
<1>3. thumb' = [thumb EXCEPT ![r] = q]
  BY DEF Shows
<1>4. q.key \in 0 .. version
  BY <1>2 DEF ThumbInv, RequestInv
<1> HIDE DEF q
<1> QED BY <1>2, <1>3, <1>4, RequestGoesOn

\* The version that is on the device stands for every listing of the past.
LEMMA LatestStands ==
  ASSUME ThumbInv, NEW k \in 0 .. version
  PROVE  StandsFor(version, k)
BY DEF ThumbInv, ThumbTypeOK, StandsFor, Listed

-----------------------------------------------------------------------------

LEMMA AskingKeeps ==
  ASSUME ThumbInv, NEW r \in Requesters, NEW k \in Keys, NEW full \in BOOLEAN,
         RequestsThumb(r, k, full)
  PROVE  ThumbInv'
<1>1. CASE thumbDisk[k] # NoThumb
  BY <1>1 DEF RequestsThumb, deviceVars, ThumbInv, ThumbTypeOK, RequestInv, DiskThumbNotStale,
              RefusedIsUndecodable, StandsFor, Hopeless
<1>2. CASE thumbDisk[k] = NoThumb
  <2> DEFINE q == [Resting EXCEPT !.at = "asked", !.key = k, !.full = full]
  <2>1. q \in ThumbRequests /\ q.at = "asked" /\ q.key = k
    <3>1. k \in Int
      BY VersionsAssumption DEF Listed, Keys, Unsized
    <3> QED BY <3>1, RestingIsRequest DEF ThumbRequests
  <2>2. /\ thumb' = [thumb EXCEPT ![r] = q] /\ k \in 0 .. version
        /\ UNCHANGED <<deviceVars, thumbDisk, refused, hasty>>
    BY <1>2, VersionsAssumption DEF RequestsThumb, ThumbInv, ThumbTypeOK, Listed, Keys, Unsized
  <2> HIDE DEF q
  <2> QED BY <2>1, <2>2, RequestGoesOn
<1> QED BY <1>1, <1>2

LEMMA LookingKeeps ==
  ASSUME ThumbInv, NEW r \in Requesters, ThumbLooksAround(r)
  PROVE  ThumbInv'
<1>1. thumb[r].at = "asked" /\ UNCHANGED <<deviceVars, thumbRam, thumbDisk, refused, hasty>>
  BY DEF ThumbLooksAround
<1>2. thumb[r].key \in 0 .. version
  BY <1>1 DEF ThumbInv, RequestInv
<1>3. CASE Done(r)
  BY <1>1, <1>3, RequestRests
<1>4. ASSUME StagedIsTrusted(thumb[r].key), NEW o \in Decoded(staged),
             IF o = "image" THEN Shows(r, staged)
             ELSE IF AfterStaged(r) = "idle" THEN Done(r) ELSE Step(r, AfterStaged(r))
      PROVE  ThumbInv'
  <2>1. CASE o = "image"
    <3>1. staged \in Listed /\ StandsFor(staged, thumb[r].key)
      BY <1>4 DEF StagedIsTrusted, StandsFor, ThumbInv, ThumbTypeOK
    <3>2. Shows(r, staged)
      BY <1>4, <2>1
    <3> QED BY <1>1, <3>1, <3>2, RequestShows
  <2>2. CASE o # "image" /\ AfterStaged(r) = "idle"
    BY <1>1, <1>4, <2>2, RequestRests
  <2>3. CASE o # "image" /\ AfterStaged(r) # "idle"
    <3>1. AfterStaged(r) \in {"prefix", "whole"} /\ Step(r, AfterStaged(r))
      BY <1>4, <2>3 DEF AfterStaged
    <3> QED BY <1>1, <3>1, RequestSteps
  <2> QED BY <2>1, <2>2, <2>3
<1>5. CASE Step(r, IF thumb[r].full \/ media = "local" THEN "whole" ELSE "prefix")
  BY <1>1, <1>5, RequestSteps
<1> QED BY <1>3, <1>4, <1>5 DEF ThumbLooksAround

LEMMA PrefixKeeps ==
  ASSUME ThumbInv, NEW r \in Requesters, ThumbReadsPrefix(r)
  PROVE  ThumbInv'
<1>1. thumb[r].at = "prefix" /\ UNCHANGED <<deviceVars, thumbRam, thumbDisk, refused, hasty>>
  BY DEF ThumbReadsPrefix
<1>2. thumb[r].key \in 0 .. version /\ thumb[r] \in ThumbRequests
  BY <1>1 DEF ThumbInv, RequestInv, ThumbTypeOK
<1>3. ASSUME NEW o \in PrefixOf(version),
             IF o = "image" THEN Shows(r, version)
             ELSE IF o = "timeout" /\ media = "video" /\ r # "prefetch" THEN Done(r)
             ELSE Step(r, AfterPrefix(r))
      PROVE  ThumbInv'
  <2>1. CASE o = "image"
    <3>1. Shows(r, version) /\ version \in Listed
      BY <1>3, <2>1 DEF ThumbInv, ThumbTypeOK
    <3> QED BY <1>1, <1>2, <3>1, LatestStands, RequestShows
  <2>2. CASE Done(r)
    BY <1>1, <2>2, RequestRests
  <2>3. CASE Step(r, AfterPrefix(r))
    <3>1. /\ AfterPrefix(r) \in {"whole", "lost"}
          /\ AfterPrefix(r) = "lost" => media = "video" /\ r = "prefetch"
      BY DEF AfterPrefix
    <3> QED BY <1>1, <2>3, <3>1, RequestSteps
  <2> QED BY <1>3, <2>1, <2>2, <2>3
<1>4. CASE Done(r)
  BY <1>1, <1>4, RequestRests
<1>5. CASE thumb' = [thumb EXCEPT ![r].at = "whole", ![r].transient = r # "prefetch"]
  <2> DEFINE q == [thumb[r] EXCEPT !.at = "whole", !.transient = r # "prefetch"]
  <2>1. q \in ThumbRequests /\ q.at = "whole" /\ q.key = thumb[r].key
    BY <1>2 DEF ThumbRequests
  <2>2. thumb' = [thumb EXCEPT ![r] = q]
    BY <1>5
  <2> HIDE DEF q
  <2> QED BY <1>1, <1>2, <2>1, <2>2, RequestGoesOn
<1> QED BY <1>3, <1>4, <1>5 DEF ThumbReadsPrefix

LEMMA WholeKeeps ==
  ASSUME ThumbInv, NEW r \in Requesters, ThumbReadsWhole(r)
  PROVE  ThumbInv'
<1>1. thumb[r].at = "whole" /\ UNCHANGED <<deviceVars, thumbRam, thumbDisk, refused>>
  BY DEF ThumbReadsWhole
<1>2. thumb[r].key \in 0 .. version /\ version \in Listed
  BY <1>1 DEF ThumbInv, RequestInv, ThumbTypeOK
<1>3. PICK o \in Decoded(version) :
        /\ IF o = "image" THEN Shows(r, version) ELSE Step(r, "lost")
        /\ IF o = "timeout" THEN Undecided(r) ELSE UNCHANGED hasty
  BY DEF ThumbReadsWhole
<1>4. hasty \subseteq hasty' /\ (o = "timeout" => thumb[r].key \in hasty')
  BY <1>3 DEF Undecided
<1>5. CASE o = "image"
  BY <1>1, <1>2, <1>3, <1>4, <1>5, LatestStands, RequestShows
<1>6. CASE o # "image"
  <2>1. o = "none" => version \in Undecodable
    BY DEF Decoded
  <2>2. o = "none" \/ o = "timeout"
    BY <1>6 DEF Decoded
  <2>3. o = "none" => Hopeless(thumb[r].key)
    BY <1>2, <2>1 DEF Hopeless, Listed
  <2>4. Step(r, "lost")
    BY <1>3, <1>6
  <2> QED BY <1>1, <1>4, <2>2, <2>3, <2>4, RequestSteps
<1> QED BY <1>5, <1>6

LEMMA NotOpeningKeeps ==
  ASSUME ThumbInv, NEW r \in Requesters, ThumbDoesNotOpen(r)
  PROVE  ThumbInv'
<1>1. /\ thumb[r].at = "whole" /\ UNCHANGED <<deviceVars, thumbRam, thumbDisk, refused>>
      /\ Step(r, "lost") /\ hasty \subseteq hasty' /\ thumb[r].key \in hasty'
  BY DEF ThumbDoesNotOpen, Undecided
<1> QED BY <1>1, RequestSteps

LEMMA KeepingKeeps ==
  ASSUME ThumbInv, NEW r \in Requesters, ThumbGoesToDisk(r)
  PROVE  ThumbInv'
<1>1. /\ thumb[r].at = "kept"
      /\ thumbDisk' = [thumbDisk EXCEPT ![thumb[r].key] = thumb[r].shows]
      /\ refused' = refused \ {thumb[r].key}
      /\ thumb' = [thumb EXCEPT ![r] = Resting] /\ UNCHANGED <<deviceVars, thumbRam, hasty>>
  BY DEF ThumbGoesToDisk, Done
<1>2. StandsFor(thumb[r].shows, thumb[r].key) /\ thumb[r].key \in 0 .. version
  BY <1>1 DEF ThumbInv, RequestInv
<1>3. ThumbTypeOK'
  BY <1>1, <1>2, RestingIsRequest DEF ThumbInv, ThumbTypeOK, deviceVars, StandsFor, Listed
<1>4. RequestInv'
  BY <1>1 DEF ThumbInv, RequestInv, deviceVars, StandsFor, Hopeless, ThumbTypeOK, Resting
<1>5. DiskThumbNotStale'
  BY <1>1, <1>2 DEF ThumbInv, DiskThumbNotStale, ThumbTypeOK, StandsFor
<1>6. RefusedIsUndecodable'
  BY <1>1 DEF ThumbInv, RefusedIsUndecodable, deviceVars
<1> QED BY <1>3, <1>4, <1>5, <1>6 DEF ThumbInv

LEMMA GreyKeeps ==
  ASSUME ThumbInv, NEW r \in Requesters, ThumbIsGrey(r)
  PROVE  ThumbInv'
<1>1. /\ thumb[r].at = "lost"
      /\ thumb' = [thumb EXCEPT ![r] = Resting] /\ UNCHANGED <<deviceVars, thumbDisk, hasty>>
      /\ refused' \subseteq refused \cup {thumb[r].key}
      /\ thumb[r].key \in refused' => thumb[r].key \in refused \/ Remembered(r)
  BY DEF ThumbIsGrey, Done
<1>2. /\ thumb[r].key \in 0 .. version
      /\ Remembered(r) => thumb[r].key \in hasty \/ Hopeless(thumb[r].key)
  BY <1>1 DEF ThumbInv, RequestInv, Remembered
<1>3. ThumbTypeOK'
  <2>1. thumb[r].key \in Keys
    BY <1>2, VersionsAssumption DEF ThumbInv, ThumbTypeOK, Listed, Keys, Unsized
  <2>2. refused' \subseteq Keys
    BY <1>1, <2>1 DEF ThumbInv, ThumbTypeOK
  <2> QED BY <1>1, <2>2, RestingIsRequest DEF ThumbInv, ThumbTypeOK, deviceVars
<1>4. RequestInv'
  BY <1>1 DEF ThumbInv, RequestInv, deviceVars, StandsFor, Hopeless, ThumbTypeOK, Resting
<1>5. DiskThumbNotStale'
  BY <1>1 DEF ThumbInv, DiskThumbNotStale
<1>6. RefusedIsUndecodable'
  BY <1>1, <1>2 DEF ThumbInv, RefusedIsUndecodable, deviceVars, Hopeless
<1> QED BY <1>3, <1>4, <1>5, <1>6 DEF ThumbInv

\* What the device and the caches do.
LEMMA SurroundingsKeep ==
  ASSUME ThumbInv, FileIsReplaced \/ FileIsStaged \/ ThumbForgotten \/ ThumbEngineRestarts
  PROVE  ThumbInv'
<1>1. CASE FileIsReplaced
  <2>1. version' = version + 1 /\ version' \in Listed /\ version \in Nat
    BY <1>1, VersionsAssumption DEF FileIsReplaced, ThumbInv, ThumbTypeOK, Listed
  <2>2. \A k : Hopeless(k) => Hopeless(k)'
    BY <2>1, VersionsAssumption DEF Hopeless
  <2>3. ThumbTypeOK'
    BY <1>1, <2>1 DEF FileIsReplaced, ThumbInv, ThumbTypeOK, NoThumb, Listed
  <2>4. RequestInv'
    BY <1>1, <2>1, <2>2 DEF FileIsReplaced, ThumbInv, RequestInv, StandsFor
  <2>5. DiskThumbNotStale'
    BY <1>1 DEF FileIsReplaced, ThumbInv, DiskThumbNotStale
  <2>6. RefusedIsUndecodable'
    BY <1>1, <2>2 DEF FileIsReplaced, ThumbInv, RefusedIsUndecodable, Hopeless
  <2> QED BY <2>3, <2>4, <2>5, <2>6 DEF ThumbInv
<1>2. CASE FileIsStaged
  <2>1. ThumbTypeOK'
    BY <1>2 DEF FileIsStaged, ThumbInv, ThumbTypeOK, Listed
  <2> QED BY <1>2, <2>1 DEF FileIsStaged, ThumbInv, RequestInv, StandsFor, Hopeless,
                            DiskThumbNotStale, RefusedIsUndecodable
<1>3. CASE ThumbForgotten
  <2>1. /\ UNCHANGED <<deviceVars, thumb, hasty>> /\ refused' \subseteq refused
        /\ \/ thumbDisk' = thumbDisk
           \/ \E k \in Keys : thumbDisk' = [thumbDisk EXCEPT ![k] = NoThumb]
    BY <1>3 DEF ThumbForgotten
  <2>2. ThumbTypeOK'
    BY <2>1 DEF ThumbInv, ThumbTypeOK, deviceVars
  <2>3. RequestInv'
    BY <2>1 DEF ThumbInv, RequestInv, deviceVars, StandsFor, Hopeless
  <2>4. DiskThumbNotStale'
    BY <2>1 DEF ThumbInv, ThumbTypeOK, DiskThumbNotStale
  <2>5. RefusedIsUndecodable'
    BY <2>1 DEF ThumbInv, RefusedIsUndecodable, deviceVars
  <2> QED BY <2>2, <2>3, <2>4, <2>5 DEF ThumbInv
<1>4. CASE ThumbEngineRestarts
  <2>1. ThumbTypeOK'
    BY <1>4, RestingIsRequest DEF ThumbEngineRestarts, ThumbInv, ThumbTypeOK, deviceVars
  <2>2. RequestInv'
    BY <1>4 DEF ThumbEngineRestarts, RequestInv, Resting
  <2> QED BY <1>4, <2>1, <2>2 DEF ThumbEngineRestarts, ThumbInv, deviceVars, DiskThumbNotStale,
                                  RefusedIsUndecodable
<1> QED BY <1>1, <1>2, <1>3, <1>4

LEMMA NextThumbs == ThumbInv /\ [ThumbNext]_thumbVars => ThumbInv'
<1> SUFFICES ASSUME ThumbInv, [ThumbNext]_thumbVars PROVE ThumbInv'
  OBVIOUS
<1>1. ASSUME NEW r \in Requesters, NEW k \in Keys, LocalRequest(r, k) PROVE ThumbInv'
  BY <1>1, AskingKeeps DEF LocalRequest
<1>2. ASSUME NEW r \in Requesters, NEW k \in Keys, NEW full \in BOOLEAN,
             DeviceRequest(r, k, full)
      PROVE  ThumbInv'
  BY <1>2, AskingKeeps DEF DeviceRequest
<1>3. ASSUME NEW r \in Requesters,
             ThumbLooksAround(r) \/ ThumbReadsPrefix(r) \/ ThumbReadsWhole(r)
      PROVE  ThumbInv'
  BY <1>3, LookingKeeps, PrefixKeeps, WholeKeeps
<1>4. ASSUME NEW r \in Requesters, ThumbReadFails(r) PROVE ThumbInv'
  BY <1>4, RequestRests DEF ThumbReadFails
<1>5. ASSUME NEW r \in Requesters, ThumbGoesToRam(r) PROVE ThumbInv'
  BY <1>5, RequestSteps DEF ThumbGoesToRam
<1>6. ASSUME NEW r \in Requesters,
             ThumbGoesToDisk(r) \/ ThumbIsGrey(r) \/ ThumbDoesNotOpen(r)
      PROVE  ThumbInv'
  BY <1>6, KeepingKeeps, GreyKeeps, NotOpeningKeeps
<1>7. CASE UNCHANGED thumbVars
  BY <1>7 DEF thumbVars, ThumbInv, ThumbTypeOK, RequestInv, StandsFor, Hopeless,
              DiskThumbNotStale, RefusedIsUndecodable
<1> QED BY <1>1, <1>2, <1>3, <1>4, <1>5, <1>6, <1>7, SurroundingsKeep DEF ThumbNext

\* "Exact invalidation": whatever replacements of the file, requests and
\* prefetches overlap, no thumbnail on disk shows an older version of another
\* size than the listing it is filed under, if that listing knew the size.
THEOREM DiskThumbsAreNotStale == ThumbSpec => []DiskThumbNotStale
<1>1. ThumbInv => DiskThumbNotStale
  BY DEF ThumbInv
<1> QED BY InitThumbs, NextThumbs, <1>1, PTL DEF ThumbSpec

\* "Only recorded after a full decode fails": what is refused has had a version
\* that cannot be decoded, unless a decoder was killed for it or the file, a
\* local one, did not open.
THEOREM RefusedAreUndecodable == ThumbSpec => []RefusedIsUndecodable
<1>1. ThumbInv => RefusedIsUndecodable
  BY DEF ThumbInv
<1> QED BY InitThumbs, NextThumbs, <1>1, PTL DEF ThumbSpec
=============================================================================
