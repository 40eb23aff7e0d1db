---------------------------- MODULE LibraryProofs ----------------------------
(*****************************************************************************)
(* For any number of grids, of regenerations and of rows: a thumbnail is     *)
(* that of its item, and a failure is tried again (LibraryThumbs).  For any  *)
(* number of items, of equal contents, names and sessions: neither the trash *)
(* nor "overwrite" takes the file of an item that was not chosen             *)
(* (LibraryCuration).                                                        *)
(*****************************************************************************)
EXTENDS LibraryThumbs, LibraryCuration, TLAPS

(* LibraryThumbs.                                                          *)

MakerStates ==
  [at : {"idle", "decoding", "batch", "missing", "made", "unmade", "check", "keeping"}, of : Nat]

LibraryTypeOK ==
  /\ owner \in Nat /\ born \in Nat /\ removal \in {"none", "evicted"}
  /\ thumbStatus \in {"pending", "ready", "failed", "not_found"}
  /\ inMemory \in BOOLEAN /\ bytesOf \in Nat /\ generation \in Nat /\ sentinels \in BOOLEAN
  /\ evicted \in BOOLEAN
  /\ maker \in [Makers -> MakerStates]

\* A maker that has not looked at its row for the last time knows the row; the
\* numbers of the regenerations go up, and only they look at the generation.
Knowing == {"decoding", "batch", "check", "keeping"}
MakerInv ==
  \A m \in Makers :
    /\ maker[m].at \in Knowing => maker[m].of # 0
    /\ m \in Regens /\ Busy(m) => m <= generation
    /\ maker[m].at \in {"check", "keeping"} => m \in Regens
    /\ maker[m].at = "batch" => m = Transfer

\* A regeneration that was overtaken keeps no picture.
Overtaken(m) == m \in Regens /\ m < generation /\ maker[m].at \in {"check", "decoding"}

\* Whoever may still put a picture knows the row that has the id.
OwnerInv ==
  "removal" \notin causes =>
    /\ bytesOf \in {0, owner}
    /\ removal # "none" => bytesOf = 0
    /\ \A m \in Makers : maker[m].at \in Knowing =>
         Overtaken(m) \/ (maker[m].of = owner /\ removal = "none")

\* A picture that a row names is there or was evicted, and whoever is at work
\* then is late.
AloneInv ==
  causes = {} =>
    /\ removal # "none" => ~evicted
    /\ \A m \in Makers : maker[m].at = "made" => bytesOf # 0 \/ evicted
    /\ sentinels /\ inMemory => /\ thumbStatus = "ready" /\ \A m \in Makers : Busy(m) => m \in late
                                /\ bytesOf # 0 \/ evicted \/ removal # "none"

LibraryInv == LibraryTypeOK /\ MakerInv /\ OwnerInv /\ AloneInv

\* At first there is no picture and nobody at work.
LEMMA InitIsOwn == LibraryInit => LibraryInv
<1> SUFFICES ASSUME LibraryInit PROVE LibraryInv
  OBVIOUS
<1>1. LibraryTypeOK
  BY DEF LibraryInit, LibraryTypeOK, MakerStates, Free
<1>2. MakerInv /\ AloneInv
  BY DEF LibraryInit, MakerInv, AloneInv, Free, Busy, Knowing
<1>3. OwnerInv
  BY DEF LibraryInit, OwnerInv, Free, Knowing
<1> QED BY <1>1, <1>2, <1>3 DEF LibraryInv

\* One maker goes on, or rests.
LEMMA MakerGoesOn ==
  ASSUME LibraryTypeOK, NEW m \in Makers, NEW q \in MakerStates,
         maker' = [maker EXCEPT ![m] = q]
  PROVE  /\ maker' \in [Makers -> MakerStates] /\ maker'[m] = q
         /\ \A n \in Makers \ {m} : maker'[n] = maker[n] /\ (Busy(n)' <=> Busy(n))
BY DEF LibraryTypeOK, Busy

\* What a maker can be told.
LEMMA StatesAreTyped ==
  /\ Free \in MakerStates /\ Free.at = "idle" /\ Free.of = 0
  /\ \A p \in {"missing", "made", "unmade"} : Told(p) \in MakerStates /\ Told(p).at = p /\ Told(p).of = 0
BY DEF Free, Told, MakerStates

\* A maker begins, with the item as it is.
LEMMA BeginningIsOwn ==
  ASSUME LibraryInv, NEW m \in Makers, 
         NEW p \in {"decoding", "batch", "missing", "check"}, Begins(m, p),
         m \in Regens => m <= generation', generation' \in Nat, generation' >= generation,
         p = "batch" => m = Transfer, p = "check" => m \in Regens,
         m = Transfer \/ ~inMemory \/ bytesOf = 0,
         thumbStatus' \in {thumbStatus, "pending"}, inMemory => thumbStatus' = thumbStatus,
         UNCHANGED <<owner, born, removal, inMemory, bytesOf, sentinels, evicted>>
  PROVE  LibraryInv'
<1> DEFINE q == IF p = "missing" THEN Told(p) ELSE [at |-> p, of |-> owner]
<1>1. q \in MakerStates /\ q.at = p /\ (p # "missing" => q.of = owner) /\ owner # 0 /\ owner \in Nat
  BY StatesAreTyped DEF MakerStates, LibraryInv, LibraryTypeOK, Begins
<1>2. maker' = [maker EXCEPT ![m] = q] /\ ~Busy(m)
  BY DEF Begins
<1> HIDE DEF q
<1>3. /\ maker' \in [Makers -> MakerStates] /\ maker'[m] = q
      /\ \A n \in Makers \ {m} : maker'[n] = maker[n] /\ (Busy(n)' <=> Busy(n))
  BY <1>1, <1>2, MakerGoesOn DEF LibraryInv
<1>4. LibraryTypeOK'
  BY <1>3 DEF LibraryInv, LibraryTypeOK
<1>5. MakerInv'
  BY <1>1, <1>3, LibraryAssumption DEF LibraryInv, LibraryTypeOK, MakerInv, Regens, Knowing, Busy
<1>6. /\ "removal" \notin causes' => "removal" \notin causes /\ removal = "none"
      /\ causes' = {} => causes = {} /\ removal = "none"
      /\ late \subseteq late' /\ (evicted \/ (m = Transfer /\ inMemory) => m \in late')
  BY DEF Begins, LibraryInv, LibraryTypeOK
<1>7. OwnerInv'
  BY <1>1, <1>3, <1>6, LibraryAssumption DEF LibraryInv, LibraryTypeOK, OwnerInv, Overtaken, Knowing, Regens
<1>8. AloneInv'
  <2> SUFFICES ASSUME causes' = {} PROVE AloneInv!2'
    BY DEF AloneInv
  <2>1. sentinels /\ inMemory => m \in late'
    BY <1>6 DEF LibraryInv, AloneInv
  <2> QED BY <1>1, <1>2, <1>3, <1>6, <2>1 DEF LibraryInv, AloneInv
<1> QED BY <1>4, <1>5, <1>7, <1>8 DEF LibraryInv

\* A maker lays down its picture, or goes on without.
LEMMA MakerIsOwn ==
  ASSUME LibraryInv, NEW m \in Makers, Busy(m), NEW q \in MakerStates, q.at # "batch",
         maker' = [maker EXCEPT ![m] = q],
         q.at \in {"check", "keeping"} => m \in Regens,
         q.at \in Knowing => q.of = maker[m].of /\ maker[m].at \in Knowing /\ ~(q.at = "keeping" /\ Overtaken(m)),
         maker[m].at \in Knowing => bytesOf' \in {bytesOf, maker[m].of},
         maker[m].at \notin Knowing => bytesOf' = bytesOf,
         bytesOf' # bytesOf => ~Overtaken(m),
         q.at = "made" => bytesOf' = maker[m].of /\ maker[m].at \in Knowing,
         \/ evicted' = FALSE /\ bytesOf' = maker[m].of /\ maker[m].at \in Knowing /\ ~Overtaken(m)
         \/ evicted' = evicted /\ bytesOf' = bytesOf,
         late \ {m} \subseteq late', q.at # "idle" => late' = late,
         UNCHANGED <<owner, born, removal, thumbStatus, inMemory, generation, sentinels, causes>>
  PROVE  LibraryInv'
<1>3. /\ maker' \in [Makers -> MakerStates] /\ maker'[m] = q
      /\ \A n \in Makers \ {m} : maker'[n] = maker[n] /\ (Busy(n)' <=> Busy(n))
  BY MakerGoesOn DEF LibraryInv
<1>4. LibraryTypeOK'
  BY <1>3 DEF LibraryInv, LibraryTypeOK, MakerStates
<1>5. MakerInv'
  BY <1>3 DEF LibraryInv, LibraryTypeOK, MakerInv, Busy, Knowing
<1>7. OwnerInv'
  BY <1>3, LibraryAssumption DEF LibraryInv, LibraryTypeOK, MakerInv, OwnerInv, Overtaken, Knowing, Regens
<1>8. AloneInv'
  <2> SUFFICES ASSUME causes' = {} PROVE AloneInv!2'
    BY DEF AloneInv
  <2>1. Busy(m)' => (m \in late => m \in late')
    BY <1>3 DEF Busy
  <2>2. bytesOf # 0 \/ evicted => bytesOf' # 0 \/ evicted'
    BY DEF LibraryInv, MakerInv
  <2>3. q.at = "made" => bytesOf' # 0
    BY DEF LibraryInv, MakerInv
  <2>4. removal # "none" => ~evicted'
    BY DEF LibraryInv, AloneInv
  <2>5. \A n \in Makers : Busy(n)' => (Busy(n) /\ (n \in late => n \in late'))
    BY <1>3, <2>1
  <2> QED BY <1>3, <2>2, <2>3, <2>4, <2>5 DEF LibraryInv, AloneInv, LibraryTypeOK
<1> QED BY <1>4, <1>5, <1>7, <1>8 DEF LibraryInv

\* Every step keeps the picture that of its item.
LEMMA NextIsOwn == LibraryInv /\ [LibraryNext]_libraryVars => LibraryInv'
<1> SUFFICES ASSUME LibraryInv, [LibraryNext]_libraryVars PROVE LibraryInv'
  OBVIOUS
<1> USE StatesAreTyped
<1>t. LibraryTypeOK /\ maker \in [Makers -> MakerStates]
  BY DEF LibraryInv, LibraryTypeOK
<1>0. Regens \subseteq Makers /\ Transfer \in Makers /\ Grids \subseteq Makers /\ Transfer \notin Regens
      /\ \A c \in Grids : c \notin Regens
  BY LibraryAssumption DEF Makers, Transfer, Regens
<1>1. ASSUME ClearLibrary \/ DeleteItem PROVE LibraryInv'
  <2>1. /\ removal' = "evicted" /\ removal = "none" /\ bytesOf' = 0 /\ generation' \in Nat /\ generation' >= generation
        /\ UNCHANGED <<owner, born, thumbStatus, inMemory, maker, sentinels, late>> /\ evicted' = FALSE
        /\ causes \subseteq causes'
    BY <1>1, <1>t DEF ClearLibrary, DeleteItem, NewGeneration, LibraryTypeOK
  <2>2. "removal" \notin causes' => 
          \A m \in Makers : Busy(m) => m \in Regens /\ generation' = generation + 1 /\ maker[m].at \in {"check", "decoding"}
    BY <1>1 DEF ClearLibrary, DeleteItem, NewGeneration, Unstopped
  <2>3. LibraryTypeOK' /\ MakerInv'
    <3>1. LibraryTypeOK'
      BY <2>1, <1>t DEF LibraryTypeOK
    <3>2. MakerInv'
      BY <2>1, <1>t, LibraryAssumption DEF LibraryInv, LibraryTypeOK, MakerInv, Busy, Regens
    <3> QED BY <3>1, <3>2
  <2>4. OwnerInv'
    BY <2>1, <2>2, <1>t, LibraryAssumption DEF LibraryInv, LibraryTypeOK, MakerInv, OwnerInv, Overtaken, Busy, Knowing, Regens
  <2>5. AloneInv'
    BY <2>1, <2>2 DEF LibraryInv, AloneInv, Busy
  <2> QED BY <2>3, <2>4, <2>5 DEF LibraryInv
<1>2. CASE RowIsDeleted \/ ItemIsScanned
  <2>1. UNCHANGED <<maker, bytesOf, generation, causes, sentinels, evicted, late>>
    BY <1>2 DEF RowIsDeleted, ItemIsScanned, repeats
  <2>2. LibraryTypeOK' /\ MakerInv'
    <3>1. owner' \in Nat /\ born' \in Nat /\ removal' \in {"none", "evicted"}
      BY <1>2, <1>t DEF RowIsDeleted, ItemIsScanned, LibraryTypeOK
    <3>2. thumbStatus' \in {thumbStatus, "pending"} /\ inMemory' \in {inMemory, FALSE}
      BY <1>2 DEF RowIsDeleted, ItemIsScanned
    <3> QED BY <2>1, <3>1, <3>2 DEF LibraryInv, LibraryTypeOK, MakerInv, Busy
  <2>3. OwnerInv'
    BY <1>2, <1>t DEF RowIsDeleted, ItemIsScanned, LibraryInv, MakerInv, OwnerInv, LibraryTypeOK, Overtaken
  <2>4. AloneInv'
    BY <1>2, <2>1, <1>t DEF RowIsDeleted, ItemIsScanned, LibraryInv, AloneInv, LibraryTypeOK, Busy
  <2> QED BY <2>2, <2>3, <2>4 DEF LibraryInv
<1>3. CASE DriveComesOrGoes \/ UNCHANGED libraryVars
  BY <1>3 DEF DriveComesOrGoes, libraryVars, repeats, LibraryInv, LibraryTypeOK, MakerInv, OwnerInv, AloneInv, Overtaken, Busy
<1>4. CASE LruEvicts
  BY <1>4 DEF LruEvicts, LibraryInv, LibraryTypeOK, MakerInv, OwnerInv, AloneInv, Overtaken, Busy
<1>5. CASE LibraryRestarts
  BY <1>5 DEF LibraryRestarts, LibraryInv, LibraryTypeOK, MakerInv, OwnerInv, AloneInv, Overtaken, Busy, Knowing
<1>6. CASE ResetSentinels
  BY <1>6 DEF ResetSentinels, ResetSentinel, repeats, LibraryInv, LibraryTypeOK, MakerInv, OwnerInv, AloneInv, Overtaken, Busy
<1>7. ASSUME NEW c \in Grids, GridAsks(c) PROVE LibraryInv'
  <2>1. FirstStep \in {"decoding", "missing"}
    BY DEF FirstStep
  <2> QED BY <1>7, <1>t, <1>0, <2>1, BeginningIsOwn DEF GridAsks, LibraryTypeOK
<1>8. CASE ScanThumb \/ BatchThumb
  BY <1>8, <1>t, <1>0, BeginningIsOwn DEF ScanThumb, BatchThumb, TransferThumb, LibraryTypeOK
<1>9. ASSUME NEW g \in Regens, Regenerate(g) PROVE LibraryInv'
  <2>0. g \in Makers /\ g \in Nat /\ generation' = g /\ g = generation + 1
    BY <1>9, <1>t, <1>0 DEF Regenerate, LibraryTypeOK
  <2>1. CASE owner # 0 /\ ~inMemory
    BY <1>9, <1>t, <2>0, <2>1, BeginningIsOwn DEF Regenerate, LibraryTypeOK
  <2>2. CASE ~(owner # 0 /\ ~inMemory)
    <3>1. UNCHANGED <<owner, born, removal, thumbStatus, inMemory, bytesOf, sentinels, maker, causes,
                      evicted, late>>
      BY <1>9, <2>2 DEF Regenerate
    <3>2. LibraryTypeOK' /\ MakerInv' /\ AloneInv'
      BY <2>0, <3>1, <1>t, LibraryAssumption DEF LibraryInv, LibraryTypeOK, MakerInv, AloneInv, Busy, Regens
    <3>3. OwnerInv'
      BY <2>0, <3>1, <1>t, LibraryAssumption DEF LibraryInv, LibraryTypeOK, MakerInv, OwnerInv, Overtaken, Regens
    <3> QED BY <3>2, <3>3 DEF LibraryInv
  <2> QED BY <2>1, <2>2
<1>10. ASSUME NEW g \in Regens, RegenLooksForFile(g) \/ RegenDecodes(g) \/ RegenKeeps(g) PROVE LibraryInv'
  <2>0. g \in Makers /\ maker[g] \in MakerStates /\ g \in Int /\ generation \in Nat
    BY <1>t, <1>0 DEF LibraryTypeOK, Regens
  <2>1. UNCHANGED <<owner, born, removal, thumbStatus, inMemory, generation, causes, sentinels>>
    BY <1>10 DEF RegenLooksForFile, RegenDecodes, RegenKeeps
  <2>2. Busy(g) /\ maker[g].at \in Knowing
    BY <1>10 DEF RegenLooksForFile, RegenDecodes, RegenKeeps, Busy, Knowing
  <2>3. CASE RegenKeeps(g)
    <3>1. ~Overtaken(g)
      BY <2>3 DEF RegenKeeps, Overtaken
    <3>2. bytesOf' = maker[g].of /\ evicted' = FALSE /\ late' = late /\ Tells(g, "made")
      BY <2>3 DEF RegenKeeps, Keeps
    <3> QED BY <3>1, <3>2, <2>0, <2>1, <2>2, <1>t, MakerIsOwn DEF Tells, LibraryTypeOK, Knowing
  <2>4. CASE RegenLooksForFile(g) \/ RegenDecodes(g)
    <3> DEFINE GoesOn(q) == /\ maker' = [maker EXCEPT ![g] = q] /\ q.at \notin {"batch", "made"}
                            /\ late \ {g} \subseteq late' /\ (q.at # "idle" => late' = late)
                            /\ q.at \in Knowing => q.of = maker[g].of /\ ~(q.at = "keeping" /\ Overtaken(g))
    <3>1. \E q \in MakerStates : GoesOn(q)
      <4>1. ASSUME NEW p \in {"decoding", "keeping"}, Makes(g, p), p = "keeping" => g = generation,
                   late' = late
            PROVE  \E q \in MakerStates : GoesOn(q)
        <5> DEFINE q == [maker[g] EXCEPT !.at = p]
        <5>1. q \in MakerStates /\ q.at = p /\ q.of = maker[g].of
          BY <2>0 DEF MakerStates
        <5>2. maker' = [maker EXCEPT ![g] = q]
          BY <4>1 DEF Makes
        <5>3. p = "keeping" => ~Overtaken(g)
          BY <2>0, <4>1 DEF Overtaken
        <5> HIDE DEF q
        <5>4. GoesOn(q)
          BY <4>1, <5>1, <5>2, <5>3
        <5> QED BY <5>1, <5>4
      <4>2. ASSUME NEW q \in {Free, Told("missing"), Told("unmade")}, maker' = [maker EXCEPT ![g] = q],
                   (late' = late) \/ (q = Free /\ late' = late \ {g})
            PROVE  \E r \in MakerStates : GoesOn(r)
        <5>1. q \in MakerStates /\ q.at \in {"idle", "missing", "unmade"}
          OBVIOUS
        <5>2. GoesOn(q)
          BY <4>2, <5>1 DEF Knowing
        <5> QED BY <5>1, <5>2
      <4> HIDE DEF GoesOn
      <4>3. CASE RegenLooksForFile(g)
        BY <4>1, <4>2, <4>3 DEF RegenLooksForFile, GivesUp, Rests, Tells
      <4>4. CASE RegenDecodes(g)
        BY <4>1, <4>2, <4>4 DEF RegenDecodes, Newest, GivesUp, Rests, Tells
      <4> QED BY <2>4, <4>3, <4>4
    <3>2. bytesOf' = bytesOf /\ evicted' = evicted
      BY <2>4 DEF RegenLooksForFile, RegenDecodes
    <3> QED BY <3>1, <3>2, <2>0, <2>1, <2>2, <1>t, MakerIsOwn DEF LibraryTypeOK
  <2> QED BY <1>10, <2>3, <2>4
<1>11. ASSUME NEW m \in Makers, Decodes(m) PROVE LibraryInv'
  <2>1. /\ Busy(m) /\ maker[m].at \in Knowing /\ ~Overtaken(m)
        /\ UNCHANGED <<owner, born, removal, thumbStatus, inMemory, generation, causes, sentinels>>
    BY <1>11 DEF Decodes, Busy, Knowing, Overtaken
  <2>2. CASE Keeps(m)
    <3>1. bytesOf' = maker[m].of /\ evicted' = FALSE /\ late' = late /\ Tells(m, "made")
      BY <2>2 DEF Keeps
    <3> QED BY <2>1, <3>1, <1>t, MakerIsOwn DEF Tells, LibraryTypeOK, Knowing
  <2>3. CASE /\ bytesOf' = bytesOf /\ evicted' = evicted
             /\ (Rests(m) /\ late' = late \ {m}) \/ (Tells(m, "unmade") /\ late' = late)
    BY <2>1, <2>3, <1>t, MakerIsOwn DEF Tells, Rests, LibraryTypeOK, Knowing
  <2>4. CASE maker[m].at = "batch"
    BY <1>11, <2>2, <2>3, <2>4 DEF Decodes
  <2>5. CASE maker[m].at # "batch"
    BY <1>11, <2>2, <2>3, <2>5 DEF Decodes
  <2> QED BY <2>4, <2>5
<1>12. ASSUME NEW m \in Makers, MarksRow(m) PROVE LibraryInv'
  <2>1. /\ Busy(m) /\ maker[m].at \in {"made", "unmade", "missing"}
        /\ maker' = [maker EXCEPT ![m] = Free]
        /\ UNCHANGED <<owner, born, removal, bytesOf, generation, sentinels, evicted>>
        /\ causes \subseteq causes' /\ ("removal" \in causes' => "removal" \in causes)
    BY <1>12 DEF MarksRow, Busy, Rests
  <2>2. /\ maker' \in [Makers -> MakerStates] /\ maker'[m] = Free
        /\ \A n \in Makers \ {m} : maker'[n] = maker[n] /\ (Busy(n)' <=> Busy(n))
    BY <2>1, <1>t, MakerGoesOn
  <2>3. /\ thumbStatus' \in {"pending", "ready", "failed", "not_found"} /\ inMemory' \in BOOLEAN
    <3>1. CASE owner = 0
      BY <1>12, <1>t, <3>1 DEF MarksRow, LibraryTypeOK
    <3>2. CASE owner # 0
      BY <1>12, <1>t, <3>2 DEF MarksRow, Verdict, Mark, MarkReady, LibraryTypeOK
    <3> QED BY <3>1, <3>2
  <2>4. LibraryTypeOK' /\ MakerInv'
    BY <2>1, <2>2, <2>3, <1>t DEF LibraryInv, LibraryTypeOK, MakerInv, Busy, Knowing
  <2>5. OwnerInv'
    BY <2>1, <2>2 DEF LibraryInv, OwnerInv, Overtaken, Knowing
  <2>6. AloneInv'
    <3> SUFFICES ASSUME causes' = {} PROVE AloneInv!2'
      BY DEF AloneInv
    <3>1. causes = {} /\ AloneInv!2
      BY <2>1 DEF LibraryInv, AloneInv
    <3>2. /\ removal' # "none" => ~evicted'
          /\ \A n \in Makers : maker'[n].at = "made" => bytesOf' # 0 \/ evicted'
          /\ ~Busy(m)'
      BY <2>1, <2>2, <3>1 DEF Busy
    <3>3. CASE owner # 0 /\ maker[m].at = "made"
      <4>1. /\ thumbStatus' = "ready" /\ late' = {n \in Makers \ {m} : Busy(n)}
        BY <1>12, <3>3 DEF MarksRow, Verdict, MarkReady
      <4> QED BY <2>1, <2>2, <3>1, <3>2, <3>3, <4>1
    <3>4. CASE ~(owner # 0 /\ maker[m].at = "made")
      <4>1. late' = late \ {m}
        BY <1>12, <3>4 DEF MarksRow
      <4>2. inMemory' = inMemory
        <5>1. CASE owner = 0
          BY <1>12, <5>1 DEF MarksRow
        <5>2. CASE owner # 0
          BY <1>12, <2>1, <3>4, <5>2 DEF MarksRow, Verdict, Mark
        <5> QED BY <5>1, <5>2
      <4>3. sentinels /\ inMemory => thumbStatus' = thumbStatus
        BY <1>12, <2>1, <3>1, <3>4 DEF MarksRow
      <4> QED BY <2>1, <2>2, <3>1, <3>2, <4>1, <4>2, <4>3
    <3> QED BY <3>3, <3>4
  <2> QED BY <2>4, <2>5, <2>6 DEF LibraryInv
<1> QED BY <1>1, <1>2, <1>3, <1>4, <1>5, <1>6, <1>7, <1>8, <1>9, <1>10, <1>11, <1>12 DEF LibraryNext

\* However many grids ask at once, and however often rows go and their ids are
\* used again: the picture under an id is that of the row that has the id, unless
\* a row was deleted while one was being made (get_media_thumbnail, routes.py:3722).
THEOREM ThumbsAreOwn == LibrarySpec => []ThumbIsOfItem
<1>1. LibraryInv => ThumbIsOfItem
  BY DEF LibraryInv, OwnerInv, ThumbIsOfItem
<1> QED BY InitIsOwn, NextIsOwn, <1>1, PTL DEF LibrarySpec

\* However many makers overlap, and whatever is evicted or lost in a restart: a
\* row that says failed or not_found has no picture in memory, so that the next
\* regeneration takes it up, until a maker reports a failure that was at work
\* when another's picture was recorded, or when its picture was evicted, or a row
\* is deleted under one.
THEOREM FailuresAreRetried == LibrarySpec => []FailureIsRetried
<1>1. LibraryInv => FailureIsRetried
  BY DEF LibraryInv, AloneInv, FailureIsRetried
<1> QED BY InitIsOwn, NextIsOwn, <1>1, PTL DEF LibrarySpec

-----------------------------------------------------------------------------
(* LibraryCuration.                                                        *)

CurationTypeOK ==
  /\ itemState \in [LibraryItems -> {"absent", "pending", "kept", "trashed", "deleted"}]
  /\ emptying \in [at : {"idle", "selected", "unlinked"}, ids : SUBSET LibraryItems]
  /\ emptying.at = "idle" => emptying.ids = {}

\* A content that was never repeated is that of one row, of those in the
\* library and those the emptying has selected.
Concerned(i) == InLibrary(i) \/ i \in emptying.ids
OneRowPerContent ==
  \A i, j \in LibraryItems :
    Concerned(i) /\ Concerned(j) /\ PhotoOf[i] = PhotoOf[j] /\ PhotoOf[i] \notin repeated => i = j

\* A row that is selected has its file until the emptying removes it.
Unlinked(i) == emptying.at = "unlinked" /\ i \in emptying.ids
FilesInv ==
  \A i \in LibraryItems :
    InLibrary(i) /\ ~Unlinked(i) /\ i \notin interrupted /\ PhotoOf[i] \notin repeated \cup misled
      => FilesOf(PhotoOf[i]) # {}

CurationInv == CurationTypeOK /\ OneRowPerContent /\ FilesInv

-----------------------------------------------------------------------------

LEMMA InitCurates == CurationInit => CurationInv
BY DEF CurationInit, NoEmptying, CurationInv, CurationTypeOK, OneRowPerContent, FilesInv,
       Concerned, InLibrary

\* Removing the files of the rows I hurts no other row of the library, but for
\* what a row without a hash takes by mistake.
LEMMA RemovalSpares ==
  ASSUME CurationInv, NEW I \in SUBSET LibraryItems, \A j \in I : Concerned(j), RemovesFiles(I),
         NEW i \in LibraryItems \ I, InLibrary(i), PhotoOf[i] \notin repeated \cup misled'
  PROVE  FilesOf(PhotoOf[i])' = FilesOf(PhotoOf[i]) /\ misled \subseteq misled'
<1>0. PICK J \in SUBSET I : \E file \in [J -> vault] :
        /\ \A j \in J : file[j] \in LocatedFiles(j)
        /\ vault' = vault \ {file[j] : j \in J}
        /\ misled' = misled \cup {PhotoOf[file[j]] :
                                j \in {k \in J \cap unhashed : PhotoOf[file[k]] # PhotoOf[k]}}
  BY DEF RemovesFiles
<1>1. PICK file \in [J -> vault] :
        /\ \A j \in J : file[j] \in LocatedFiles(j)
        /\ vault' = vault \ {file[j] : j \in J}
        /\ misled' = misled \cup {PhotoOf[file[j]] :
                                j \in {k \in J \cap unhashed : PhotoOf[file[k]] # PhotoOf[k]}}
  BY <1>0
<1>2. ASSUME NEW j \in J PROVE PhotoOf[file[j]] # PhotoOf[i]
  <2>1. PhotoOf[j] # PhotoOf[i]
    BY DEF CurationInv, OneRowPerContent, Concerned
  <2>2. CASE j \in unhashed
    BY <1>1, <2>1, <2>2
  <2>3. CASE j \notin unhashed
    BY <1>1, <2>1, <2>3 DEF LocatedFiles, FilesOf
  <2> QED BY <2>2, <2>3
<1> QED BY <1>1, <1>2 DEF FilesOf

\* Rows that change from one state of the library to the other.
LEMMA MovesKeep ==
  ASSUME CurationInv, NEW I \in SUBSET LibraryItems, NEW s \in {"kept", "trashed"},
         \A i \in I : InLibrary(i), Become(I, s),
         UNCHANGED <<unhashed, vault, emptying, curationHistory>>
  PROVE  CurationInv'
<1>1. \A i \in LibraryItems : InLibrary(i)' <=> InLibrary(i)
  BY DEF Become, InLibrary
<1>2. CurationTypeOK'
  BY DEF CurationInv, CurationTypeOK, Become
<1> QED
  BY <1>1, <1>2 DEF CurationInv, OneRowPerContent, FilesInv, FilesOf, Concerned, Unlinked, curationHistory

LEMMA ImportKeeps ==
  ASSUME CurationInv, NEW i \in LibraryItems, ItemIsImported(i)
  PROVE  CurationInv'
<1>1. /\ itemState[i] = "pending" /\ emptying' = emptying /\ interrupted' = interrupted
      /\ itemState' = [k \in LibraryItems |-> IF k \in {i} THEN "kept" ELSE itemState[k]]
  BY DEF ItemIsImported, Become
<1>2. \A k \in LibraryItems : InLibrary(k)' <=> InLibrary(k) \/ k = i
  BY <1>1 DEF InLibrary
<1>3. CurationTypeOK'
  BY <1>1 DEF CurationInv, CurationTypeOK
<1>4. /\ repeated \subseteq repeated'
      /\ \A j \in LibraryItems \ {i} :
           Concerned(j) /\ PhotoOf[j] = PhotoOf[i] => PhotoOf[i] \in repeated'
  <2>1. repeated' = IF \E j \in {k \in LibraryItems : InLibrary(k)} \cup emptying.ids :
                             j # i /\ PhotoOf[j] = PhotoOf[i]
                    THEN repeated \cup {PhotoOf[i]} ELSE repeated
    BY DEF ItemIsImported
  <2> QED BY <2>1 DEF Concerned
<1>5. OneRowPerContent'
  BY <1>1, <1>2, <1>4 DEF CurationInv, OneRowPerContent, Concerned
<1>6. /\ FilesOf(PhotoOf[i])' # {} /\ misled' = misled
      /\ \A p : FilesOf(p) \subseteq FilesOf(p)'
  BY DEF ItemIsImported, FilesOf
<1>7. FilesInv'
  BY <1>1, <1>2, <1>4, <1>6 DEF CurationInv, FilesInv, Unlinked
<1> QED BY <1>3, <1>5, <1>7 DEF CurationInv

LEMMA OverwriteKeeps ==
  ASSUME CurationInv, NEW i \in LibraryItems, NEW ok \in BOOLEAN, OverwriteDuplicates(i, ok)
  PROVE  CurationInv'
<1> DEFINE I == Overwritten(i)
<1>1. I \subseteq LibraryItems /\ \A j \in I : InLibrary(j) /\ Concerned(j)
  BY DEF Overwritten, Concerned
<1>2. RemovesFiles(I) /\ UNCHANGED <<emptying, repeated>>
  BY DEF OverwriteDuplicates
<1>3. \/ Become(I, "deleted") /\ interrupted' = interrupted
      \/ itemState' = itemState /\ interrupted' = interrupted \cup I
  BY DEF OverwriteDuplicates
<1> HIDE DEF I
<1>4. CurationTypeOK'
  BY <1>1, <1>2, <1>3 DEF CurationInv, CurationTypeOK, Become
<1>5. \A k \in LibraryItems : InLibrary(k)' => InLibrary(k) /\ (k \in I => k \in interrupted')
  BY <1>1, <1>3 DEF Become, InLibrary
<1>6. OneRowPerContent'
  BY <1>2, <1>5 DEF CurationInv, OneRowPerContent, Concerned
<1>7. interrupted \subseteq interrupted'
  BY <1>3
<1>8. FilesInv'
  <2> SUFFICES ASSUME NEW k \in LibraryItems, InLibrary(k)', ~Unlinked(k)', k \notin interrupted',
                      PhotoOf[k] \notin repeated' \cup misled'
               PROVE  FilesOf(PhotoOf[k])' # {}
    BY DEF FilesInv, FilesOf
  <2>1. InLibrary(k) /\ ~Unlinked(k) /\ k \notin interrupted /\ k \notin I
    BY <1>2, <1>5, <1>7 DEF Unlinked
  <2>2. FilesOf(PhotoOf[k])' = FilesOf(PhotoOf[k]) /\ misled \subseteq misled'
    BY <1>1, <1>2, <2>1, RemovalSpares
  <2> QED BY <1>2, <2>1, <2>2 DEF CurationInv, FilesInv
<1> QED BY <1>4, <1>6, <1>8 DEF CurationInv

LEMMA EmptyingKeeps ==
  ASSUME CurationInv,
         EmptySelects \/ EmptyUnlinks \/ EmptyCommits \/ EmptyIsLost
  PROVE  CurationInv'
<1> USE DEF CurationInv
<1>1. CASE EmptySelects
  <2> DEFINE T == {i \in LibraryItems : itemState[i] = "trashed"}
  <2>1. /\ emptying' = [at |-> "selected", ids |-> T] /\ emptying.at = "idle"
        /\ UNCHANGED <<itemState, vault, curationHistory>>
    BY <1>1 DEF EmptySelects, curationRows
  <2>2. T \subseteq LibraryItems /\ \A i \in T : InLibrary(i)
    BY DEF InLibrary
  <2> HIDE DEF T
  <2>3. \A i \in LibraryItems : /\ InLibrary(i)' = InLibrary(i) /\ (Concerned(i)' => Concerned(i))
                                /\ ~Unlinked(i) /\ ~Unlinked(i)'
    BY <2>1, <2>2 DEF InLibrary, Concerned, Unlinked
  <2>4. CurationTypeOK'
    BY <2>1, <2>2 DEF CurationTypeOK
  <2>5. OneRowPerContent' /\ FilesInv'
    BY <2>1, <2>3 DEF OneRowPerContent, FilesInv, FilesOf, curationHistory
  <2> QED BY <2>4, <2>5
<1>2. CASE EmptyCommits
  <2>1. /\ emptying' = NoEmptying
        /\ itemState' = [i \in LibraryItems |-> IF i \in emptying.ids THEN "deleted" ELSE itemState[i]]
        /\ UNCHANGED <<vault, curationHistory>>
    BY <1>2 DEF EmptyCommits, Become
  <2>2. \A i \in LibraryItems : /\ InLibrary(i)' => InLibrary(i) /\ ~Unlinked(i)
                                /\ Concerned(i)' => Concerned(i)
    BY <2>1 DEF InLibrary, Concerned, Unlinked, NoEmptying
  <2>3. CurationTypeOK'
    BY <2>1 DEF CurationTypeOK, NoEmptying
  <2>4. OneRowPerContent' /\ FilesInv'
    BY <2>1, <2>2 DEF OneRowPerContent, FilesInv, FilesOf, curationHistory
  <2> QED BY <2>3, <2>4
<1>3. CASE EmptyIsLost
  <2>1. /\ emptying' = NoEmptying /\ UNCHANGED <<itemState, vault, repeated, misled>>
        /\ interrupted \subseteq interrupted'
        /\ emptying.at = "unlinked" => emptying.ids \subseteq interrupted'
    BY <1>3 DEF EmptyIsLost, curationRows
  <2>2. \A i \in LibraryItems : InLibrary(i)' = InLibrary(i) /\ (Concerned(i)' => Concerned(i))
    BY <2>1 DEF InLibrary, Concerned, NoEmptying
  <2>3. \A i \in LibraryItems : i \notin interrupted' => ~Unlinked(i) /\ i \notin interrupted
    BY <2>1 DEF Unlinked
  <2>4. CurationTypeOK'
    BY <2>1 DEF CurationTypeOK, NoEmptying
  <2>5. OneRowPerContent' /\ FilesInv'
    BY <2>1, <2>2, <2>3 DEF OneRowPerContent, FilesInv, FilesOf
  <2> QED BY <2>4, <2>5
<1>4. CASE EmptyUnlinks
  <2> DEFINE U == emptying.ids
  <2>1. /\ RemovesFiles(U) /\ U \subseteq LibraryItems
        /\ emptying' = [emptying EXCEPT !.at = "unlinked"] /\ emptying.at = "selected"
        /\ UNCHANGED <<itemState, repeated, interrupted>>
    BY <1>4 DEF EmptyUnlinks, curationRows, CurationTypeOK
  <2>2. emptying'.ids = U /\ emptying'.at = "unlinked"
    BY <2>1 DEF CurationTypeOK
  <2>3. CurationTypeOK'
    BY <2>1 DEF CurationTypeOK
  <2>4. \A i \in LibraryItems : InLibrary(i)' = InLibrary(i) /\ Concerned(i)' = Concerned(i)
    BY <2>1, <2>2 DEF InLibrary, Concerned
  <2>5. OneRowPerContent'
    BY <2>1, <2>4 DEF OneRowPerContent
  <2>6. FilesInv'
    <3> SUFFICES ASSUME NEW i \in LibraryItems, InLibrary(i)', ~Unlinked(i)', i \notin interrupted',
                        PhotoOf[i] \notin repeated' \cup misled'
                 PROVE  FilesOf(PhotoOf[i])' # {}
      BY DEF FilesInv, FilesOf
    <3>1. /\ InLibrary(i) /\ ~Unlinked(i) /\ i \notin U /\ i \notin interrupted
          /\ PhotoOf[i] \notin repeated
      BY <2>1, <2>2, <2>4 DEF Unlinked
    <3>2. \A j \in U : Concerned(j)
      BY DEF Concerned
    <3> HIDE DEF U
    <3>3. FilesOf(PhotoOf[i])' = FilesOf(PhotoOf[i]) /\ misled \subseteq misled'
      BY <2>1, <3>1, <3>2, RemovalSpares
    <3> QED BY <3>1, <3>3 DEF FilesInv
  <2> QED BY <2>3, <2>5, <2>6
<1> QED BY <1>1, <1>2, <1>3, <1>4

LEMMA NextCurates == CurationInv /\ [CurationNext]_curationVars => CurationInv'
<1> SUFFICES ASSUME CurationInv, [CurationNext]_curationVars PROVE CurationInv'
  OBVIOUS
<1>1. ASSUME NEW i \in LibraryItems, ItemIsQueued(i) PROVE CurationInv'
  <2>1. \A k \in LibraryItems : InLibrary(k)' => InLibrary(k)
    BY <1>1 DEF ItemIsQueued, Become, InLibrary
  <2>2. CurationTypeOK'
    BY <1>1 DEF ItemIsQueued, Become, CurationInv, CurationTypeOK
  <2> QED BY <1>1, <2>1, <2>2 DEF ItemIsQueued, CurationInv, OneRowPerContent, FilesInv, FilesOf, Concerned,
                                  Unlinked, curationHistory
<1>2. ASSUME NEW i \in LibraryItems, TrashItem(i) \/ RestoreItem(i) \/ ResolveGroup(i)
      PROVE  CurationInv'
  <2>1. PICK I \in SUBSET LibraryItems, s \in {"kept", "trashed"} :
          (\A j \in I : InLibrary(j)) /\ Become(I, s) /\ UNCHANGED <<unhashed, vault, emptying, curationHistory>>
    <3>1. CASE TrashItem(i)
      BY <3>1 DEF TrashItem, InLibrary
    <3>2. CASE RestoreItem(i)
      BY <3>2 DEF RestoreItem, InLibrary
    <3>3. CASE ResolveGroup(i)
      <4> DEFINE I == {j \in shown \ {i} : InLibrary(j)}
      <4>1. Become(I, "trashed") /\ UNCHANGED <<unhashed, vault, emptying, curationHistory>>
        BY <3>3 DEF ResolveGroup
      <4>2. Become(I \cap LibraryItems, "trashed")
        BY <4>1 DEF Become
      <4> QED BY <4>1, <4>2
    <3> QED BY <1>2, <3>1, <3>2, <3>3
  <2> QED BY <2>1, MovesKeep
<1>3. ASSUME NEW i \in LibraryItems, ItemIsImported(i) \/ \E ok \in BOOLEAN : OverwriteDuplicates(i, ok)
      PROVE  CurationInv'
  BY <1>3, ImportKeeps, OverwriteKeeps
<1>4. ASSUME UNCHANGED <<itemState, vault, emptying, curationHistory>> PROVE CurationInv'
  BY <1>4 DEF CurationInv, CurationTypeOK, OneRowPerContent, FilesInv, FilesOf, Concerned, Unlinked, InLibrary,
              curationHistory
<1>5. ASSUME NEW i \in LibraryItems, ShowGroup(i) PROVE CurationInv'
  BY <1>4, <1>5 DEF ShowGroup, curationRows
<1>6. CASE UNCHANGED curationVars
  BY <1>4, <1>6 DEF curationVars, curationRows, curationHistory
<1> QED BY <1>1, <1>2, <1>3, <1>5, <1>6, EmptyingKeeps DEF CurationNext

\* Neither emptying the trash nor overwriting a duplicate takes the file of an
\* item that was not chosen, unless two items were about that content, or a row
\* without a hash was chosen and took a file of the same name and size.
THEOREM OthersAreSpared == CurationSpec => []OthersKeepTheirFile
<1>1. CurationInv => OthersKeepTheirFile
  BY DEF CurationInv, FilesInv, OthersKeepTheirFile, HasItsFile, Unlinked
<1> QED BY InitCurates, NextCurates, <1>1, PTL DEF CurationSpec
=============================================================================
