------------------------- MODULE ArchiveSlotsProofs -------------------------
(***************************************************************************)
(* Proofs about ArchiveSlots: for any number of items, names, workers,     *)
(* retries and imports, a claimed name is exclusive until a copy is        *)
(* rejected, a row that says COMPLETED has its file, archived files stay,  *)
(* and there is no second copy of an item's bytes.                         *)
(***************************************************************************)
EXTENDS ArchiveSlots, FiniteSetTheorems, TLAPS

Copying == {"claimed", "writing", "written", "misread"}

\* With one worker, one item at a time is anywhere but idle.
SoloInv == ~parallel => \A i, j \in Running : i = j

\* Who holds which name, and how often it has copied.
SlotInv ==
  \A i \in Items :
    /\ i \in todo => stage[i] = "idle"
    /\ stage[i] = "idle" => slot[i] = NoSlot
    /\ stage[i] \in Copying \cup {"checking", "retrying"} => slot[i] # NoSlot
    /\ slot[i] # NoSlot => slot[i] \in SlotsOf(i)
    /\ stage[i] = "retrying" => attempt[i] < MaxAttempts /\ Name[i] \in rejected

\* What the files of the claimed name look like at every stage, unless two
\* workers may be on it.
FileAt(i) ==
  \/ Disturbed(Name[i])
  \/ /\ stage[i] \in Copying => archived[slot[i]] = {} /\ partial[slot[i]] # {}
     /\ stage[i] = "writing" => partial[slot[i]] = {"empty"}
     /\ stage[i] = "written" => partial[slot[i]] = {Content[i]}
     /\ stage[i] = "retrying" => archived[slot[i]] = {}
     /\ stage[i] = "checking" => archived[slot[i]] # {}
     /\ stage[i] = "published" /\ slot[i] # NoSlot => archived[slot[i]] = {Content[i]}

FileInv == \A i \in Items : FileAt(i)

\* The file item i counts on; a single worker is not about to remove it.
Kept(i) ==
  \/ Disturbed(Name[i]) \/ Name[i] \in removed
  \/ \E s \in Located(i) :
       ~parallel => \A j \in Items : stage[j] = "checking" => slot[j] # s

RowInv ==
  \A i \in Items : row[i] = "COMPLETED" \/ stage[i] = "published" => Kept(i)

IInv ==
  TypeOK /\ SoloInv /\ SlotInv /\ ClaimIsExclusiveUntilRejected /\ FileInv /\ RowInv

-----------------------------------------------------------------------------
(* Type correctness, and who holds which name.                               *)

LEMMA TypeWork ==
  ASSUME TypeOK, SlotInv, NEW i \in Items, Work(i)
  PROVE  TypeOK'
<1> USE SlotsAssumption DEF SlotsAssumption, TypeOK, Bytes, Contents, disk, past
<1>1. CASE AlreadyArchived(i)
  BY <1>1 DEF AlreadyArchived, Takes, Enters
<1>2. CASE Claim(i)
  BY <1>2 DEF Claim, Takes, Enters, IsFirstFree
<1>3. CASE Refused(i)
  BY <1>3 DEF Refused, Takes, Enters
<1>4. CASE OpenPartial(i)
  <2>1. CASE stage[i] = "claimed"
    BY <1>4, <2>1 DEF OpenPartial, Enters
  <2>2. CASE stage[i] = "retrying"
    <3>1. attempt[i] + 1 \in 0 .. MaxAttempts
      BY <2>2 DEF SlotInv
    <3> QED
      BY <1>4, <2>2, <3>1 DEF OpenPartial, Enters, NextAttempt
  <2> QED
    BY <1>4, <2>1, <2>2 DEF OpenPartial
<1>5. CASE EndCopy(i)
  BY <1>5 DEF EndCopy, Enters
<1>6. CASE CopyFails(i)
  BY <1>6 DEF CopyFails, Enters
<1>7. CASE Publish(i)
  BY <1>7 DEF Publish, Enters
<1>8. CASE RejectCopy(i)
  BY <1>8 DEF RejectCopy, Enters, AfterRejection
<1>9. CASE CheckPasses(i)
  BY <1>9 DEF CheckPasses, Enters
<1>10. CASE CheckFails(i)
  BY <1>10 DEF CheckFails, Enters, AfterRejection
<1>11. CASE MarkCompleted(i)
  BY <1>11 DEF MarkCompleted, Ends, Enters
<1>12. CASE MarkFailed(i)
  BY <1>12 DEF MarkFailed, Ends, Enters
<1> QED
  BY <1>1, <1>2, <1>3, <1>4, <1>5, <1>6, <1>7, <1>8, <1>9, <1>10, <1>11, <1>12 DEF Work

LEMMA TakesAlone ==
  ASSUME TypeOK, NEW i \in Items, Takes(i), ~parallel
  PROVE  Running = {}
<1>1. IsFiniteSet(Running)
  BY FS_Subset, SlotsAssumption DEF SlotsAssumption, Running
<1>2. Cardinality(Running) \in Nat /\ Cardinality(Running) < 1
  BY <1>1, FS_CardinalityType DEF Takes, Width
<1> QED
  BY <1>1, <1>2, FS_EmptySet

LEMMA SoloWork ==
  ASSUME TypeOK, SoloInv, NEW i \in Items, Work(i)
  PROVE  SoloInv'
<1> USE SlotsAssumption DEF SlotsAssumption, SoloInv, Running, TypeOK
<1>1. CASE AlreadyArchived(i)
  <2>1. /\ ~parallel => Running = {}
        /\ stage' = [stage EXCEPT ![i] = "published"] /\ parallel' = parallel
    BY <1>1, TakesAlone DEF AlreadyArchived, Enters
  <2> QED
    BY <2>1
<1>2. CASE Claim(i)
  BY <1>2, TakesAlone DEF Claim, Takes, Enters, TypeOK
<1>3. CASE Refused(i)
  BY <1>3, TakesAlone DEF Refused, Takes, Enters, TypeOK
<1>4. CASE OpenPartial(i)
  BY <1>4 DEF OpenPartial, Enters, NextAttempt
<1>5. CASE EndCopy(i)
  BY <1>5 DEF EndCopy, Enters
<1>6. CASE CopyFails(i)
  BY <1>6 DEF CopyFails, Enters
<1>7. CASE Publish(i)
  BY <1>7 DEF Publish, Enters
<1>8. CASE RejectCopy(i)
  BY <1>8 DEF RejectCopy, Enters, AfterRejection
<1>9. CASE CheckPasses(i)
  BY <1>9 DEF CheckPasses, Enters
<1>10. CASE CheckFails(i)
  BY <1>10 DEF CheckFails, Enters, AfterRejection
<1>11. CASE MarkCompleted(i)
  BY <1>11 DEF MarkCompleted, Ends, Enters
<1>12. CASE MarkFailed(i)
  BY <1>12 DEF MarkFailed, Ends, Enters
<1> QED
  BY <1>1, <1>2, <1>3, <1>4, <1>5, <1>6, <1>7, <1>8, <1>9, <1>10, <1>11, <1>12 DEF Work

LEMMA SlotWork ==
  ASSUME TypeOK, SlotInv, NEW i \in Items, Work(i)
  PROVE  SlotInv'
<1> USE SlotsAssumption DEF SlotsAssumption, SlotInv, Copying, TypeOK
<1>0. NoSlot \notin Slots /\ \A k \in Items : SlotsOf(k)' = SlotsOf(k)
  BY SlotsAssumption DEF NoSlot, Slots, SlotsOf, SlotsAssumption
<1>1. CASE AlreadyArchived(i)
  BY <1>1, <1>0 DEF AlreadyArchived, Takes, Enters
<1>2. CASE Claim(i)
  <2>1. PICK s \in SlotsOf(i) : slot' = [slot EXCEPT ![i] = s]
    BY <1>2 DEF Claim, IsFirstFree
  <2>2. s \in Slots /\ s # NoSlot
    BY <1>0, <2>1 DEF SlotsOf
  <2>3. stage' = [stage EXCEPT ![i] = "claimed"] /\ todo' = todo \ {i} /\ UNCHANGED rejected
    BY <1>2 DEF Claim, Takes, Enters
  <2>4. ASSUME NEW j \in Items, j # i
        PROVE  stage'[j] = stage[j] /\ slot'[j] = slot[j] /\ attempt'[j] = attempt[j]
    BY <1>2, <2>1, <2>3, <2>4 DEF Claim
  <2> QED
    BY <1>0, <2>1, <2>2, <2>3, <2>4
<1>3. CASE Refused(i)
  BY <1>3, <1>0 DEF Refused, Takes, Enters
<1>4. CASE OpenPartial(i)
  BY <1>4, <1>0 DEF OpenPartial, Enters, NextAttempt, SlotsOf
<1>5. CASE EndCopy(i)
  BY <1>5, <1>0 DEF EndCopy, Enters
<1>6. CASE CopyFails(i)
  BY <1>6, <1>0 DEF CopyFails, Enters
<1>7. CASE Publish(i)
  BY <1>7, <1>0 DEF Publish, Enters
<1>8. CASE RejectCopy(i)
  BY <1>8, <1>0 DEF RejectCopy, Enters, AfterRejection, SlotsOf
<1>9. CASE CheckPasses(i)
  BY <1>9, <1>0 DEF CheckPasses, Enters
<1>10. CASE CheckFails(i)
  BY <1>10, <1>0 DEF CheckFails, Enters, AfterRejection, SlotsOf
<1>11. CASE MarkCompleted(i)
  BY <1>11, <1>0 DEF MarkCompleted, Ends, Enters
<1>12. CASE MarkFailed(i)
  BY <1>12, <1>0 DEF MarkFailed, Ends, Enters
<1> QED
  BY <1>1, <1>2, <1>3, <1>4, <1>5, <1>6, <1>7, <1>8, <1>9, <1>10, <1>11, <1>12 DEF Work

-----------------------------------------------------------------------------
(* Exclusive names, and the files under them.                              *)

\* A free name is held by nobody, but for a worker that was told to retry.
LEMMA FreeIsUnclaimed ==
  ASSUME TypeOK, SlotInv, FileInv, NEW i \in Items, Takes(i),
         NEW j \in Holding, IsFree(slot[j])
  PROVE  Disturbed(Name[j])
<1>1. parallel
  BY TakesAlone DEF Holding, Running
<1>2. stage[j] \in Copying \cup {"checking", "retrying", "published"}
  BY DEF Copying, Holding, TypeOK
<1>3. CASE stage[j] = "retrying"
  BY <1>1, <1>3 DEF SlotInv, Disturbed, Holding
<1>4. CASE stage[j] # "retrying"
  BY <1>2, <1>4 DEF FileInv, FileAt, IsFree, Holding
<1> QED
  BY <1>3, <1>4

LEMMA ExclusiveWork ==
  ASSUME TypeOK, SoloInv, SlotInv, FileInv, ClaimIsExclusiveUntilRejected, NEW i \in Items, Work(i)
  PROVE  ClaimIsExclusiveUntilRejected'
<1> USE SlotsAssumption DEF SlotsAssumption, ClaimIsExclusiveUntilRejected, Holding, Disturbed, TypeOK
<1>1. CASE AlreadyArchived(i)
  BY <1>1 DEF AlreadyArchived, Takes, Enters, SlotInv
<1>2. CASE Claim(i)
  <2>1. PICK s \in Slots : IsFirstFree(i, s) /\ slot' = [slot EXCEPT ![i] = s]
    BY <1>2 DEF Claim
  <2>2. ASSUME NEW j \in Holding, j # i, slot[j] = s
        PROVE  Disturbed(Name[i])
    <3>1. Name[j] = Name[i]
      BY <2>1, <2>2 DEF SlotInv, IsFirstFree, SlotsOf
    <3> QED
      BY <1>2, <2>1, <2>2, <3>1, FreeIsUnclaimed DEF IsFirstFree, Claim
  <2>3. Holding' \subseteq Holding \cup {i}
    BY <1>2 DEF Claim, Enters
  <2> QED
    BY <1>2, <2>1, <2>2, <2>3 DEF Claim, SlotInv, IsFirstFree, SlotsOf
<1>3. CASE Refused(i)
  BY <1>3 DEF Refused, Takes, Enters, SlotInv
<1>4. CASE OpenPartial(i)
  BY <1>4 DEF OpenPartial, Enters, NextAttempt
<1>5. CASE EndCopy(i)
  BY <1>5 DEF EndCopy, Enters
<1>6. CASE CopyFails(i)
  BY <1>6 DEF CopyFails, Enters
<1>7. CASE Publish(i)
  BY <1>7 DEF Publish, Enters
<1>8. CASE RejectCopy(i)
  BY <1>8 DEF RejectCopy, Enters, AfterRejection
<1>9. CASE CheckPasses(i)
  BY <1>9 DEF CheckPasses, Enters
<1>10. CASE CheckFails(i)
  BY <1>10 DEF CheckFails, Enters, AfterRejection
<1>11. CASE MarkCompleted(i)
  BY <1>11 DEF MarkCompleted, Ends, Enters
<1>12. CASE MarkFailed(i)
  BY <1>12 DEF MarkFailed, Ends, Enters
<1> QED
  BY <1>1, <1>2, <1>3, <1>4, <1>5, <1>6, <1>7, <1>8, <1>9, <1>10, <1>11, <1>12 DEF Work

\* A step of item i changes no other item.
LEMMA OthersWork ==
  ASSUME TypeOK, NEW i \in Items, Work(i), NEW j \in Items, j # i
  PROVE  stage'[j] = stage[j] /\ slot'[j] = slot[j] /\ row'[j] = row[j]
<1> USE DEF TypeOK
<1>1. CASE AlreadyArchived(i)
  BY <1>1 DEF AlreadyArchived, Takes, Enters
<1>2. CASE Claim(i)
  BY <1>2 DEF Claim, Takes, Enters
<1>3. CASE Refused(i)
  BY <1>3 DEF Refused, Takes, Enters
<1>4. CASE OpenPartial(i)
  BY <1>4 DEF OpenPartial, Enters
<1>5. CASE EndCopy(i)
  BY <1>5 DEF EndCopy, Enters
<1>6. CASE CopyFails(i)
  BY <1>6 DEF CopyFails, Enters
<1>7. CASE Publish(i)
  BY <1>7 DEF Publish, Enters
<1>8. CASE RejectCopy(i)
  BY <1>8 DEF RejectCopy, Enters
<1>9. CASE CheckPasses(i)
  BY <1>9 DEF CheckPasses, Enters
<1>10. CASE CheckFails(i)
  BY <1>10 DEF CheckFails, Enters
<1>11. CASE MarkCompleted(i)
  BY <1>11 DEF MarkCompleted, Ends, Enters
<1>12. CASE MarkFailed(i)
  BY <1>12 DEF MarkFailed, Ends, Enters
<1> QED
  BY <1>1, <1>2, <1>3, <1>4, <1>5, <1>6, <1>7, <1>8, <1>9, <1>10, <1>11, <1>12 DEF Work

LEMMA HistoryWork ==
  ASSUME NEW i \in Items, Work(i)
  PROVE  /\ parallel' = parallel /\ rejected \subseteq rejected'
         /\ overlooked \subseteq overlooked' /\ removed' = removed
<1> USE DEF past
<1>1. CASE AlreadyArchived(i)
  BY <1>1 DEF AlreadyArchived
<1>2. CASE Claim(i)
  BY <1>2 DEF Claim
<1>3. CASE Refused(i)
  BY <1>3 DEF Refused
<1>4. CASE OpenPartial(i)
  BY <1>4 DEF OpenPartial
<1>5. CASE EndCopy(i)
  BY <1>5 DEF EndCopy
<1>6. CASE CopyFails(i)
  BY <1>6 DEF CopyFails
<1>7. CASE Publish(i)
  BY <1>7 DEF Publish
<1>8. CASE RejectCopy(i)
  BY <1>8 DEF RejectCopy
<1>9. CASE CheckPasses(i)
  BY <1>9 DEF CheckPasses
<1>10. CASE CheckFails(i)
  BY <1>10 DEF CheckFails
<1>11. CASE MarkCompleted(i)
  BY <1>11 DEF MarkCompleted, Ends
<1>12. CASE MarkFailed(i)
  BY <1>12 DEF MarkFailed, Ends
<1> QED
  BY <1>1, <1>2, <1>3, <1>4, <1>5, <1>6, <1>7, <1>8, <1>9, <1>10, <1>11, <1>12 DEF Work

\* It changes the files of one name at most: the one it holds or takes.
LEMMA FilesWork ==
  ASSUME TypeOK, SlotInv, NEW i \in Items, Work(i), NEW s \in Slots,
         i \in Holding => s # slot[i], i \in Holding' => s # slot'[i]
  PROVE  archived'[s] = archived[s] /\ partial'[s] = partial[s]
<1> USE DEF TypeOK
<1>0. stage[i] \in Copying \cup {"checking", "retrying"} => i \in Holding
  BY DEF SlotInv, Holding, Copying
<1>1. CASE AlreadyArchived(i)
  BY <1>1 DEF AlreadyArchived, disk
<1>2. CASE Claim(i)
  <2>1. PICK r \in Slots : /\ partial' = [partial EXCEPT ![r] = {"empty"}]
                           /\ slot' = [slot EXCEPT ![i] = r]
    BY <1>2 DEF Claim
  <2>2. stage'[i] = "claimed" /\ slot'[i] = r /\ r # NoSlot
    BY <1>2, <2>1, SlotsAssumption DEF Claim, Enters, Slots, NoSlot, SlotsAssumption
  <2> QED
    BY <1>2, <2>1, <2>2 DEF Claim, Holding
<1>3. CASE Refused(i)
  BY <1>3 DEF Refused, disk
<1>4. CASE OpenPartial(i)
  BY <1>0, <1>4 DEF OpenPartial, Copying
<1>5. CASE EndCopy(i)
  BY <1>0, <1>5 DEF EndCopy, Copying
<1>6. CASE CopyFails(i)
  BY <1>0, <1>6 DEF CopyFails, Copying
<1>7. CASE Publish(i)
  BY <1>0, <1>7 DEF Publish, Copying
<1>8. CASE RejectCopy(i)
  BY <1>0, <1>8 DEF RejectCopy, Copying
<1>9. CASE CheckPasses(i)
  BY <1>9 DEF CheckPasses, disk
<1>10. CASE CheckFails(i)
  BY <1>0, <1>10 DEF CheckFails, Copying
<1>11. CASE MarkCompleted(i)
  BY <1>11 DEF MarkCompleted, Ends, disk
<1>12. CASE MarkFailed(i)
  BY <1>12 DEF MarkFailed, Ends, disk
<1> QED
  BY <1>1, <1>2, <1>3, <1>4, <1>5, <1>6, <1>7, <1>8, <1>9, <1>10, <1>11, <1>12 DEF Work

\* An archived file is replaced only where two workers may be on the name, and
\* removed only by the check of the worker that holds it.
LEMMA ArchivedWork ==
  ASSUME TypeOK, SlotInv, FileInv, NEW i \in Items, Work(i),
         NEW s \in Slots, archived[s] # {}, archived'[s] # archived[s]
  PROVE  \/ Disturbed(s[1])'
         \/ CheckFails(i) /\ slot[i] = s /\ archived'[s] = {}
<1> USE DEF TypeOK
<1>0. /\ stage[i] \in Copying => slot[i] \in Slots /\ slot[i][1] = Name[i]
      /\ Disturbed(Name[i]) => Disturbed(Name[i])'
  BY HistoryWork DEF SlotInv, Copying, SlotsOf, Disturbed
<1>a. stage[i] \in Copying /\ ~Disturbed(Name[i]) => archived[slot[i]] = {} /\ partial[slot[i]] # {}
  BY DEF FileInv, FileAt
<1>1. CASE AlreadyArchived(i)
  BY <1>1 DEF AlreadyArchived, disk
<1>2. CASE Claim(i)
  BY <1>2 DEF Claim
<1>3. CASE Refused(i)
  BY <1>3 DEF Refused, disk
<1>4. CASE OpenPartial(i)
  BY <1>4 DEF OpenPartial
<1>5. CASE EndCopy(i)
  <2>1. stage[i] \in Copying /\ (s # slot[i] => archived'[s] = archived[s])
    BY <1>5 DEF EndCopy, Copying
  <2> QED
    BY <1>0, <1>a, <1>5, <2>1 DEF EndCopy
<1>6. CASE CopyFails(i)
  BY <1>6 DEF CopyFails
<1>7. CASE Publish(i)
  <2>1. stage[i] \in Copying /\ (s # slot[i] => archived'[s] = archived[s])
    BY <1>7 DEF Publish, Copying
  <2> QED
    BY <1>0, <1>a, <1>7, <2>1 DEF Publish
<1>8. CASE RejectCopy(i)
  <2>1. stage[i] \in Copying /\ (s # slot[i] => archived'[s] = archived[s])
    BY <1>8 DEF RejectCopy, Copying
  <2> QED
    BY <1>0, <1>a, <1>8, <2>1 DEF RejectCopy
<1>9. CASE CheckPasses(i)
  BY <1>9 DEF CheckPasses, disk
<1>10. CASE CheckFails(i)
  BY <1>10 DEF CheckFails
<1>11. CASE MarkCompleted(i)
  BY <1>11 DEF MarkCompleted, Ends, disk
<1>12. CASE MarkFailed(i)
  BY <1>12 DEF MarkFailed, Ends, disk
<1> QED
  BY <1>1, <1>2, <1>3, <1>4, <1>5, <1>6, <1>7, <1>8, <1>9, <1>10, <1>11, <1>12 DEF Work

LEMMA FileWork ==
  ASSUME TypeOK, SoloInv, SlotInv, FileInv, ClaimIsExclusiveUntilRejected,
         NEW i \in Items, Work(i)
  PROVE  FileInv'
<1>1. FileAt(i)'
  <2> USE DEF FileInv, TypeOK
  <2>0. NoSlot \notin Slots /\ (Disturbed(Name[i]) => Disturbed(Name[i])')
    BY HistoryWork, SlotsAssumption DEF NoSlot, Slots, SlotsAssumption, Disturbed
  <2>a. stage[i] \in Copying \cup {"checking", "retrying"} => slot[i] \in Slots
    BY DEF SlotInv, Copying
  <2>1. CASE AlreadyArchived(i)
    BY <2>1 DEF AlreadyArchived, Takes, Enters, FileAt, Copying, SlotInv
  <2>2. CASE Claim(i)
    <3>1. PICK s \in Slots : /\ IsFree(s) /\ slot' = [slot EXCEPT ![i] = s]
                             /\ partial' = [partial EXCEPT ![s] = {"empty"}]
      BY <2>2 DEF Claim, IsFirstFree
    <3> QED
      BY <2>2, <3>1 DEF Claim, Enters, FileAt, Copying, IsFree
  <2>3. CASE Refused(i)
    BY <2>3 DEF Refused, Takes, Enters, FileAt, Copying, SlotInv
  <2>4. CASE OpenPartial(i)
    BY <2>0, <2>a, <2>4 DEF OpenPartial, Enters, FileAt, Copying
  <2>5. CASE EndCopy(i)
    <3>1. CASE Disturbed(Name[i])
      BY <2>0, <3>1 DEF FileAt
    <3>2. CASE ~Disturbed(Name[i])
      <4>1. archived[slot[i]] = {} /\ partial[slot[i]] = {"empty"}
        BY <2>5, <3>2 DEF FileAt, EndCopy, Copying
      <4>2. PICK c \in {Content[i], "garbled"} :
              /\ partial' = [partial EXCEPT ![slot[i]] = {c}]
              /\ stage' = [stage EXCEPT ![i] = IF c = "garbled" THEN "misread" ELSE "written"]
              /\ UNCHANGED <<archived, slot>>
        BY <2>5, <4>1 DEF EndCopy, Enters
      <4>3. stage'[i] = "written" => c = Content[i]
        BY <4>2
      <4> QED
        BY <2>5, <2>a, <4>1, <4>2, <4>3 DEF EndCopy, FileAt, Copying
    <3> QED
      BY <3>1, <3>2
  <2>6. CASE CopyFails(i)
    BY <2>0, <2>a, <2>6 DEF CopyFails, Enters, FileAt, Copying
  <2>7. CASE Publish(i)
    BY <2>0, <2>a, <2>7 DEF Publish, Enters, FileAt, Copying
  <2>8. CASE RejectCopy(i)
    BY <2>0, <2>a, <2>8 DEF RejectCopy, Enters, AfterRejection, FileAt, Copying
  <2>9. CASE CheckPasses(i)
    BY <2>0, <2>a, <2>9 DEF CheckPasses, Enters, FileAt, Copying, disk
  <2>10. CASE CheckFails(i)
    BY <2>0, <2>a, <2>10 DEF CheckFails, Enters, AfterRejection, FileAt, Copying
  <2>11. CASE MarkCompleted(i)
    BY <2>11 DEF MarkCompleted, Ends, Enters, FileAt, Copying
  <2>12. CASE MarkFailed(i)
    BY <2>12 DEF MarkFailed, Ends, Enters, FileAt, Copying
  <2> QED
    BY <2>1, <2>2, <2>3, <2>4, <2>5, <2>6, <2>7, <2>8, <2>9, <2>10, <2>11, <2>12 DEF Work
<1>2. ASSUME NEW j \in Items, j # i
      PROVE  FileAt(j)'
  <2>1. stage'[j] = stage[j] /\ slot'[j] = slot[j]
    BY <1>2, OthersWork
  <2>2. Disturbed(Name[j]) => Disturbed(Name[j])'
    BY HistoryWork DEF Disturbed
  <2>3. CASE j \notin Holding
    BY <1>2, <2>1, <2>2, <2>3 DEF FileInv, FileAt, Holding, SlotInv, Copying
  <2>4. CASE j \in Holding /\ i \in Holding /\ slot[i] = slot[j]
    BY <1>2, <2>2, <2>4 DEF ClaimIsExclusiveUntilRejected, FileAt
  <2>5. CASE j \in Holding /\ i \in Holding' /\ slot'[i] = slot[j]
    <3>1. j \in Holding'
      BY <2>1, <2>5 DEF Holding
    <3> QED
      BY <1>2, <2>1, <2>5, <3>1, ExclusiveWork DEF ClaimIsExclusiveUntilRejected, FileAt
  <2>6. CASE /\ j \in Holding
             /\ i \in Holding => slot[j] # slot[i]
             /\ i \in Holding' => slot[j] # slot'[i]
    <3>1. slot[j] \in Slots
      BY <2>6 DEF Holding, TypeOK
    <3>2. archived'[slot[j]] = archived[slot[j]] /\ partial'[slot[j]] = partial[slot[j]]
      BY <2>6, <3>1, FilesWork
    <3> QED
      BY <1>2, <2>1, <2>2, <3>2 DEF FileInv, FileAt
  <2> QED
    BY <2>3, <2>4, <2>5, <2>6
<1> QED
  BY <1>1, <1>2 DEF FileInv

-----------------------------------------------------------------------------
(* The file a row counts on.                                                 *)

\* A file that is kept stays under its name, whatever a worker does.
LEMMA KeptStays ==
  ASSUME TypeOK, SoloInv, SlotInv, FileInv, NEW i \in Items, Work(i),
         NEW j \in Items, Kept(j)
  PROVE  Kept(j)'
<1>1. CASE Disturbed(Name[j]) \/ Name[j] \in removed
  BY <1>1, HistoryWork DEF Kept, Disturbed
<1>2. CASE ~(Disturbed(Name[j]) \/ Name[j] \in removed)
  <2>1. PICK s \in Located(j) :
          ~parallel => \A k \in Items : stage[k] = "checking" => slot[k] # s
    BY <1>2 DEF Kept
  <2>2. s \in Slots /\ s[1] = Name[j] /\ archived[s] = {Content[j]}
    BY <2>1 DEF Located, SlotsOf
  <2>3. CASE archived'[s] = archived[s]
    <3>1. s \in Located(j)'
      BY <2>1, <2>3 DEF Located, SlotsOf, Slots
    <3>2. ASSUME ~parallel, NEW k \in Items, stage'[k] = "checking", stage[k] # "checking"
          PROVE  slot'[k] # s
      <4>1. k = i
        BY <3>2, OthersWork
      <4>2. Publish(i)
        BY <3>2, <4>1 DEF Work, TypeOK, AlreadyArchived, Claim, Refused, OpenPartial,
           EndCopy, CopyFails, Publish, RejectCopy, CheckPasses, CheckFails,
           MarkCompleted, MarkFailed, Ends, Enters, AfterRejection
      <4>3. archived[slot[i]] = {}
        BY <3>2, <4>2 DEF Publish, FileInv, FileAt, Disturbed, Copying
      <4> QED
        BY <2>2, <4>1, <4>2, <4>3 DEF Publish
    <3>3. ASSUME ~parallel, NEW k \in Items, stage'[k] = "checking", stage[k] = "checking"
          PROVE  slot'[k] # s
      <4>1. slot'[k] = slot[k]
        <5>1. CASE k # i
          BY <5>1, OthersWork
        <5>2. CASE k = i
          BY <3>3, <5>2 DEF Work, TypeOK, AlreadyArchived, Claim, Refused, OpenPartial,
             EndCopy, CopyFails, Publish, RejectCopy, CheckPasses, CheckFails,
             MarkCompleted, MarkFailed, Ends, Enters, AfterRejection, SlotInv, Takes
        <5> QED
          BY <5>1, <5>2
      <4> QED
        BY <2>1, <3>3, <4>1
    <3> QED
      BY <3>1, <3>2, <3>3, HistoryWork DEF Kept
  <2>4. CASE archived'[s] # archived[s]
    <3>1. CASE Disturbed(s[1])'
      BY <2>2, <3>1 DEF Kept
    <3>2. CASE CheckFails(i) /\ slot[i] = s
      <4>1. parallel /\ Name[i] = Name[j]
        BY <2>1, <2>2, <3>2 DEF CheckFails, SlotInv, SlotsOf, NoSlot
      <4> QED
        BY <3>2, <4>1 DEF CheckFails, Kept, Disturbed
    <3> QED
      BY <2>2, <2>4, <3>1, <3>2, ArchivedWork
  <2> QED
    BY <2>3, <2>4
<1> QED
  BY <1>1, <1>2

LEMMA RowWork ==
  ASSUME TypeOK, SoloInv, SlotInv, FileInv, RowInv, NEW i \in Items, Work(i)
  PROVE  RowInv'
<1>1. ASSUME NEW j \in Items, j # i, row'[j] = "COMPLETED" \/ stage'[j] = "published"
      PROVE  Kept(j)'
  BY <1>1, OthersWork, KeptStays DEF RowInv
<1>2. ASSUME row'[i] = "COMPLETED" \/ stage'[i] = "published"
      PROVE  Kept(i)'
  <2>1. CASE row[i] = "COMPLETED" \/ stage[i] = "published"
    BY <2>1, KeptStays DEF RowInv
  <2>2. CASE AlreadyArchived(i)
    <3>1. \A k \in Items : ~parallel => stage'[k] # "checking"
      BY <2>2, TakesAlone DEF AlreadyArchived, Running, Enters, TypeOK
    <3>2. Located(i)' = Located(i) /\ parallel' = parallel
      BY <2>2 DEF AlreadyArchived, Located, SlotsOf, Slots, disk
    <3> QED
      BY <2>2, <3>1, <3>2 DEF AlreadyArchived, Kept
  <2>3. CASE ~Disturbed(Name[i])' /\ (Publish(i) \/ CheckPasses(i)) /\ stage'[i] = "published"
    <3>1. slot[i] \in SlotsOf(i) /\ archived'[slot[i]] = {Content[i]}
      <4>1. CASE Publish(i)
        BY <2>3, <4>1 DEF Publish, FileInv, FileAt, Copying, Disturbed, SlotInv, TypeOK, SlotsOf
      <4>2. CASE CheckPasses(i)
        BY <4>2 DEF CheckPasses, SlotInv, disk
      <4> QED
        BY <2>3, <4>1, <4>2
    <3>2. slot[i] \in Located(i)'
      BY <3>1 DEF Located, SlotsOf, Slots
    <3>3. \A k \in Items : ~parallel => stage'[k] # "checking"
      BY <2>3, OthersWork DEF SoloInv, Running, Publish, CheckPasses
    <3> QED
      BY <2>3, <3>2, <3>3, HistoryWork DEF Kept
  <2>4. CASE Disturbed(Name[i])'
    BY <2>4 DEF Kept
  <2> QED
    BY <1>2, <2>1, <2>2, <2>3, <2>4 DEF Work, TypeOK, Claim, Refused, OpenPartial,
       EndCopy, CopyFails, RejectCopy, CheckFails, MarkCompleted, MarkFailed, Ends,
       Enters, AfterRejection, AlreadyArchived, Publish, CheckPasses
<1> QED
  BY <1>1, <1>2 DEF RowInv

-----------------------------------------------------------------------------
(* The invariant, and what follows from it.                                  *)

LEMMA InitIInv == Init => IInv
<1> SUFFICES ASSUME Init PROVE IInv
  OBVIOUS
<1> USE SlotsAssumption DEF SlotsAssumption, Init
<1>1. TypeOK
  BY DEF TypeOK, Bytes, Slots
<1> QED
  BY <1>1 DEF IInv, SoloInv, Running, SlotInv, Copying, ClaimIsExclusiveUntilRejected,
     Holding, FileInv, FileAt, RowInv

\* What recovery does to the files and the rows.
LEMMA RecoveredFiles ==
  ASSUME TypeOK, Recovered
  PROVE  /\ \A s \in Slots : archived'[s] = archived[s]
                             \/ (archived'[s] = {} /\ s[1] \in removed')
         /\ \A i \in Items : row'[i] = "COMPLETED" => Located(i) # {}
         /\ removed \subseteq removed' /\ removed' \subseteq {Name[i] : i \in Items}
         /\ partial' \in [Slots -> Bytes] /\ archived' \in [Slots -> Bytes]
         /\ row' \in [Items -> {"PENDING", "COMPLETED", "FAILED"}]
<1>1. PICK found \in [Items -> Slots \cup {NoSlot}] :
        \E verified, struck \in SUBSET {i \in Items : found[i] # NoSlot} :
          /\ MayFind(found, verified, struck)
          /\ row' = [i \in Items |-> IF i \in verified THEN "COMPLETED" ELSE "PENDING"]
          /\ partial' = [s \in Slots |-> IF s[2] = 1 \/ \E i \in Items : found[i] = s
                                         THEN {} ELSE partial[s]]
          /\ archived' = [s \in Slots |-> IF s \in {found[i] : i \in struck} THEN {} ELSE archived[s]]
          /\ removed' = removed \cup {Name[i] : i \in struck}
  BY DEF Recovered
<1>2. PICK verified, struck \in SUBSET {i \in Items : found[i] # NoSlot} :
          /\ MayFind(found, verified, struck)
          /\ row' = [i \in Items |-> IF i \in verified THEN "COMPLETED" ELSE "PENDING"]
          /\ partial' = [s \in Slots |-> IF s[2] = 1 \/ \E i \in Items : found[i] = s
                                         THEN {} ELSE partial[s]]
          /\ archived' = [s \in Slots |-> IF s \in {found[i] : i \in struck} THEN {} ELSE archived[s]]
          /\ removed' = removed \cup {Name[i] : i \in struck}
  BY <1>1
<1>3. ASSUME NEW i \in verified \cup struck
      PROVE  i \in Items /\ found[i] \in Located(i) /\ found[i][1] = Name[i]
  BY <1>2, <1>3 DEF MayFind, Located, SlotsOf
<1>4. \A s \in Slots : archived'[s] = archived[s] \/ (archived'[s] = {} /\ s[1] \in removed')
  <2> TAKE s \in Slots
  <2>0. archived'[s] = IF s \in {found[i] : i \in struck} THEN {} ELSE archived[s]
    BY <1>2
  <2>1. CASE s \in {found[i] : i \in struck}
    <3>1. PICK i \in struck : found[i] = s
      BY <2>1
    <3>2. archived'[s] = {} /\ Name[i] \in removed'
      BY <1>2, <2>0, <2>1
    <3> QED
      BY <1>3, <3>1, <3>2
  <2>2. CASE s \notin {found[i] : i \in struck}
    BY <2>0, <2>2
  <2> QED
    BY <2>1, <2>2
<1>5. \A i \in Items : row'[i] = "COMPLETED" => Located(i) # {}
  BY <1>2, <1>3
<1>6. removed \subseteq removed' /\ removed' \subseteq {Name[i] : i \in Items}
  BY <1>2 DEF TypeOK
<1>7. partial' \in [Slots -> Bytes] /\ archived' \in [Slots -> Bytes]
  <2>1. {} \in Bytes
    BY DEF Bytes
  <2> QED
    BY <1>2, <2>1 DEF TypeOK
<1>8. row' \in [Items -> {"PENDING", "COMPLETED", "FAILED"}]
  BY <1>2
<1> QED
  BY <1>4, <1>5, <1>6, <1>7, <1>8

\* A row that recovery completes has the file it was verified by, unless a
\* later item could not read it.
LEMMA RecoveredKeeps ==
  ASSUME TypeOK, Recovered, NEW i \in Items, row'[i] = "COMPLETED"
  PROVE  Located(i)' # {} \/ Kept(i)'
<1>1. PICK s \in Slots : s[1] = Name[i] /\ archived[s] = {Content[i]}
  BY RecoveredFiles DEF Located, SlotsOf
<1>2. CASE archived'[s] = archived[s]
  BY <1>1, <1>2 DEF Located, SlotsOf, Slots
<1>3. CASE archived'[s] # archived[s]
  BY <1>1, <1>3, RecoveredFiles DEF Kept
<1> QED
  BY <1>2, <1>3

\* The batch is imported again, after a cancellation or a crash.
LEMMA AgainIInv ==
  ASSUME IInv, StartedAgain \/ Recovered
  PROVE  IInv'
<1> USE DEF IInv
<1>0. ImportsAgain
  BY DEF StartedAgain, Recovered
<1>1. ASSUME NEW i \in Items
      PROVE  /\ stage'[i] = "idle" /\ slot'[i] = NoSlot
             /\ row'[i] = "COMPLETED" => Located(i)' # {} \/ Kept(i)'
  <2>1. stage'[i] = "idle" /\ slot'[i] = NoSlot
    BY <1>0, <1>1 DEF ImportsAgain
  <2>2. CASE StartedAgain
    BY <1>1, <2>2, <1>0 DEF StartedAgain, ImportsAgain, RowInv, Kept, Located, SlotsOf, Slots, disk,
       Disturbed
  <2>3. ASSUME Recovered, row'[i] = "COMPLETED" PROVE Located(i)' # {} \/ Kept(i)'
    BY <1>1, <2>3, RecoveredKeeps
  <2> QED
    BY <2>1, <2>2, <2>3
<1>2. TypeOK'
  <2>1. /\ partial' \in [Slots -> Bytes] /\ archived' \in [Slots -> Bytes]
        /\ row' \in [Items -> {"PENDING", "COMPLETED", "FAILED"}]
        /\ removed' \subseteq {Name[i] : i \in Items}
    BY RecoveredFiles DEF StartedAgain, TypeOK, disk
  <2> QED
    BY <1>0, <2>1, SlotsAssumption DEF SlotsAssumption, ImportsAgain, TypeOK
<1>3. SoloInv' /\ SlotInv' /\ ClaimIsExclusiveUntilRejected' /\ FileInv'
  BY <1>1 DEF SoloInv, Running, SlotInv, Copying, ClaimIsExclusiveUntilRejected, Holding,
     FileInv, FileAt
<1>4. ASSUME NEW i \in Items, row'[i] = "COMPLETED" \/ stage'[i] = "published"
      PROVE  Kept(i)'
  <2>1. row'[i] = "COMPLETED" /\ (Located(i)' # {} \/ Kept(i)')
    BY <1>1, <1>4
  <2> QED
    BY <1>1, <2>1 DEF Kept
<1> QED
  BY <1>2, <1>3, <1>4 DEF RowInv

LEMMA NextIInv == IInv /\ [Next]_vars => IInv'
<1> SUFFICES ASSUME IInv, [Next]_vars PROVE IInv'
  OBVIOUS
<1>1. CASE WorkerStep
  <2>1. PICK i \in Items : Work(i)
    BY <1>1 DEF WorkerStep
  <2> QED
    BY <2>1, TypeWork, SoloWork, SlotWork, ExclusiveWork, FileWork, RowWork DEF IInv
<1>2. CASE StartedAgain \/ Recovered
  BY <1>2, AgainIInv
<1>3. CASE UNCHANGED vars
  <2>1. TypeOK' /\ SoloInv' /\ SlotInv'
    BY <1>3 DEF IInv, TypeOK, SoloInv, Running, SlotInv, SlotsOf, Slots, vars, disk, task, past
  <2>2. ClaimIsExclusiveUntilRejected' /\ FileInv'
    BY <1>3 DEF IInv, ClaimIsExclusiveUntilRejected, Holding, Disturbed, FileInv, FileAt,
       vars, disk, task
  <2>3. RowInv'
    BY <1>3 DEF IInv, RowInv, Kept, Located, SlotsOf, Slots, Disturbed, vars, disk, task, past
  <2> QED
    BY <2>1, <2>2, <2>3 DEF IInv
<1> QED
  BY <1>1, <1>2, <1>3 DEF Next

LEMMA Invariance == Spec => []IInv
<1> QED
  BY InitIInv, NextIInv, PTL DEF Spec

\* Every state of every session is well-formed.
THEOREM TypeCorrect == Spec => []TypeOK
<1>1. IInv => TypeOK
  BY DEF IInv
<1> QED
  BY <1>1, Invariance, PTL

\* Two workers are never on one name before a copy of it was rejected.
THEOREM ClaimsExclude == Spec => []ClaimIsExclusiveUntilRejected
<1>1. IInv => ClaimIsExclusiveUntilRejected
  BY DEF IInv
<1> QED
  BY <1>1, Invariance, PTL

\* A row that says COMPLETED has its bytes in the archive, after any sequence of
\* copies, rejections, failed commits, cancellations and crashes, until recovery
\* removes a file of that name.
THEOREM CompletedIsArchived == Spec => []CompletedHasFile
<1>1. IInv => CompletedHasFile
  BY DEF IInv, RowInv, Kept, CompletedHasFile
<1> QED
  BY <1>1, Invariance, PTL

\* No import replaces an archived file, or removes one it did not just write;
\* recovery removes files, and replaces none.
THEOREM ArchiveStays == Spec => FilesStay
<1>1. IInv /\ [Next]_vars => [\A s \in Slots :
       archived[s] # {} /\ archived'[s] # archived[s]
         => \/ Disturbed(s[1])'
            \/ /\ archived'[s] = {}
               /\ runs' # runs \/ \E i \in Items : stage[i] = "checking" /\ slot[i] = s]_vars
  <2> SUFFICES ASSUME IInv, Next, NEW s \in Slots,
                      archived[s] # {}, archived'[s] # archived[s]
               PROVE  \/ Disturbed(s[1])'
                      \/ /\ archived'[s] = {}
                         /\ runs' # runs \/ \E i \in Items : stage[i] = "checking" /\ slot[i] = s
    OBVIOUS
  <2>1. CASE WorkerStep
    <3>1. PICK i \in Items : Work(i)
      BY <2>1 DEF WorkerStep
    <3> QED
      BY <3>1, ArchivedWork DEF IInv, CheckFails
  <2>2. CASE Recovered
    <3>1. runs' # runs
      BY <2>2 DEF Recovered, ImportsAgain, IInv, TypeOK
    <3> QED
      BY <2>2, <3>1, RecoveredFiles DEF IInv
  <2> QED
    BY <2>1, <2>2 DEF Next, StartedAgain, disk
<1> QED
  BY <1>1, Invariance, PTL DEF Spec, FilesStay

-----------------------------------------------------------------------------
(* No second copy.                                                         *)

\* The items a copy of i can be that of, and the places where one is, or may
\* come to be without another claim.
Alike(i)     == {j \in Items : Name[j] = Name[i] /\ Content[j] = Content[i]}
Copies(f, i) == {s \in SlotsOf(i) : f[s] = {Content[i]}}
Places(i)    == Copies(archived, i) \cup {s \in SlotsOf(i) : \E j \in Alike(i) : slot[j] = s}

\* A copy that waits in a .partial file is that of a worker that has not
\* published it, or nobody holds the name.
WaitingInv ==
  \A s \in Slots, i \in Items : partial[s] = {Content[i]} =>
    \/ \A j \in Items : slot[j] # s
    \/ \E w \in Items : Content[w] = Content[i] /\ slot[w] = s /\ stage[w] = "written"

PlacesInv ==
  \A i \in Items : \/ Cardinality(Places(i)) <= Cardinality(Copies(Occupied, i))
                   \/ Cardinality(Places(i)) <= Cardinality(Alike(i))
                   \/ Name[i] \in overlooked

CopiesInv == IInv /\ WaitingInv /\ PlacesInv

LEMMA SlotsAreFinite == IsFiniteSet(Slots)
<1> DEFINE N == {Name[i] : i \in Items}
           f == [i \in Items |-> Name[i]]
<1>1. f \in Surjection(Items, N)
  BY DEF Surjection
<1>2. IsFiniteSet(N)
  BY <1>1, FS_Surjection, SlotsAssumption DEF SlotsAssumption
<1>3. IsFiniteSet(1 .. LastSlot)
  BY FS_Interval, SlotsAssumption DEF SlotsAssumption
<1> QED BY <1>2, <1>3, FS_Product DEF Slots

LEMMA PlacesAreFinite ==
  ASSUME NEW i \in Items
  PROVE  /\ IsFiniteSet(Places(i)) /\ IsFiniteSet(Alike(i))
         /\ \A f : IsFiniteSet(Copies(f, i))
<1>1. IsFiniteSet(SlotsOf(i))
  BY SlotsAreFinite, FS_Subset DEF SlotsOf
<1>2. IsFiniteSet(Places(i)) /\ \A f : IsFiniteSet(Copies(f, i))
  BY <1>1, FS_Subset DEF Places, Copies
<1>3. IsFiniteSet(Alike(i))
  BY FS_Subset, SlotsAssumption DEF SlotsAssumption, Alike
<1> QED BY <1>2, <1>3

\* A set of places that alike items hold is not larger than they are many.
LEMMA OnePlaceEach ==
  ASSUME NEW i \in Items, NEW T, NEW g \in [Alike(i) -> T],
         \A s \in T : \E j \in Alike(i) : g[j] = s
  PROVE  Cardinality(T) <= Cardinality(Alike(i))
<1>1. g \in Surjection(Alike(i), T)
  BY DEF Surjection
<1> QED BY <1>1, PlacesAreFinite, FS_Surjection

LEMMA FewerPlaces ==
  ASSUME PlacesInv, NEW i \in Items, NEW T \in SUBSET Places(i)
  PROVE  \/ Cardinality(T) <= Cardinality(Copies(Occupied, i))
         \/ Cardinality(T) <= Cardinality(Alike(i))
         \/ Name[i] \in overlooked
<1>1. /\ Cardinality(T) \in Nat /\ Cardinality(Places(i)) \in Nat /\ Cardinality(T) <= Cardinality(Places(i))
      /\ Cardinality(Copies(Occupied, i)) \in Nat /\ Cardinality(Alike(i)) \in Nat
  BY PlacesAreFinite, FS_Subset, FS_CardinalityType
<1> QED BY <1>1 DEF PlacesInv

LEMMA NoSlotIsNone == NoSlot \notin Slots /\ \A i \in Items : SlotsOf(i) \subseteq Slots /\ NoSlot \notin SlotsOf(i)
BY SlotsAssumption DEF NoSlot, Slots, SlotsOf, SlotsAssumption

\* What a step does to the .partial files.
LEMMA WaitingWork ==
  ASSUME IInv, WaitingInv, NEW i \in Items, Work(i) PROVE WaitingInv'
<1> USE DEF TypeOK
<1>0. /\ TypeOK /\ NoSlot \notin Slots
      /\ \A j \in Items : j # i => stage'[j] = stage[j] /\ slot'[j] = slot[j]
      /\ \A j \in Items : Content[j] \notin {"empty", "garbled"}
      /\ stage[i] \in Copying \cup {"checking", "retrying"} => slot[i] \in Slots
  <2>1. TypeOK /\ SlotInv
    BY DEF IInv
  <2>2. \A j \in Items : Content[j] \notin {"empty", "garbled"}
    BY SlotsAssumption DEF SlotsAssumption, Contents
  <2>3. stage[i] \in Copying \cup {"checking", "retrying"} => slot[i] \in Slots
    BY <2>1, NoSlotIsNone DEF SlotInv
  <2> QED BY <2>1, <2>2, <2>3, OthersWork, NoSlotIsNone
\* A file that is not filled, while its other workers stay at theirs.
<1>1. ASSUME slot' = slot \/ slot' = [slot EXCEPT ![i] = NoSlot], stage[i] # "written",
             \A s \in Slots : partial'[s] = partial[s] \/ \A k \in Items : partial'[s] # {Content[k]}
      PROVE  WaitingInv'
  <2> SUFFICES ASSUME NEW s \in Slots, NEW k \in Items, partial'[s] = {Content[k]}
               PROVE  \/ \A j \in Items : slot'[j] # s
                      \/ \E w \in Items : Content[w] = Content[k] /\ slot'[w] = s /\ stage'[w] = "written"
    BY DEF WaitingInv
  <2>1. partial[s] = {Content[k]}
    BY <1>1
  <2>2. CASE \A j \in Items : slot[j] # s
    BY <1>0, <1>1, <2>2
  <2>3. CASE ~\A j \in Items : slot[j] # s
    <3>1. PICK w \in Items : Content[w] = Content[k] /\ slot[w] = s /\ stage[w] = "written"
      BY <2>1, <2>3 DEF WaitingInv
    <3>2. w # i
      BY <1>1, <3>1
    <3> QED BY <1>0, <3>1, <3>2
  <2> QED BY <2>2, <2>3
\* A file that its worker has taken away.
<1>2. ASSUME slot' = slot, partial' = [partial EXCEPT ![slot[i]] = {}], slot[i] \in Slots
      PROVE  WaitingInv'
  <2> SUFFICES ASSUME NEW s \in Slots, NEW k \in Items, partial'[s] = {Content[k]}
               PROVE  \/ \A j \in Items : slot'[j] # s
                      \/ \E w \in Items : Content[w] = Content[k] /\ slot'[w] = s /\ stage'[w] = "written"
    BY DEF WaitingInv
  <2>1. s # slot[i] /\ partial[s] = {Content[k]}
    BY <1>0, <1>2
  <2>2. CASE \A j \in Items : slot[j] # s
    BY <1>2, <2>2
  <2>3. CASE ~\A j \in Items : slot[j] # s
    <3>1. PICK w \in Items : Content[w] = Content[k] /\ slot[w] = s /\ stage[w] = "written"
      BY <2>1, <2>3 DEF WaitingInv
    <3>2. w # i
      BY <2>1, <3>1
    <3> QED BY <1>0, <3>1, <3>2
  <2> QED BY <2>2, <2>3
<1>3. CASE AlreadyArchived(i) \/ Refused(i)
  BY <1>0, <1>1, <1>3 DEF AlreadyArchived, Refused, Takes, disk, IInv, SlotInv
<1>4. CASE Claim(i)
  <2>1. PICK r \in Slots : partial' = [partial EXCEPT ![r] = {"empty"}] /\ slot' = [slot EXCEPT ![i] = r]
    BY <1>4 DEF Claim
  <2>2. stage[i] = "idle" /\ slot[i] = NoSlot
    BY <1>4 DEF Claim, Takes, IInv, SlotInv
  <2> SUFFICES ASSUME NEW s \in Slots, NEW k \in Items, partial'[s] = {Content[k]}
               PROVE  \/ \A j \in Items : slot'[j] # s
                      \/ \E w \in Items : Content[w] = Content[k] /\ slot'[w] = s /\ stage'[w] = "written"
    BY DEF WaitingInv
  <2>3. s # r /\ partial[s] = {Content[k]}
    BY <1>0, <2>1
  <2>4. CASE \A j \in Items : slot[j] # s
    BY <1>0, <2>1, <2>3, <2>4
  <2>5. CASE ~\A j \in Items : slot[j] # s
    <3>1. PICK w \in Items : Content[w] = Content[k] /\ slot[w] = s /\ stage[w] = "written"
      BY <2>3, <2>5 DEF WaitingInv
    <3> QED BY <1>0, <2>2, <3>1
  <2> QED BY <2>4, <2>5
<1>5. CASE OpenPartial(i)
  <2>1. /\ slot' = slot /\ stage[i] # "written" /\ slot[i] \in Slots
        /\ partial' = [partial EXCEPT ![slot[i]] = {"empty"}]
    BY <1>0, <1>5 DEF OpenPartial, Copying
  <2> QED BY <1>0, <1>1, <2>1
<1>6. CASE EndCopy(i)
  <2> DEFINE s == slot[i]
  <2>1. slot' = slot /\ stage[i] = "writing" /\ s \in Slots
    BY <1>0, <1>6 DEF EndCopy, Copying
  <2>2. CASE partial[s] = {}
    <3>1. partial' = partial
      BY <1>6, <2>2 DEF EndCopy
    <3> QED BY <1>1, <2>1, <3>1
  <2>3. CASE partial[s] # {}
    <3>1. PICK c \in {Content[i], "garbled"} :
            /\ partial' = [partial EXCEPT ![s] = (partial[s] \ {"empty"}) \cup {c}]
            /\ stage' = [stage EXCEPT ![i] = IF c = "garbled" THEN "misread" ELSE "written"]
      BY <1>6, <2>3 DEF EndCopy, Enters
    <3> SUFFICES ASSUME NEW t \in Slots, NEW k \in Items, partial'[t] = {Content[k]}
                 PROVE  \/ \A j \in Items : slot'[j] # t
                        \/ \E w \in Items : Content[w] = Content[k] /\ slot'[w] = t /\ stage'[w] = "written"
      BY DEF WaitingInv
    <3>2. CASE t = s
      <4>1. c = Content[k]
        BY <1>0, <2>1, <3>1, <3>2
      <4>2. c = Content[i] /\ stage'[i] = "written"
        BY <1>0, <3>1, <4>1
      <4> QED BY <2>1, <3>2, <4>1, <4>2
    <3>3. CASE t # s
      <4>1. partial[t] = {Content[k]}
        BY <1>0, <3>1, <3>3
      <4>2. CASE \A j \in Items : slot[j] # t
        BY <2>1, <4>2
      <4>3. CASE ~\A j \in Items : slot[j] # t
        <5>1. PICK w \in Items : Content[w] = Content[k] /\ slot[w] = t /\ stage[w] = "written"
          BY <4>1, <4>3 DEF WaitingInv
        <5> QED BY <1>0, <2>1, <3>3, <5>1
      <4> QED BY <4>2, <4>3
    <3> QED BY <3>2, <3>3
  <2> QED BY <2>2, <2>3
<1>7. CASE CopyFails(i) \/ Publish(i) \/ RejectCopy(i)
  BY <1>0, <1>2, <1>7 DEF CopyFails, Publish, RejectCopy, Copying
<1>8. CASE CheckPasses(i)
  BY <1>0, <1>1, <1>8 DEF CheckPasses, disk
<1>9. CASE CheckFails(i)
  BY <1>0, <1>1, <1>2, <1>9 DEF CheckFails
<1>10. CASE MarkCompleted(i) \/ MarkFailed(i)
  BY <1>0, <1>1, <1>10 DEF MarkCompleted, MarkFailed, Ends, disk
<1> QED BY <1>3, <1>4, <1>5, <1>6, <1>7, <1>8, <1>9, <1>10 DEF Work

\* A copy comes only to a name that an item with its bytes has claimed.
LEMMA CopyComesToHolder ==
  ASSUME IInv, WaitingInv, NEW i \in Items, Work(i), NEW k \in Items, NEW s \in SlotsOf(k),
         archived'[s] = {Content[k]}, archived[s] # {Content[k]}
  PROVE  slot' = slot /\ \E j \in Alike(k) : slot[j] = s
<1> USE DEF TypeOK
<1>0. /\ TypeOK /\ s \in Slots /\ NoSlot \notin Slots /\ s[1] = Name[k]
      /\ \A j \in Items : Content[j] \notin {"empty", "garbled"}
      /\ \A j \in Items : slot[j] \in Slots => slot[j][1] = Name[j]
      /\ stage[i] \in Copying \cup {"checking", "retrying"} => slot[i] \in Slots
  <2>1. TypeOK /\ SlotInv /\ s \in Slots /\ s[1] = Name[k] /\ NoSlot \notin Slots
    BY NoSlotIsNone DEF IInv, SlotsOf
  <2>2. \A j \in Items : Content[j] \notin {"empty", "garbled"}
    BY SlotsAssumption DEF SlotsAssumption, Contents
  <2>3. stage[i] \in Copying \cup {"checking", "retrying"} => slot[i] \in Slots
    BY <2>1, NoSlotIsNone DEF SlotInv
  <2>4. \A j \in Items : slot[j] \in Slots => slot[j][1] = Name[j]
    BY <2>1 DEF SlotInv, SlotsOf
  <2> QED BY <2>1, <2>2, <2>3, <2>4
<1>1. CASE EndCopy(i)
  <2>1. /\ slot' = slot /\ slot[i] \in Slots
        /\ \/ archived' = archived
           \/ \E c \in {Content[i], "garbled"} :
                archived' = [archived EXCEPT ![slot[i]] =
                               IF archived[slot[i]] = {} THEN {} ELSE (archived[slot[i]] \ {"empty"}) \cup {c}]
    BY <1>0, <1>1 DEF EndCopy, Copying
  <2>2. PICK c \in {Content[i], "garbled"} :
          archived' = [archived EXCEPT ![slot[i]] =
                         IF archived[slot[i]] = {} THEN {} ELSE (archived[slot[i]] \ {"empty"}) \cup {c}]
    BY <2>1
  <2>3. s = slot[i]
    BY <1>0, <2>2
  <2>4. archived'[s] = (archived[s] \ {"empty"}) \cup {c}
    BY <1>0, <2>2, <2>3
  <2>5. c = Content[k] /\ c = Content[i]
    BY <1>0, <2>4
  <2>6. i \in Alike(k)
    BY <1>0, <2>3, <2>5 DEF Alike
  <2> QED BY <2>1, <2>3, <2>6
<1>2. CASE Publish(i)
  <2>1. slot' = slot /\ archived' = [archived EXCEPT ![slot[i]] = partial[slot[i]]] /\ slot[i] \in Slots
    BY <1>0, <1>2 DEF Publish, Copying
  <2>2. s = slot[i] /\ partial[s] = {Content[k]}
    BY <1>0, <2>1
  <2>3. PICK w \in Items : Content[w] = Content[k] /\ slot[w] = s
    BY <1>0, <2>2 DEF WaitingInv
  <2>4. w \in Alike(k)
    BY <1>0, <2>3 DEF Alike
  <2> QED BY <2>1, <2>3, <2>4
<1>3. CASE RejectCopy(i) \/ CheckFails(i)
  <2>1. archived' = [archived EXCEPT ![slot[i]] = {}]
    BY <1>3 DEF RejectCopy, CheckFails
  <2> QED BY <1>0, <2>1
<1>4. CASE \/ AlreadyArchived(i) \/ Claim(i) \/ Refused(i) \/ OpenPartial(i) \/ CopyFails(i)
           \/ CheckPasses(i) \/ MarkCompleted(i) \/ MarkFailed(i)
  BY <1>4 DEF AlreadyArchived, Claim, Refused, OpenPartial, CopyFails, CheckPasses, MarkCompleted,
              MarkFailed, Ends, disk
<1> QED BY <1>1, <1>2, <1>3, <1>4 DEF Work

LEMMA PlacesWork ==
  ASSUME IInv, WaitingInv, PlacesInv, NEW i \in Items, Work(i) PROVE PlacesInv'
<1> SUFFICES ASSUME NEW k \in Items
             PROVE  \/ Cardinality(Places(k)') <= Cardinality(Copies(Occupied, k))
                    \/ Cardinality(Places(k)') <= Cardinality(Alike(k))
                    \/ Name[k] \in overlooked'
  BY DEF PlacesInv, Copies, Alike, SlotsOf, Slots
<1>0. /\ Places(k)' = {s \in SlotsOf(k) : archived'[s] = {Content[k]} \/ \E j \in Alike(k) : slot'[j] = s}
      /\ Places(k) = {s \in SlotsOf(k) : archived[s] = {Content[k]} \/ \E j \in Alike(k) : slot[j] = s}
      /\ NoSlot \notin SlotsOf(k)
  BY NoSlotIsNone DEF Places, Copies, Alike, SlotsOf, Slots
<1>1. CASE Claim(i) /\ i \in Alike(k)
  <2>1. PICK r \in SlotsOf(i) : slot' = [slot EXCEPT ![i] = r]
    BY <1>1 DEF Claim, IsFirstFree
  <2>a. CASE Name[k] \in overlooked'
    BY <2>a
  <2> SUFFICES ASSUME Name[k] \notin overlooked'
               PROVE  Cardinality(Places(k)') <= Cardinality(Alike(k))
    BY <2>a
  <2>2. /\ archived' = archived /\ SlotsOf(i) = SlotsOf(k) /\ Content[i] = Content[k]
        /\ \A s \in SlotsOf(k) : archived[s] # {Content[k]}
    BY <1>1 DEF Claim, Located, Alike, SlotsOf
  <2>3. slot'[i] = r /\ r \in Places(k)'
    BY <1>0, <1>1, <2>1, <2>2 DEF IInv, TypeOK
  <2> DEFINE T == Places(k)'
             g == [j \in Alike(k) |-> IF slot'[j] \in T THEN slot'[j] ELSE r]
  <2>4. \A s \in T : \E j \in Alike(k) : slot'[j] = s
    BY <1>0, <2>2
  <2>5. r \in T
    BY <2>3
  <2> HIDE DEF T
  <2>6. g \in [Alike(k) -> T] /\ \A s \in T : \E j \in Alike(k) : g[j] = s
    BY <2>4, <2>5
  <2> HIDE DEF g
  <2>7. Cardinality(T) <= Cardinality(Alike(k))
    BY <2>6, OnePlaceEach
  <2> QED BY <2>7 DEF T
<1>2. CASE ~(Claim(i) /\ i \in Alike(k))
  <2>1. \A j \in Alike(k) : slot'[j] = slot[j] \/ slot'[j] = NoSlot
    <3> SUFFICES ASSUME NEW j \in Alike(k) PROVE slot'[j] = slot[j] \/ slot'[j] = NoSlot
      OBVIOUS
    <3>1. j \in Items /\ TypeOK
      BY DEF Alike, IInv
    <3>2. CASE j # i
      BY <3>1, <3>2, OthersWork
    <3>3. CASE j = i
      <4>1. ~Claim(i)
        BY <1>2, <3>3
      <4> QED BY <3>1, <3>3, <4>1 DEF Work, AlreadyArchived, Refused, OpenPartial, EndCopy, CopyFails, Publish,
                RejectCopy, CheckPasses, CheckFails, MarkCompleted, MarkFailed, Ends, TypeOK
    <3> QED BY <3>2, <3>3
  <2>2. Places(k)' \subseteq Places(k)
    <3> SUFFICES ASSUME NEW s \in SlotsOf(k),
                        archived'[s] = {Content[k]} \/ \E j \in Alike(k) : slot'[j] = s
                 PROVE  archived[s] = {Content[k]} \/ \E j \in Alike(k) : slot[j] = s
      BY <1>0
    <3>1. CASE \E j \in Alike(k) : slot'[j] = s
      BY <1>0, <2>1, <3>1
    <3>2. CASE archived'[s] = {Content[k]}
      BY <3>2, CopyComesToHolder
    <3> QED BY <3>1, <3>2
  <2> QED BY <2>2, FewerPlaces, HistoryWork
<1> QED BY <1>1, <1>2

\* Nobody holds a name when the batch is imported again.
LEMMA AgainCopies ==
  ASSUME IInv, WaitingInv, PlacesInv, StartedAgain \/ Recovered PROVE WaitingInv' /\ PlacesInv'
<1>1. /\ slot' = [j \in Items |-> NoSlot] /\ overlooked' = overlooked
      /\ \A s \in Slots : archived'[s] = archived[s] \/ archived'[s] = {}
  BY RecoveredFiles DEF StartedAgain, Recovered, ImportsAgain, disk, IInv
<1>2. WaitingInv'
  BY <1>1, NoSlotIsNone DEF WaitingInv
<1>3. ASSUME NEW k \in Items
      PROVE  \/ Cardinality(Places(k)') <= Cardinality(Copies(Occupied, k))
             \/ Cardinality(Places(k)') <= Cardinality(Alike(k))
             \/ Name[k] \in overlooked'
  <2>1. Places(k)' = {s \in SlotsOf(k) : archived'[s] = {Content[k]}}
    BY <1>1, NoSlotIsNone DEF Places, Copies, Alike, SlotsOf, Slots
  <2>2. Places(k)' \subseteq Places(k)
    BY <1>1, <2>1 DEF Places, Copies, SlotsOf
  <2> QED BY <1>1, <2>2, FewerPlaces
<1>4. PlacesInv'
  BY <1>3 DEF PlacesInv, Copies, Alike, SlotsOf, Slots
<1> QED BY <1>2, <1>4

LEMMA InitCopies == Init => CopiesInv
<1> SUFFICES ASSUME Init PROVE CopiesInv
  OBVIOUS
<1>1. WaitingInv
  BY NoSlotIsNone DEF Init, WaitingInv
<1>2. ASSUME NEW k \in Items PROVE Cardinality(Places(k)) <= Cardinality(Copies(Occupied, k))
  <2>1. Places(k) = Copies(Occupied, k)
    BY NoSlotIsNone DEF Init, Places, Copies, Alike
  <2>2. Cardinality(Copies(Occupied, k)) \in Nat
    BY PlacesAreFinite, FS_CardinalityType
  <2> QED BY <2>1, <2>2
<1> QED BY <1>1, <1>2, InitIInv DEF CopiesInv, PlacesInv

LEMMA NextCopies == CopiesInv /\ [Next]_vars => CopiesInv'
<1> SUFFICES ASSUME CopiesInv, [Next]_vars PROVE WaitingInv' /\ PlacesInv'
  BY NextIInv DEF CopiesInv
<1>1. CASE WorkerStep
  <2>1. PICK i \in Items : Work(i)
    BY <1>1 DEF WorkerStep
  <2> QED BY <2>1, WaitingWork, PlacesWork DEF CopiesInv
<1>2. CASE StartedAgain \/ Recovered
  BY <1>2, AgainCopies DEF CopiesInv
<1>3. CASE UNCHANGED vars
  <2>1. WaitingInv'
    BY <1>3 DEF CopiesInv, WaitingInv, Slots, vars, disk, task
  <2>2. PlacesInv'
    BY <1>3 DEF CopiesInv, PlacesInv, Places, Copies, Alike, SlotsOf, Slots, vars, disk, task, past
  <2> QED BY <2>1, <2>2
<1> QED BY <1>1, <1>2, <1>3 DEF Next

\* However often a batch is imported again, after a pause, a cancellation, a
\* failed commit or a crash, no item leaves a second copy of its bytes, unless one
\* could not be read.
THEOREM CopiesAreNotRepeated == Spec => []NoSecondCopy
<1>1. CopiesInv => NoSecondCopy
  <2> SUFFICES ASSUME CopiesInv, NEW i \in Items
               PROVE  \/ Cardinality(Copies(archived, i)) <= Cardinality(Copies(Occupied, i))
                      \/ Cardinality(Copies(archived, i)) <= Cardinality(Alike(i))
                      \/ Name[i] \in overlooked
    BY DEF NoSecondCopy, Copies, Alike
  <2>1. Copies(archived, i) \subseteq Places(i)
    BY DEF Places
  <2> QED BY <2>1, FewerPlaces DEF CopiesInv
<1> QED BY InitCopies, NextCopies, <1>1, PTL DEF Spec

=============================================================================
