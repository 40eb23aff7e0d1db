---------------------------- MODULE ImportCutoff ----------------------------
(***************************************************************************)
(* Incremental imports from a phone: the cutoff kept per device, the scan  *)
(* that skips files at or before it, and the computation of the next       *)
(* cutoff when a session has ended (device_import_state.py, scanner.py,    *)
(* _phase_finalize).  Scans look at the modification time of a file, the   *)
(* cutoff is a capture date: the two are different clocks.                 *)
(***************************************************************************)
EXTENDS Integers, FiniteSets

CONSTANTS
  Files,     \* files that appear on the device, in the order of their numbers
  Mtime,     \* modification time reported by the device
  Taken,     \* capture date found by the scan; 0: no EXIF
  Imports,   \* sessions
  Overlap    \* CUTOFF_SAFETY_OVERLAP

ASSUME CutoffAssumption ==
  /\ IsFiniteSet(Files) /\ Overlap \in Nat \ {0}
  /\ Mtime \in [Files -> Nat] /\ Taken \in [Files -> Nat]

VARIABLES
  device,    \* files on the device
  imported,  \* files with a COMPLETED row
  cutoff,    \* DeviceImportState.last_successful_cutoff; 0: no record
  import,    \* every session: its state, items, and the items that completed
  now,       \* the clock of the engine
  excused    \* history: what took the cutoff past a file it had not seen fail

cutoffVars == <<device, imported, cutoff, import, now, excused>>

NoDate    == 0
NoImport  == [at |-> "none", items |-> {}, done |-> {}, created |-> 0, chosen |-> FALSE]
EndOfTime == 1 + CHOOSE t \in {Mtime[f] : f \in Files} : \A f \in Files : Mtime[f] <= t

-----------------------------------------------------------------------------
(* Bugs the code could have; each stands in for a definition below.        *)

WithoutOverlap(only_new) == IF only_new THEN cutoff ELSE 0

-----------------------------------------------------------------------------

CutoffInit ==
  /\ device = {} /\ imported = {} /\ cutoff = 0 /\ now = 0 /\ excused = {}
  /\ import = [s \in Imports |-> NoImport]

\* Time passes, and the files of that time appear.
DeviceGrows ==
  /\ now < EndOfTime /\ now' = now + 1
  /\ device' = {f \in Files : Mtime[f] <= now}
  /\ UNCHANGED <<imported, cutoff, import, excused>>

\* get_cutoff_datetime; a file without a usable time is never skipped.
CutoffOf(only_new) == IF only_new /\ cutoff # 0 THEN cutoff - Overlap ELSE 0

\* _passes_selection_and_cutoff: selected files are exempt from the cutoff.
Passes(f, c, chosen, S) ==
  IF chosen THEN f \in S ELSE c = 0 \/ Mtime[f] > c

ScanDevice(s, only_new, chosen, S) ==
  /\ import[s].at = "none" /\ device # {}
  /\ LET items == {f \in device : Passes(f, CutoffOf(only_new), chosen, S)}
     IN  /\ items # {}
         /\ import' = [import EXCEPT ![s] = [at |-> "running", items |-> items, done |-> {},
                                             created |-> now, chosen |-> chosen]]
  /\ UNCHANGED <<device, imported, cutoff, now, excused>>

\* _phase_finalize: FAILED when nothing completed.  A session whose batch is
\* resumed by recovery is finalized again.
FinalizeImport(s, S) ==
  /\ import[s].at \in {"running", "settled"} /\ import[s].done \subseteq S
  /\ S \subseteq import[s].items
  /\ import' = [import EXCEPT ![s].at = IF S = {} THEN "settled" ELSE "ended", ![s].done = S]
  /\ imported' = imported \cup S
  /\ UNCHANGED <<device, cutoff, now, excused>>

Dated(F)   == {f \in F : Taken[f] # NoDate}
\* The first of F in the order of date_taken, undated items last.
OldestOf(F) == IF Dated(F) = {} THEN NoDate
               ELSE CHOOSE t \in {Taken[f] : f \in Dated(F)} :
                      \A f \in Dated(F) : t <= Taken[f]
LatestOf(F) == IF Dated(F) # F THEN NoDate
               ELSE CHOOSE t \in {Taken[f] : f \in F} : \A f \in F : Taken[f] <= t

Failed(s) == import[s].items \ import[s].done

\* The date of the oldest item that did not complete, or of the newest item.
DateOfCutoff(s) ==
  IF Failed(s) # {} THEN OldestOf(Failed(s)) ELSE LatestOf(import[s].items)

\* Without a date: created_at of the session, or its completed_at.
Fallback(s) == IF Failed(s) # {} THEN import[s].created ELSE now

UpdateCutoff(s) ==
  /\ import[s].at = "ended"
  /\ cutoff' = IF DateOfCutoff(s) = NoDate THEN Fallback(s) ELSE DateOfCutoff(s)
  /\ excused' = excused \cup (IF import[s].chosen THEN {"selection"} ELSE {})
                        \cup (IF DateOfCutoff(s) = NoDate THEN {"undated"} ELSE {})
                        \cup (IF \E f \in Files : Mtime[f] < Taken[f] /\ Taken[f] = cutoff'
                              THEN {"early mtime"} ELSE {})
  /\ import' = [import EXCEPT ![s].at = "settled"]
  /\ UNCHANGED <<device, imported, now>>

\* compute_cutoff_from_session and upsert_device_state are guarded by a
\* try: the session has ended all the same.
CutoffIsNotStored(s) ==
  /\ import[s].at = "ended"
  /\ import' = [import EXCEPT ![s].at = "settled"]
  /\ UNCHANGED <<device, imported, cutoff, now, excused>>

\* "Forget last import".
ClearDeviceState ==
  /\ cutoff # 0 /\ cutoff' = 0
  /\ UNCHANGED <<device, imported, import, now, excused>>

CutoffNext ==
  \/ DeviceGrows \/ ClearDeviceState
  \/ \E s \in Imports :
       \/ \E only_new \in BOOLEAN : ScanDevice(s, only_new, FALSE, {})
       \/ \E only_new \in BOOLEAN : \E S \in SUBSET Files \ {{}} : ScanDevice(s, only_new, TRUE, S)
       \/ \E S \in SUBSET Files : FinalizeImport(s, S)
       \/ UpdateCutoff(s) \/ CutoffIsNotStored(s)

CutoffSpec == CutoffInit /\ [][CutoffNext]_cutoffVars

-----------------------------------------------------------------------------
(* Properties.                                                             *)

\* "Never advance past a file that failed, was skipped, or wasn't verified":
\* the next incremental scan takes up every file on the device that no session
\* has completed, if its capture date is known and not after its modification
\* time.  Two things void it: a session of selected files, and the fall-back
\* dates of compute_cutoff_from_session.
NonePassedOver ==
  excused = {} =>
    \A f \in device \ imported :
      Taken[f] # NoDate /\ Taken[f] <= Mtime[f] => Passes(f, CutoffOf(TRUE), FALSE, {})

=============================================================================
