---------------------------- MODULE VaultLedger ----------------------------
(***************************************************************************)
(* What Transfera promises about the files of a session, without batches,  *)
(* hops, cache or processes.  A file starts at the source, gets a copy in  *)
(* the vault, and is written down as transferred while the copy is there.  *)
(* Only a file that is written down may leave the source.  A copy may be   *)
(* taken back when its hash is not on record, or when it could not be read *)
(* again; it is struck off the ledger, and no longer counts as verified,   *)
(* in the same step.  Every other copy stays.                              *)
(***************************************************************************)
CONSTANT Items

VARIABLES
  source,    \* items whose original is still there
  vault,     \* items with a copy in the vault
  ledger,    \* items recorded as transferred
  verified   \* items whose hash is on record

vars == <<source, vault, ledger, verified>>

Init == source = Items /\ vault = {} /\ ledger = {} /\ verified = {}

Verify(i) ==
  /\ verified' = verified \cup {i}
  /\ UNCHANGED <<source, vault, ledger>>

\* A copy that had to be made again is as good as the first one.
Deposit(i) ==
  /\ vault' = vault \cup {i}
  /\ verified' \in {verified, verified \cup {i}}
  /\ UNCHANGED <<source, ledger>>

\* Some copies are written down, others are struck off.
Record(R, F) ==
  /\ R \subseteq vault
  /\ ledger' = (ledger \ F) \cup R
  /\ UNCHANGED <<source, vault, verified>>

\* A copy that was never verified is taken back.
TakeBack(i) ==
  /\ i \notin verified
  /\ vault' = vault \ {i} /\ ledger' = ledger \ {i}
  /\ UNCHANGED <<source, verified>>

\* A verified copy cannot be read again and is given up.
GiveUp(i) ==
  /\ i \in verified \cap vault
  /\ vault' = vault \ {i} /\ ledger' = ledger \ {i} /\ verified' = verified \ {i}
  /\ UNCHANGED source

Release(i) ==
  /\ i \in ledger
  /\ source' = source \ {i}
  /\ UNCHANGED <<vault, ledger, verified>>

Next ==
  \/ \E i \in Items : Verify(i) \/ Deposit(i) \/ TakeBack(i) \/ GiveUp(i) \/ Release(i)
  \/ \E R, F \in SUBSET Items : Record(R, F)

Spec == Init /\ [][Next]_vars

\* Whatever is written down is in the vault, and a verified file is always
\* somewhere.
LedgerInVault == ledger \subseteq vault
VerifiedKept  == verified \subseteq source \cup vault

=============================================================================
