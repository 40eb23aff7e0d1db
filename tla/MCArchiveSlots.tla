--------------------------- MODULE MCArchiveSlots ---------------------------
(***************************************************************************)
(* Three items with one name: 1 and 3 hold the same bytes, 2 others;       *)
(* the name itself is taken by a file that was there before.               *)
(***************************************************************************)
EXTENDS ArchiveSlots

OneName      == [i \in Items |-> "IMG_0001"]
TwoContents  == [i \in Items |-> IF i = 2 THEN "other bytes" ELSE "bytes"]
NameTaken    == [s \in {"IMG_0001"} \X (1 .. LastSlot) |->
                   IF s[2] = 1 THEN {"foreign"} ELSE {}]

=============================================================================
