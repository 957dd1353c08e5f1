----------------------------- MODULE MCMemoryInit -----------------------------
(***************************************************************************)
(* Memory maps for Loader and MemoryInit, two units of address to a page:  *)
(* every map of one or two entries, in any order and overlapping or not,   *)
(* and maps of three and four entries in order, the last of which meets    *)
(* the VBE information; in memory before nothing, or bytes that look like  *)
(* an entry, once or everywhere.                                           *)
(***************************************************************************)
EXTENDS MemoryInit

Entries == [address : {0, 1, 2, 5, 6, 9}, len : {1, 2, 3, 4}, type : {1, 2, 5}]
Entries3 == [address : {0, 2, 5, 6, 8}, len : {1, 3, 4}, type : {1, 2}]
Follows(d, e) == d.address + d.len <= e.address

Tables3 == {t \in Entries3 \X Entries3 \X Entries3 : Follows(t[1], t[2]) /\ Follows(t[2], t[3])}
Tables4 == {Append(t, [address |-> 12, len |-> 4, type |-> 1]) : t \in Tables3}
Tables == {<<e>> : e \in Entries} \cup (Entries \X Entries) \cup Tables3 \cup Tables4

Like == [address |-> 10, len |-> 4, type |-> 1]
NoEntry == [address |-> 0, len |-> 0, type |-> 0]
Before == {[k \in Slots |-> IF k \in S THEN Like ELSE NoEntry] : S \in {{}, {1}, Slots}}
=============================================================================
