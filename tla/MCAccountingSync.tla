------------------------- MODULE MCAccountingSync -------------------------
(* AccountingSync for TLC. *)
EXTENDS AccountingSync

MCBursts == [dir \in Dir |-> IF dir = "rx" THEN {2} ELSE {}]
MCMax == [dir \in Dir |-> IF dir = "rx" THEN 6 ELSE 0]
=============================================================================
