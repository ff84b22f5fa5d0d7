------------------------- MODULE MCAccountingExact -------------------------
(* AccountingExact for TLC. *)
EXTENDS AccountingExact

MCBursts == [dir \in Dir |-> IF dir = "rx" THEN {1, 2, 5} ELSE {2, 3}]
MCMax == [dir \in Dir |-> IF dir = "rx" THEN 30 ELSE 10]
=============================================================================
