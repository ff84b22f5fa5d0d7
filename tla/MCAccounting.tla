---------------------------- MODULE MCAccounting ----------------------------
(* Accounting for TLC: counters that wrap after a few bytes, and traffic in *)
(* one direction (AccountingExact has both).                                *)
EXTENDS Accounting

MCBursts == [dir \in Dir |-> IF dir = "rx" THEN {1, 3} ELSE {}]
MCMax == [dir \in Dir |-> IF dir = "rx" THEN 6 ELSE 0]
=============================================================================
