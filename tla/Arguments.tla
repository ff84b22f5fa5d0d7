----------------------------- MODULE Arguments -------------------------------
(* The arguments of vnstat: which of them are numbers.                      *)
EXTENDS Naturals

CONSTANT
    Numerals        \* what the arguments that begin with a digit stand for

ASSUME ArgumentsAssumption == \A a \in DOMAIN Numerals : Numerals[a] \in Nat

\* isdigit(argv[i][0])
IsNumber(a) == a \in DOMAIN Numerals
=============================================================================
