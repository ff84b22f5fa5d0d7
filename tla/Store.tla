-------------------------------- MODULE Store --------------------------------
(***************************************************************************)
(* What the database of one interface promises its users, without files,   *)
(* locks or backups: a cell whose content only moves forward, and which is *)
(* lost only after something has gone wrong.                               *)
(***************************************************************************)
EXTENDS Integers

VARIABLES stored,  \* the counter reading the record stands at, or Nothing
          faulty   \* something has gone wrong: a crash, a full disk, a lock

Nothing == -1

Init == stored = Nothing /\ faulty = FALSE

\* A save replaces the record in one step, and never by an older one.
Put ==
  /\ stored' \in Nat
  /\ stored' >= stored
  /\ UNCHANGED faulty

\* A fault costs nothing at the moment it happens ...
Fail == faulty' = TRUE /\ UNCHANGED stored

\* ... but nothing is promised about what is saved after it.
Lose == faulty /\ stored' = Nothing /\ UNCHANGED faulty

Next == Put \/ Fail \/ Lose

Spec == Init /\ [][Next]_<<stored, faulty>>

=============================================================================
