------------------------------ MODULE MCDbFile -------------------------------
(* One writer and one reader of the database file of an interface.         *)
EXTENDS DbFile

MCCommands ==
  [p \in Procs |-> IF p = "writer" THEN {"update", "rewrite", "toggle", "daemon"}
                                  ELSE {"query"}]
MCUpdates == [p \in Procs |-> {"update"}]
=============================================================================
