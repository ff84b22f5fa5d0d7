------------------------------ MODULE MCDaemon ------------------------------
(* Daemon for TLC: interfaces are interchangeable. *)
EXTENDS Daemon, TLC

Interfaces == Permutations(Iface)
=============================================================================
