--------------------------- MODULE AccountingSync ---------------------------
(***************************************************************************)
(* "vnstat --sync" used for what it is for: after a suspend the boot time  *)
(* that the kernel reports has moved, as if the machine had been rebooted, *)
(* but the interface counters have not been reset.                         *)
(***************************************************************************)
EXTENDS Accounting

VARIABLES
    synced,     \* history: --sync was the last change to the file
    mark        \* history: bytes that had passed at that --sync

syncVars == <<vars, synced, mark>>

\* The machine sleeps for s seconds: the kernel counts uptime without them.
Suspend(s) ==
    /\ now + s <= MaxNow
    /\ now' = now + s
    /\ boot' = boot + s
    /\ UNCHANGED <<kernel, present, up, sync, cache, file, history>>

SyncInit == Init /\ synced = FALSE /\ mark = Zero

SyncNext ==
    \/ /\ \/ \E dir \in Dir : \E n \in Bursts[dir] : Traffic(dir, n)
          \/ Tick
          \/ ~synced /\ \E s \in 1..MaxNow : Suspend(s)
       /\ UNCHANGED <<synced, mark>>
    \/ CliUpdate /\ synced' = FALSE /\ UNCHANGED mark
    \/ CliSync /\ synced' = TRUE /\ mark' = truth

SyncSpec == SyncInit /\ [][SyncNext]_syncVars

\* "Synchronize internal counters in the database with interface counters":
\* the update after a --sync adds no traffic that passed before it.
SyncRespected ==
    [][synced /\ ~synced' =>
          \A dir \in Dir :
              Bytes(file', dir) - Bytes(file, dir) <= truth[dir] - mark[dir]]_syncVars
=============================================================================
