-------------------------- MODULE AccountingExact --------------------------
(***************************************************************************)
(* Accounting while nothing happens that entitles vnstat to give up on     *)
(* bytes: no reboot, no disappearing interface, no sync, no update that is *)
(* overdue or over the bandwidth limit, and no second wrap of a counter    *)
(* between two updates.  Crashes, failed saves, restarts and "vnstat -u"   *)
(* between two daemons remain.                                             *)
(***************************************************************************)
EXTENDS Accounting

\* The manual's restriction: an update at least as often as the counters can
\* wrap, even for the copy of the record that is furthest behind.
UpdatedInTime ==
    \A d \in Copies : \A dir \in Dir :
        Due(d, dir) + (truth'[dir] - truth[dir]) < FP32

\* No update is overdue or finds more than the bandwidth limit allows.
UpdatesCount ==
    Passes \/ CliUpdate => \A bt \in Btimes : Counts(Current, bt)

CalmNext ==
    /\ Monitoring \/ Flushes \/ CliUpdate
    /\ sync' = FALSE
    /\ UpdatedInTime
    /\ UpdatesCount

CalmSpec == Init /\ [][CalmNext]_vars

\* No byte is lost: what a record claims and what its next update will add
\* falls short of the truth by at most one KiB for every wrap of the counter.
\* In particular the bytes beyond a full KiB, which no total can hold, are
\* carried into the next update by setting currx back (ifinfo.rxp).
Lossless ==
    \A d \in Copies : \A dir \in Dir :
        truth[dir] <= Bytes(d, dir) + Due(d, dir) + K * wraps[dir]
=============================================================================
