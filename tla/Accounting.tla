----------------------------- MODULE Accounting -----------------------------
(***************************************************************************)
(* How one interface's traffic gets from the kernel's counters into the    *)
(* database: parseifinfo (ifinfo.c) run by the daemon on its cached copy   *)
(* and by "vnstat -u" on the file, the saves, flushes, crashes and         *)
(* restarts that move the record between cache and file, the interface     *)
(* coming and going, and reboots that zero the counters.                   *)
(*                                                                         *)
(* Abstracted here: when the daemon saves (Daemon models the timers; here  *)
(* every pass may or may not save, and a save may fail), the bytes of the  *)
(* file (a write is whole), and days, months and hours, which receive the  *)
(* same addtraffic calls as the totals.                                    *)
(***************************************************************************)
EXTENDS Counters

CONSTANTS
    KernelMax,          \* the kernel's counters wrap after this value
    MaxBw,              \* ibwget(interface), 0 when no limit is set
    BVar,               \* cfg.bvar: tolerated variation of the boot time
    BtimeNoise,         \* how far above its least value btime may read
    MaxUpdateInterval,  \* 60*MAXUPDATEINTERVAL: older updates only sync
    FirstBoot,          \* boot time of the machine's first run
    Bursts,             \* sizes of traffic bursts, per direction
    MaxNow,             \* bound: the last instant explored
    MaxTruth,           \* bound: bytes passed per direction
    MaxLives,           \* bound: the interface is not lost again after these
    MaxSlips            \* bound: slips (see below) explored

Dir == {"rx", "tx"}

ASSUME AccountingAssumption ==
    /\ KernelMax \in {FP32, FP64}
    /\ MaxBw \in Nat
    /\ BVar \in Nat
    /\ BtimeNoise \in 0..BVar
    /\ MaxUpdateInterval \in Nat
    /\ FirstBoot \in Nat /\ FirstBoot >= BVar
    /\ MaxNow \in Nat /\ MaxNow + BtimeNoise <= FP64
    /\ FirstBoot <= MaxNow
    /\ Bursts \in [Dir -> SUBSET (1..KernelMax)]
    /\ MaxTruth \in [Dir -> Nat]
    /\ MaxLives \in Nat /\ MaxSlips \in Nat
    /\ K <= FP32

VARIABLES
    now,        \* time(NULL)
    boot,       \* the least boot time the kernel reports
    kernel,     \* the interface's counters, as getifinfo reads them
    present,    \* the kernel knows the interface
    up,         \* the daemon is running
    sync,       \* datanode.sync: --sync given and not yet acted on
    cache,      \* the daemon's DATA, or NoData while not filled
    file,       \* the DATA in the database file
    truth,      \* history: bytes that really passed since the file was made
    wraps,      \* history: times each kernel counter wrapped
    life,       \* history: times the counters were lost and began at zero
    slips       \* history: steps that led a record to misread the counters

history == <<truth, wraps, life, slips>>

vars == <<now, boot, kernel, present, up, sync, cache, file, history>>

\* The part of DATA that accounting uses, and as history, not in DATA, the
\* life of the counters that curr was read in.
Data == [curr : [Dir -> Word64],
         total : [Dir -> [mb : Nat, kb : 0..(K - 1)]],
         lastupdated : Nat,
         btime : Word64,
         active : BOOLEAN,
         life : Nat]

NoData == [filled |-> FALSE]

Zero == [d \in Dir |-> 0]

\* What getbtime() may return: btime in /proc/stat varies between reads.
Btimes == boot..(boot + BtimeNoise)

-----------------------------------------------------------------------------
(***************************************************************************)
(* parseifinfo(0) on the record d, with bt read from getbtime().           *)
(***************************************************************************)

Interval(d) == now - d.lastupdated

\* Variant: any variation of the boot time is a reboot.
BootedAtOnce(d, bt) == d.btime < bt

\* Variant: off by one.
BootedEqual(d, bt) == d.btime <= U64(bt - BVar)

\* Unsigned 64 bit comparison of the recorded and the reported boot time.
Booted(d, bt) == d.btime < U64(bt - BVar)

Change(d, bt, dir) ==
    countercalc(IF Booted(d, bt) THEN 0 ELSE d.curr[dir], kernel[dir])

\* Variant: only an excess in both directions counts.
OverLimitBoth(d, bt) ==
    /\ MaxBw > 0
    /\ \A dir \in Dir : MBPart(Change(d, bt, dir)) > MaxTransfer(MaxBw, Interval(d))

OverLimit(d, bt) ==
    /\ MaxBw > 0
    /\ \E dir \in Dir : MBPart(Change(d, bt, dir)) > MaxTransfer(MaxBw, Interval(d))

\* The change is credited; otherwise the counters are only synced.
Counts(d, bt) == Interval(d) < MaxUpdateInterval /\ ~OverLimit(d, bt)

Credit(d, bt, dir) == IF Counts(d, bt) THEN Change(d, bt, dir) ELSE 0

parseifinfo(d, bt) ==
    [btime |-> bt,
     curr  |-> [dir \in Dir |-> U64(kernel[dir] - BytePart(Credit(d, bt, dir)))],
     total |-> [dir \in Dir |-> addtraffic(d.total[dir],
                                           MBPart(Credit(d, bt, dir)),
                                           KBPart(Credit(d, bt, dir)))],
     lastupdated |-> d.lastupdated,
     active |-> d.active,
     life |-> life]

\* parseifinfo(1) on a fresh record: nothing counted, everything synced.
NewData(bt) ==
    [curr |-> kernel, total |-> [dir \in Dir |-> [mb |-> 0, kb |-> 0]],
     lastupdated |-> now, btime |-> bt, active |-> TRUE, life |-> life]

\* The counters made the ones just read, and nothing counted.
Synced(d) == [d EXCEPT !.curr = kernel, !.life = life]

\* Variant: the counters stay what they were.
ResetNot(d) == d

\* The counters forgotten: the next change will be counted from zero.
Reset(d) == [d EXCEPT !.curr = Zero]

\* writedb stamps the record with the time of the write.
Written(d) == [d EXCEPT !.lastupdated = now]

-----------------------------------------------------------------------------
(***************************************************************************)
(* Nothing in a record tells whether the counters it holds are of the life *)
(* that the interface's counters are in, except that a boot time from      *)
(* before the present boot tells that they are not.  A step slips when it  *)
(* makes the next update of a copy compare counters that do not fit.       *)
(***************************************************************************)

\* The record's counters are of an earlier life, but taken for present ones.
Stale(d) == d.life # life /\ d.btime >= boot /\ d.curr # Zero

\* The record's counters are of this life: to forget them is to count from
\* zero what has been counted already.
Counted(d) == d.life = life /\ d.btime >= boot /\ d.curr # Zero

Slip(happened) ==
    /\ slips' = IF happened THEN slips + 1 ELSE slips
    /\ slips' <= MaxSlips

\* The copies of the record that exist: any of them may be the one that a
\* restart continues from.
Copies == {file} \cup ({cache} \ {NoData})

-----------------------------------------------------------------------------
Init ==
    /\ now = FirstBoot
    /\ boot = FirstBoot
    /\ kernel = Zero
    /\ present = TRUE
    /\ up = FALSE
    /\ sync = FALSE
    /\ cache = NoData
    /\ life = 0 /\ slips = 0
    /\ \E bt \in Btimes : file = NewData(bt)
    /\ truth = Zero
    /\ wraps = Zero

(***************************************************************************)
(* The kernel.                                                             *)
(***************************************************************************)

Traffic(dir, n) ==
    /\ present
    /\ truth[dir] + n <= MaxTruth[dir]
    /\ truth' = [truth EXCEPT ![dir] = @ + n]
    /\ IF kernel[dir] + n > KernelMax
          THEN /\ kernel' = [kernel EXCEPT ![dir] = @ + n - KernelMax - 1]
               /\ wraps' = [wraps EXCEPT ![dir] = @ + 1]
          ELSE /\ kernel' = [kernel EXCEPT ![dir] = @ + n]
               /\ UNCHANGED wraps
    /\ UNCHANGED <<now, boot, present, up, sync, cache, file, life, slips>>

Tick ==
    /\ now < MaxNow
    /\ now' = now + 1
    /\ UNCHANGED <<boot, kernel, present, up, sync, cache, file, history>>

\* A reboot, after an orderly Stop or not.  BVar is meant to be small against
\* the time a machine stays up: that is the environment's side of the bargain.
Reboot ==
    /\ now > boot + BVar + BtimeNoise
    /\ boot' = now
    /\ kernel' = Zero
    /\ present' \in BOOLEAN
    /\ up' = FALSE
    /\ sync' = FALSE
    /\ cache' = NoData
    /\ life' = life + 1
    /\ UNCHANGED <<now, file, truth, wraps, slips>>

\* The interface disappears, and its counters with it.
Vanish ==
    /\ present
    /\ life < MaxLives
    /\ present' = FALSE
    /\ kernel' = Zero
    /\ life' = life + 1
    /\ UNCHANGED <<now, boot, up, sync, cache, file, truth, wraps, slips>>

\* The interface is back, with counters that begin at zero.  That slips if a
\* copy of the record has not noticed that it was gone.
Return ==
    /\ ~present
    /\ present' = TRUE
    /\ Slip(\E d \in Copies : d.active /\ Stale(d))
    /\ UNCHANGED <<now, boot, kernel, up, sync, cache, file, truth, wraps, life>>

(***************************************************************************)
(* The daemon.                                                             *)
(***************************************************************************)

Start ==
    /\ ~up
    /\ up' = TRUE
    /\ sync' \in BOOLEAN
    /\ UNCHANGED <<now, boot, kernel, present, cache, file, history>>

\* The record that a pass of the daemon works on: cacheget, or else readdb.
Current == IF cache = NoData THEN file ELSE cache

\* Variant: a record that is saved is not put back in the cache.
PassUncached(d, saved) ==
    /\ up
    /\ now >= Current.lastupdated
    /\ cache' = IF saved THEN cache ELSE Written(d)
    /\ file' = IF saved THEN Written(d) ELSE file
    /\ UNCHANGED <<now, boot, kernel, present, up, history>>

\* One interface in one pass of the main loop: d is the record after reading
\* the interface.  saved: it was time to save, and writedb succeeded.
Pass(d, saved) ==
    /\ up
    /\ now >= Current.lastupdated
    /\ cache' = Written(d)
    /\ file' = IF saved THEN Written(d) ELSE file
    /\ UNCHANGED <<now, boot, kernel, present, up, history>>

PassCount(saved) ==
    /\ Current.active /\ present /\ ~sync
    /\ \E bt \in Btimes : Pass(parseifinfo(Current, bt), saved)
    /\ UNCHANGED sync

PassSync(saved) ==
    /\ Current.active /\ present /\ sync
    /\ Pass(Synced(Current), saved)
    /\ sync' = FALSE

\* getifinfo failed: the interface is disabled, its counters are kept.
PassUnavailable(saved) ==
    /\ Current.active /\ ~present
    /\ Pass([Current EXCEPT !.active = FALSE], saved)
    /\ UNCHANGED sync

PassDisabled(saved) ==
    /\ ~Current.active
    /\ Pass(Current, saved)
    /\ UNCHANGED sync

\* dbcheck finds the interface gone from, or in, the kernel's list.  That slips
\* if the record was disabled by hand, and the interface never gone.
dbcheck ==
    /\ up /\ cache # NoData
    /\ cache.active # present
    /\ cache' = [Reset(cache) EXCEPT !.active = present]
    /\ Slip(Counted(cache))
    /\ UNCHANGED <<now, boot, kernel, present, up, sync, file, truth, wraps, life>>

\* SIGHUP: cacheflush; the next pass reads the file again.  flushed: the
\* record was cached and its write succeeded.
Hup(flushed) ==
    /\ up
    /\ flushed => cache # NoData
    /\ file' = IF flushed THEN Written(cache) ELSE file
    /\ cache' = NoData
    /\ sync' = FALSE
    /\ UNCHANGED <<now, boot, kernel, present, up, history>>

\* SIGTERM or SIGINT flushes as well; a kill does not.
Stop(flushed) ==
    /\ up
    /\ flushed => cache # NoData
    /\ file' = IF flushed THEN Written(cache) ELSE file
    /\ cache' = NoData
    /\ up' = FALSE
    /\ sync' = FALSE
    /\ UNCHANGED <<now, boot, kernel, present, history>>

(***************************************************************************)
(* The command line, run from cron or from interface scripts when there is *)
(* no daemon.                                                              *)
(***************************************************************************)

Cli(d, slip) ==
    /\ ~up
    /\ file' = Written(d)
    /\ Slip(slip)
    /\ UNCHANGED <<now, boot, kernel, present, up, sync, cache, truth, wraps, life>>

\* vnstat -u
CliUpdate ==
    /\ file.active /\ present
    /\ now >= file.lastupdated
    /\ \E bt \in Btimes : Cli(parseifinfo(file, bt), FALSE)

\* vnstat --sync
CliSync == present /\ Cli(Synced(file), FALSE)

\* vnstat -r.  The manual's use of it, in the down script of an interface whose
\* counters go with it, does not slip if the interface is gone by then.
CliReset == Cli(Reset(file), Counted(file))

\* vnstat --disable
CliDisable ==
    /\ file.active
    /\ Cli([file EXCEPT !.active = FALSE], FALSE)

\* vnstat --enable.  That slips if the record holds counters from before the
\* interface was gone, as when the daemon disabled it without dbcheck.
CliEnable ==
    /\ ~file.active
    /\ Cli([file EXCEPT !.active = TRUE], present /\ Stale(file))

-----------------------------------------------------------------------------
Passes == \E saved \in BOOLEAN :
    \/ PassCount(saved)
    \/ PassSync(saved)
    \/ PassUnavailable(saved)
    \/ PassDisabled(saved)

Flushes == \E flushed \in BOOLEAN : Hup(flushed) \/ Stop(flushed)

\* The daemon at work on a machine that stays up.
Monitoring ==
    \/ \E dir \in Dir : \E n \in Bursts[dir] : Traffic(dir, n)
    \/ Tick
    \/ Start
    \/ Passes
    \/ dbcheck

CommandLine == CliUpdate \/ CliSync \/ CliReset \/ CliDisable \/ CliEnable

Next ==
    \/ Monitoring
    \/ Flushes
    \/ CommandLine
    \/ Reboot
    \/ Vanish
    \/ Return

Spec == Init /\ [][Next]_vars

-----------------------------------------------------------------------------
(***************************************************************************)
(* Properties.                                                             *)
(***************************************************************************)

TypeOK ==
    /\ now \in Nat /\ boot \in Nat
    /\ kernel \in [Dir -> 0..KernelMax]
    /\ present \in BOOLEAN /\ up \in BOOLEAN /\ sync \in BOOLEAN
    /\ cache \in Data \cup {NoData}
    /\ file \in Data
    /\ truth \in [Dir -> Nat]
    /\ wraps \in [Dir -> Nat]
    /\ life \in Nat /\ slips \in 0..MaxSlips

\* Bytes the record claims to have seen.
Bytes(d, dir) == K * InKB(d.total[dir].mb, d.total[dir].kb)

\* What the next update of the record would find to have passed.  A disabled
\* record from an earlier life is enabled by dbcheck, which forgets curr.
Due(d, dir) ==
    IF ~present THEN 0
    ELSE IF d.btime < boot \/ (~d.active /\ d.life # life) THEN kernel[dir]
    ELSE countercalc(d.curr[dir], kernel[dir])

\* What the slips so far may have made a record claim in excess.
Allowance == slips * KernelMax

\* No copy of the record, in cache or on disk, ever claims more traffic than
\* passed, through any mix of saves, crashes, restarts from an older file,
\* counter wraps, reboots and disappearing interfaces, except for the slips:
\* an interface gone and back before dbcheck or getifinfo looked; --enable of
\* a record with counters from before the interface was gone; -r on a record
\* of counters that never restarted, or dbcheck enabling one that was disabled
\* by hand.  Each costs at most what one counter holds; with none no byte is
\* counted twice (parseifinfo, ifinfo.c).
NoOvercount ==
    \A d \in Copies : \A dir \in Dir : Bytes(d, dir) <= truth[dir] + Allowance

\* ... not even after the next update: slips do not add up to more than that
\* in the updates, resets, crashes and disappearances that follow.
Conservative ==
    \A d \in Copies : \A dir \in Dir :
        Bytes(d, dir) + Due(d, dir) <= truth[dir] + Allowance

\* A reboot between two updates is always noticed, and never imagined: the
\* comparison with cfg.bvar says "booted" exactly for records that were last
\* updated before the present boot.
BootDetection ==
    \A d \in Copies : \A bt \in Btimes : Booted(d, bt) <=> d.btime < boot

\* While the daemon has the record cached, the file lags behind it and never
\* claims more: no save or flush is overtaken by an older one.
CacheAhead ==
    cache # NoData => \A dir \in Dir : Bytes(file, dir) <= Bytes(cache, dir)

\* With a bandwidth limit no step moves a total of the record by more whole MiB
\* than the interface can transfer in the time since the previous update, in
\* either direction, and whatever the counters seem to say (the maxbw check of
\* parseifinfo).
RateLimited ==
    [][MaxBw > 0 =>
          \A dir \in Dir :
              MBPart(Bytes(Current', dir) - Bytes(Current, dir))
                  <= MaxTransfer(MaxBw, Interval(Current))]_vars
=============================================================================
