# vnStat in TLA+

vnStat keeps a log of the traffic of network interfaces. This directory models
the program under `src/` (vnStat 1.11 with some additions) in TLA+, checks the
models with TLC and proves the most important of their invariants with TLAPS.

    tlc -workers 2 -config Accounting.cfg MCAccounting
    tlapm AccountingProofs.tla

Every run and theorem is listed in `PROJECT.json`, with the source lines that
each definition models.

## 1. The system

Two programs write the databases: the daemon `vnstatd`, one thread with a cache
of records, and the command line `vnstat`, run by hand, from cron or from
interface scripts. Each interface has one database, a file that holds one `DATA`
record, and next to it a hidden backup of the previous version. `vnstati` and
the query modes of `vnstat` only read.

| Component | Source | State | Operations | What makes it correct |
| --- | --- | --- | --- | --- |
| Main loop of the daemon | `vnstatd.c` 26-450 | `intsignal`, `dbcount`, `dbhash`, `forcesave`, the times of the last update and save, `updateinterval` | scan the directory, update and save every interface, sleep, handle SIGHUP, SIGTERM and SIGINT | updates and saves never stop coming; signals are obeyed; the file is never older than the save interval; the status of a record follows its interface |
| Record cache | `dbcache.c` | the list `dataptr` of nodes: record, `filled`, `sync` | `cacheadd`, `cacheupdate`, `cacheget`, `cacheremove`, `cacheflush`, `cacheactivecount`, `dbcheck` | only filled nodes are used or written; the list has as many nodes as main believes |
| Accounting | `ifinfo.c` 253-402, `misc.c` 131-199 | the record's counters, totals, boot time | `parseifinfo`, `countercalc`, `getbtime`, `addtraffic` | no byte is counted twice, or too much by one counter where a restart goes unnoticed; none is lost without a reason |
| Database files | `dbaccess.c` 4-290, 556-637 | file, backup, lock | `readdb`, `writedb`, `backupdb`, `lockdb`, `checkdb`, `removedb` | some readable version survives a crash; readers never see half a record |
| Calendar of a record | `dbaccess.c` 639-762, `ifinfo.c` 335-376 | 30 days, 12 months, 24 hours, top 10 | `parseifinfo`, `rotatedays`, `rotatemonths`, `cleanhours`, clear top 10, rebuild total | traffic is filed under its day, month and hour; the top 10 has the days with most traffic; the total is what the months held |
| Format conversion | `dbaccess.c` 293-554 | the record | `convertdb` | (cannot be reached, see section 5) |
| Command line | `vnstat.c` | the flags, `interface`, the global record | arguments, then update, sync, reset, enable, disable, delete, clear top 10, rebuild total, merge, query | an operation changes what it names, in the right database, and shows and measures what was asked for |
| Merging | `dbmerge.c` | two records | `mergedb`, `emptydb`, `mergewith`, `cleanmerged` | the sum of the parts, period by period |
| Configuration | `cfg.c` | `cfg`, list of bandwidth limits | `loadcfg`, `validatecfg`, `ibwcfgread`, `ibwadd`, `ibwget`, `printcfgfile` | every value in range afterwards, intervals in order; the right line counts; what is printed loads as the same |
| Live monitor | `traffic.c` | samples, a child that counts packets | `trafficmeter`, `livetrafficmeter`, `ProcessPacket` | totals and rates from consecutive samples; the child ends with its parent |
| Disk statistics | `disk_status.h` and the headers it builds on | table of devices, two samples, a timer | registration, sampling, release, report | a device keeps its slot, a gone device does not leave its numbers to another; reports go on |
| Server monitor | `server_monitor.h`, `cpu.h`, `zombie_*.h` | none beyond two samples | print | - |
| Output | `dbshow.c`, `dbxml.c`, `common.c`, `image.c`, `vnstati.c` | none | print, draw | estimates, weeks and hours follow from the record |

How they interact: the main loop calls the cache for the record of an interface,
`readdb` where the cache has none, accounting to bring it up to date, the cache
again to keep it, and `writedb` when it is time to save. `dbcheck` compares the
kernel's list of interfaces with the one it saw last. `main` of `vnstat` reads its
arguments into flags and then runs through its operations in an order of its own;
`-d` leaves for the disk report in the middle of the arguments, `-tr` and `-l` for
the live monitor at the end. The signal handler and the
loop share `intsignal`. The command line shares nothing with the daemon but the
files. Everything passes through one global record, `data`.

What is hard here: signals at any instant; interfaces that come and go between
two looks at them; databases created and deleted under a running daemon; writes
that fail; a cache that is newer than the file when the daemon dies; counters
that wrap, and counters that restart; a clock that is set back, a boot time that
varies; days that are skipped, and months of which the rotation day is missed;
operations that meet in one call of `vnstat`; a child that is not told of its
parent's end; devices that leave and return between two samples. `PROJECT.json` lists the hazards line by line with the properties that
cover them.

## 2. The modules

| Module | Models | Extends |
| --- | --- | --- |
| `Counters` | the arithmetic of `countercalc`, `addtraffic` and of `parseifinfo`'s units | |
| `Accounting` | one interface's record on its way between kernel, cache and file | `Counters` |
| `AccountingExact` | the same while nothing happens that may cost bytes | `Accounting` |
| `AccountingSync` | the same with a machine that suspends and `vnstat --sync` | `Accounting` |
| `Daemon` | the loop, the cache, the timers and the signals, for several interfaces | |
| `Store` | what the database of an interface promises: a cell | |
| `DbFile` | the file, its backup and its lock, system call by system call, for several processes | `Store` (refined) |
| `Calendar` | days, months, hours and the top 10 of a record | `Counters` |
| `Merge` | the sum of several records | `Calendar` |
| `Show` | what queries compute from a record | `Merge` |
| `Config` | loading, validating and printing the configuration | |
| `Arguments` | which arguments are numbers | |
| `Cli` | `main` of `vnstat` | `Arguments` |
| `Live` | `-tr` and `-l`, parent and child | `Counters` |
| `DiskStat` | `-d`: the table of devices, the samples, the timer | `Arguments` |
| `Vnstat` | `vnstat` whole: the three together | `Cli`, `Live`, `DiskStat` |
| `CounterLemmas` | facts about `Counters`, least numbers and folds over finite sets, proved | `Counters` |
| `AccountingProofs` | theorems about `Accounting` | `Accounting`, `CounterLemmas` |
| `AccountingExactProofs` | the theorem about `AccountingExact` | `AccountingExact`, `AccountingProofs` |
| `DaemonProofs` | theorems about `Daemon` | `Daemon` |
| `DbFileProofs` | theorems about `DbFile`, the refinement of `Store` among them | `DbFile` |
| `ConfigProofs` | theorems about `Config` | `Config` |
| `CalendarProofs` | theorems about `Calendar`, `Merge` and `Show` | `Show`, `CounterLemmas` |
| `VnstatProofs` | theorems about `Vnstat` | `Vnstat`, `CounterLemmas` |
| `MC*` | constants for TLC | |

Definitions whose comment begins with "Variant" are not part of the model: each
is another one of the model's definitions with a plausible mistake in it, kept to
see that the property named in `PROJECT.json` would notice.

### Accounting

State: the kernel's counters (`kernel`), whether it knows the interface
(`present`), its clock and boot time; the record in the daemon's cache (`cache`)
and in the file (`file`); whether the daemon runs (`up`) and was started with
`--sync` (`sync`). History variables: `truth`, the bytes that really passed, `wraps`,
`life`, how often the counters were lost and began at zero (a reboot, an interface that
is gone), and `slips`, see below. A copy of the record carries the `life` that its
counters were read in, which the program does not know.

A pass of the main loop over one interface is one action, `Pass`, in four kinds
as the code branches: counted by `parseifinfo`, synced, disabled because the
interface is unavailable, or disabled before. Each may save, or fail to. `Hup`
and `Stop` flush, `Reboot` also stands for a crash of everything. `dbcheck`
toggles the cached record. `vnstat -u`, `--sync`, `-r`, `--disable` and `--enable` work on
the file while no daemon runs: a daemon's cache would overwrite their work with the next
save.

A record does not tell in which life of the interface its counters were read, unless a
reboot came in between, which the boot time tells. So there are steps after which the code
counts too much, and the model takes them all (`Slip` counts them):

- `Return` of an interface that nobody saw gone. `dbcheck` compares hashes of two lists
  of interfaces (dbcache.c:277-313) and `getifinfo` looks once in a pass; an interface
  that is gone and back between two looks may show less than the record holds, and
  `countercalc` takes the restart for a wrap (ifinfo.c:388-400).
- `CliEnable` of a record that holds counters from before the interface was gone
  (vnstat.c:531-540 enables whatever counters the record has). `getifinfo` disables a
  record and keeps its counters (vnstatd.c:316-318); only `dbcheck` forgets them.
- `CliReset` of a record whose interface is still there with the counters that the
  record has: `-r` makes the next update count from zero what has been counted. Its
  documented use, in the script that takes an interface down with its counters, does not
  slip.
- `dbcheck` enabling a record that was disabled by hand (`--disable`) and whose interface
  was never gone: it forgets the counters as after a real absence.

`NoOvercount` and `Conservative` allow for each slip one full counter (`KernelMax`), and
nothing else; `NoByteTwice` is the case without slips. That a slip costs no more is not
obvious: a record that slipped may be saved, fall back to an older file, be reset, slip
again. `MaxSlips` bounds their number in a run; in the proofs it is any number.

`Counters` has the widths as constants, so that TLC meets wraps of both widths
and the negative `currx` that `parseifinfo` produces when it sets the counter
back by the bytes that do not fill a KiB (`U64`).

Not in the model: days, months and hours, which get the same `addtraffic` calls and
are the subject of `Calendar`; a `getbtime` that fails; `-u --force` for an interface that is
not there; how `/proc/net/dev` is parsed.

### Daemon

`pc` tells where the loop is. The cuts are where another actor can intervene:
before and after `dbcheck` ("top", "due"), between two nodes of the list ("walk"), before
`checkdb` ("save"), before `writedb` opens the old file for its backup ("write") and before
it makes the file anew ("create"), before the sleep and in it ("sleep"), before and after
the switch over signals ("signal", "clear"), and in `cacheflush` between two nodes ("flush")
and within the save of one ("flushcreate"). The interfaces of a pass or a flush are visited
in any order. An iteration takes no time; time passes in `Sleep`, one poll interval at a
step, and every stored time is an age. `Scan` is the directory scan with `cacheadd`, `Begin`
the choice whether this pass saves, `Update`, `Skip`, `ReadFails` and `GiveUp` the ways in
which a node is processed, `Check`, `Remove`, `Backup` and `Write` its save. SIGHUP flushes
(`Hup`, `FlushNode`, `FlushWrite`, `HupDone`); a signal to stop ends the loop (`running`),
and the flush after it the daemon (`Exit`).

A record is reduced to whether it is the interface's data at all (`real`),
whether `cacheget` would accept it (`valid`), its status and the age of
`lastupdated`. The memory of a node that was added and never filled is garbage
that passes or fails the validation as it likes.

`file` is what `readdb` finds: a write that fails leaves the old record, which
is what the backup is for. `lookup` and `disk` say whether the kernel's lists can
be read and databases read and written.

Abstracted: hashes do not collide (the loopback interface is always in the list,
so that it is never empty); `SIGHUP` does not change the configuration (it may in
`Config`); the clock
is set back only while the daemon sleeps or is down.

Some properties need an assumption without which the code does not have them:

- `SleeperStops` says that a SIGTERM ends a daemon that sleeps. One that arrives
  before the directory scan is overwritten by `intsignal = 42` (vnstatd.c:244), and
  one that arrives while another signal is handled is cleared by `intsignal = 0`
  (435); man/vnstatd.1:181-185 promises that the daemon writes its data and exits.
- `StatusFollows` says that the status of a record follows its interface if
  interfaces come and go while the daemon sleeps (`CalmSpec`). If one is missing
  only at the instant of `getifinfo`, `main` disables it, but the list that
  `dbcheck` compares never changed (dbcache.c:277), and the record stays disabled
  until another interface comes or goes; FAQ:29-30 promises more.
- `GoodFile` says that a database holds its interface's data as long as the clock is
  not set back. A record from the future is skipped (vnstatd.c:331) after its node
  was marked as filled (298), and the next flush writes what `malloc` returned.
- `NoResurrection` says that a database that is deleted stays so until it is created again;
  `gone` has the deleted ones. It leaves out a deletion in the middle of that very
  database's save, between the `open` of the old file for the backup (dbaccess.c:267) and
  the `fopen` that makes the file anew (225): the whole copy lies in between, and the
  database is back (`Rewriting`). Counted as a deletion, TLC finds that in a few
  steps: `Check`, `Backup`, `Delete`, `Write`. The other exception is a start that finds no
  database at all, which makes new ones. What remains is that nothing is brought back by a
  save that has passed `checkdb` but not opened the file, by a flush, which does not ask
  `checkdb`, by a rescan or a restart, with whatever the cache holds.

The model also shows something that needs no property: the longer interval that
is set when no database is found (`updateinterval = 120`, vnstatd.c:249) never
delays a scan, because `prevdbupdate` is not set by one.

### DbFile and Store

`DbFile` takes apart what `Daemon` and `Accounting` treat as one step. `main` and
`backup` are the two files, `lock` who holds a `flock` on the first (nobody ever
locks the backup but to read it, so that lock always succeeds and is not kept),
`pc` where each process is in `readdb` or `writedb`, `mem` its global `data`,
`ret` what `readdb` returned and the caller made of it. `Begin`, `LockRead`,
`ReadMain` and `ReadBackup` are `readdb`; `Proceeds` and `NewDb` what the callers
do with its result; `Save`, `Copy`, `Truncate`, `LockWrite` and `Flush` are
`writedb`, in its order: copy the file over the backup, empty the file, ask for
the lock, write. Between two steps any other process may run, or this one die.

A record has the size of a few of the 512 byte chunks that `backupdb` copies, and
less than a stdio buffer (2792 and 4096 bytes on a 64 bit Linux), which is why the
file is written by `fclose`, at once, and the backup chunk by chunk. A record is
named by the counter reading it was last brought up to, which is what makes an
older record recognisable; four more names stand for the end of a file, the hole
left by a write behind it, the zeros a process starts with and the record of
another interface. `read` and `write` of one chunk of the copy are one step.

`Store` is the abstract specification: a cell that a save replaces in one step,
only by a record that is not older, and that is lost only after a fault. Under
`Stored`, what an undisturbed `readdb` would return, `DbFile` with one writer
implements it, through every half-done save.

Not in the model: files that cannot be opened for another reason than not being
there, a `flock` that fails for another reason than another's lock, databases
deleted while in use, the descriptor that `writedb` and `readdb` leak when a lock
is refused.

### Calendar, Merge and Show

`Calendar` takes the traffic of a pass as given and follows it into the arrays of a
record. Its definitions are those steps of `parseifinfo` in their order: add to the
open day and month, clean and update the hours, rotate the days (and rank the one
that ended), rotate the months. Time is in minutes; lengths of hours, days, months,
years, weeks and arrays are constants. `log` and `hourlog` are history variables:
the traffic by the day on which the period that it was counted for began, and by
its hour. `Retire` sets a record aside whose interface is removed, which is the
second record of a merge.

`Merge` and `Show` are operators on the records that `Calendar` reaches: the sum of
two records with its empty skeleton of days and months, the estimates for the day
and the month, the weeks, the order of the hours. The properties compare them with
`log` or with the parts.

`MonthsAssumption` and `SpanAssumption` say of the constants what the proofs need: the
day on which months begin is a day of every month (`validatecfg` keeps it within 1..28),
and the list of months reaches from before the first database to beyond the last
minute. `OfAll` is what all entries of an array hold together.

Exceptions that the properties name: `MonthsExact` excludes histories with a billing
month in which no update came on `MonthRotate` or later (its traffic then belongs to
the month before, and a pause of exactly a year is not seen at all, since only
`tm_mon` is compared); `HoursExact`'s first half excludes saves that count nothing,
which move `lastupdated` (ifinfo.c:346); `TopBest` allows the `K - 2` KiB by which
two days may be compared wrongly, as the KiB of both directions are added and not
carried (dbaccess.c:704-709); `MergeExact` excludes days of the month that not every
month in the array has (emptydb then has a month twice, and counts it twice);
`WeeksExact` excludes records with entries of a year ago and last week's sum in
week 1 (dbshow.c:765).

Not in the model: summer time, floating point rounding of the estimates.

### Config

`loadcfg` is one action per line: `Load` opens the file and sets the defaults,
`ParseLine` and `ReadLimit` are the bodies of its two loops, `Validate` its end. A
user may change the files while the program runs (`Edit`), put the output of
`--showconfig` in their place (`Dump`), and the daemon may load them again (`Load`).
A line is the name of a setting or of an interface, and a value of one of four
kinds, which is all that the parser looks at. Names that begin with the name of
another setting are matched as the code does: "CRxD x" sets `CRx` to "D x" unless
that was found before; "CRxD" without a value sets it to "D". `LinesCount` leaves out
the colours of which a longer name comes first in one of these ways (`Confused`), and
the interfaces whose names differ in case alone, for which the last limit that was
added counts. `SameName` stands for `strcasecmp` and is an equivalence.

`ValidConfig` is what the other modules assume of their constants: `MonthRotate` in
1..28, polls not longer than updates, updates not longer than saves.

### Vnstat: Cli, Live, DiskStat

`Cli` is `main` of `vnstat.c`. One action reads an argument (with its value), and one
is a stage: the operations in the order of main, each with its refusals. A database
has what operations change: whether it is there and active, its counters ("old",
"zero", "now"), its top 10, its total, when it was updated. What a stage finds out
from the outside (no room, no interface) is a choice. `interface`, `data` and the
flags are kept between stages, as the code keeps them. `shown` and `measured` are
what the queries and the monitor were called for. `AsAsked` relates them to the
arguments: the interface of `-i`, or the configured one, is the one that is measured,
and the one of `-i` is the one that is shown. It leaves out calls whose own operations
replace the record on the way (`-u` without `-i` goes through all databases; a reset or
an update reads its database again, which matters after a merge).

`Live` has the parent, which samples until SIGINT, and the child it forks, which
looks after its parent after each packet. `OneMorePacket` holds for a child that
learned who its parent is in time; one of root that calls `getppid` too late takes
init for it and never ends (traffic.c:152), which its comment says.

`DiskStat` has the table of devices with its slots, two samples each that change
roles, the rounds (`Read`, or `ReadFails`, whose early return leaves all of it as it
was), the report and the alarm. `LookedFor` are the names that a round goes through, in
order, and `Found` those of them that it takes into the table (`TakeIn`); a slot that never
had a device has the name `NoDevice`, the empty string that `salloc_device` leaves there. `due`
is the history variable the report is compared with: what a device read since the last
report that had it.

`Vnstat` puts them together: `CallDisk` hands the arguments to the report,
`CallTraffic` and `CallLive` the flags to the monitor.

Not in the model: see section 5.

## 3. What the runs check

Passing runs:

| Run | Bounds | Properties |
| --- | --- | --- |
| `accounting` | 2 bytes in a KiB, 2 KiB in a MiB, counters wrap after 5, 64 bit values after 17; 6 bytes in all; 4 instants; the interface is lost up to twice; one slip | `TypeOK`; `NoOvercount`, `Conservative`: no copy of the record claims, or will claim after its next update, more than passed and what one counter holds for each slip; `BootDetection`: a reboot is noticed, and none imagined; `CacheAhead`; `RateLimited` |
| `accounting_exact` | 3 bytes in a KiB, wrap after 8; both directions; 30 and 10 bytes; an update is overdue after 2 | `Lossless`: what is missing from the claim is a KiB per wrap |
| `daemon_save` | 2 interfaces, update every 2 polls, save every 3 or 5, 2 signals | `TypeOK`; `Fresh`: no file older than the save interval; `EnableSaved` |
| `daemon_faults` | 2 interfaces, 1 signal | `DbCount`, `GoodFile`, `NoResurrection` |
| `daemon_live` | 1 interface, clock set back by up to 2 polls, 1 signal | `Refilled`, `StatusFollows`, `WritesResume`, `SleeperStops`, `UpdatesGoOn` |
| `db_file` | one process that updates, resets, enables or is the daemon, one that queries; with and without locks; records of 2 chunks, 2 lock attempts, 2 faults | `TypeOK`; `IsStore`: refinement of `Store`; `OneFault`: one fault loses nothing saved; `ReadGood`: a read that meets at most one save gets a whole and current record |
| `calendar` | years of three months of 2 or 3 days, days of 3 hours of 2 minutes; arrays of 3 days, 3 months, 2 best days; months begin on day 2; 7 instants from before the end of a month to beyond the end of the next year but one; 3 passes with traffic, 1 save without | `TypeOK`; `DaysExact`, `MonthsExact`, `HoursExact`: entries hold the traffic of their period; `TopBest`; `Conserved`: total and months agree; `MergeExact`, `EstimateSound`, `WeeksExact` |
| `config` | up to 2 lines in each file, or the output of `--showconfig`; 1 edit; 3 interfaces, two of which differ in case alone | `ValidConfig`; `LinesCount`: the first line of a setting and the last of a limit count; `RoundTrip` |
| `vnstat` | calls with every option and with pairs of changes, forced or not, on no, one or two databases; live display of 3 samples with counters that wrap at 7 or 15; a disk, a partition, 4 changes, counters that wrap after 2 | `OthersUntouched`: no call changes a database that it was not asked about; `AsAsked`; `TotalsRight`; `OneMorePacket`; `SamplesRight`: a report shows of each device what it read since the last; `ReportsGoOn` |

Why the bounds are enough. Accounting: a counter can wrap and be restarted, the
KiB part carries into the MiB part, an update can be overdue
(`MaxUpdateInterval` is 3, and 2 in `accounting_exact`, where `CalmNext` excludes the
steps that would find it overdue or over the limit: `UpdatesCount`), a file can be two
updates behind, the interface can be lost by a reboot and otherwise, or twice, with one of
the returns unnoticed, and the boot time can vary by its full tolerance. The
run has time for one reboot; several are left to the theorems. One slip is
enough to see whether it costs more than it may, again and again from an older file.
Daemon: the intervals are chosen so that none divides another, which
makes saves fall late; two interfaces are what a pass needs to be interrupted
between nodes and a removal to leave something behind; two signals are what it
takes to replace one by another. Ages saturate where no comparison can tell them
apart any more, so that the state space is finite without a last instant.

Files: two chunks are what a torn record needs, two attempts make a lock both
retried and given up, two faults are one more than can be survived, and three
counter readings tell the record in the file, the one in the backup and the one
being written apart. Both limits are sharp: with `OneFault` extended to two
faults, or `ReadGood` to a read that meets two saves, TLC finds a counterexample
(the second save empties the backup the reader has just turned to).

Calendar: the instants lie just before and at full hours, on both sides of midnight,
of the rotation day and of the year's end, with a gap that skips days, months and a
year; three passes with traffic fill and overflow each array of two or three
entries. An update at each instant or none makes every one of the gaps. Config: a
setting is checked against one other, so that two lines meet every check. Vnstat: two
stages are what it takes for one to disturb another, two databases for one to be the
wrong one; a table of as many slots as there are devices is full at once, and four
changes unplug, replug and use a device between two rounds.

`CHECK_DEADLOCK FALSE` where the system may stop: a calendar that has reached its last
instant, a program that has exited (`Config`, `Vnstat`). All other runs check that
somebody can always go on, the daemon above all.

Runs that are expected to fail, each with the counterexample to something the
documentation says (`findings` has the quotes):

| Run | Violated | In short |
| --- | --- | --- |
| `accounting_sync` | `SyncRespected` | `--sync` stores the counters, but not the new boot time, and the next update takes it for a reboot and counts everything |
| `db_file_updates` | `OwnRecord` | `vnstat -u` ignores that `readdb` could not get the lock, and writes the record of the interface before into this one's file, without a backup |
| `calendar_rebuild` | `RebuildExact` | `--rebuildtotal` adds 30 entries of an array of 12: the top 10 and what follows it are counted as months |

Fairness: `WF_vars(Loop)`, the daemon's process gets to run; in `DiskStat` a round
and a report come to an end and a timer that is set expires (`DiskFairness`). Nothing
is assumed of signals, disks, interfaces, devices and the clock but what a property
says itself ("if the interface is back for good"). `CalmSpec` lets interfaces come
and go only while the daemon sleeps, which is where it spends its time.

## 4. What is proved

`CounterLemmas`: division with remainder, the parts of a change, what
`addtraffic` adds, what an unsigned 64 bit assignment keeps; and that a set of
natural numbers which is not empty has a least one (`Least`). For folds over finite sets
`TakingExists` has the recursive function that takes one element after another: it exists,
because a smallest set of elements for which it did not would contradict `Least`.

`AccountingProofs`, for every width, limit and bound that
`CountersAssumption` and `AccountingAssumption` allow: `TypeCorrect`,
`NoOvercountAlways`, `ConservativeAlways`, `BootDetectionAlways`. `NoOvercount`
is not inductive: what a record claims says nothing about what its next update
will add. The inductive invariant `IInv` says of every copy that it has the right type,
that its boot time is at most the present one and either in the present boot's range or
clearly before it, that its counters were read in no life to come, nor in one that the
interface is yet to return with (`LifeOK`), and that its claim and what is due together do not
exceed the truth and the allowance for the slips (`Most`). What is due from a record of an
earlier life is taken at its worst (`ClaimIn`): the whole counter, or a wrap of it; where a
step makes that more than it was, the step slips and there is room for it (`ChargedGood`,
`RoomGood`). Every action
is shown to keep that for a copy (`Good`), be it a step of the world (the `Frame` lemmas) or
of the program (`UpdateGood`, `ResetGood`, `SyncGood`, `DisabledGood`, `EnabledGood`). `CacheAheadAlways` and
`RateLimitedAlways` rest on a second invariant, `Ahead`: no copy is from the future,
and each direction of the file claims at most what the cache claims, a reset by the
command line included, which is only taken while no cache exists.

`AccountingExactProofs`, for every width, limit, burst and length of history:
`LosslessAlways`, under `CalmSpec`. That what a record lacks is due is not inductive: a
wrap costs a byte more than once, in `countercalc`, which takes a counter to have one
value less than it has, and again whenever the KiB remainder sets `currx` back below
zero. `CalmInv` therefore keeps for each copy a reserve (`Reserve`), what later updates may
still lose on account of the wrap, which is less than a KiB. The theorem assumes of a 64
bit counter that it is at least twice as large as a 32 bit one, as `countercalc` guesses
the width of a wrap from the value before it.

`DaemonProofs`, for any finite set of interfaces and any intervals:
`DbCountAlways`, with the invariant that a pass only visits and saves nodes of
the list (`Walking`), and `GoodFileAlways` for specifications in which the clock
is not set back, with the invariant that files and filled nodes hold good records
(`FileInv`) and that the node being saved is filled (`SavingFilled`).
`EnableSavedAlways`, with the lookups and the disk in order and a clock that is not set
back (`SteadySpec`), adds that every save that is owed is on its way at each point of a
pass (`SaveInv`), which needs that a node is in hand only between its visit and its
save (`HandEmpty`). `FreshAlways`, under `SteadySpec`, follows the timers: a pass takes no time and the next one
is never late (`Punctual`), and a node whose save is not under way has been unsaved no
longer than the last pass, which did not save, can explain (`Timely`). What it says of the
shorter interval needs `SaveOnStatusChange`: without it an interface that comes back while
the offline interval is running is saved with the next update only.
`TypeCorrect` has the types in four parts (`FlagTypes`,
`RecordTypes`, `TimerTypes`, `UnsavedTypes`). `NoResurrectionAlways`, under failing disks and
clocks as well, adds that a database which is being made anew was there when its backup was
opened and is none of the deleted ones (`GoneInv`).

`DbFileProofs`, for any number of processes, chunks, attempts and faults:
`TypeAlways`; and, if at most one process runs anything but queries
(`SingleWriter`), `StoreAlways`, the refinement of `Store`, and `OneFaultAlways`.
The invariant (`Inv`) says that either file is the beginning of one record not
from the future (`Content`), how far the backup is a copy of the file at each
step of a save (`Saves`), that the writer's memory is never behind what a reader
would get (`Reads`), that the file is whole outside the last steps of a save
until something goes wrong (`Calm`), and what the last saved record has to do
with the stored one (`LastSaved`). One lemma per action shows that it keeps the
invariant and is a step of `Store` or stutters. With two writers the invariant
is false: each may copy what the other has just emptied. `ReadGoodAlways`, with one
writer and any number of readers, adds what a reader holds (`ReadInv`, `Reader`): while
nothing fails, it has all of a file or nothing, and turns to the backup only in the one save
that it may meet (`Met`), when the copy is complete and not older than what was saved when
it began.

`ConfigProofs`, for any interfaces, contents of files and number of edits:
`ConfigAlwaysValid`. A configuration is valid only while the program runs, not in the
middle of `loadcfg`; the invariant (`Typed`) adds that every setting is an integer or
a value of its kind at every line, which is what `validatecfg` needs to be given.
`LinesCountAlways`: the invariant (`LineInv`) says of each setting that it is found if a line
before the present one can be read as it, and has the value of the first of those
(`TakenOf`), where the longer of two names is open only once the shorter one was found
(`Takes`); and that the list has the last limit of each exact name, each once (`ListTaken`).
`RoundTripAlways`: the invariant (`RoundInv`) adds that what is in memory can be printed so
that it is read again (`Printable`), that a printed file has every setting, the shorter
names before the longer ones, and every limit (`PrintedFile`), and that `validatecfg` leaves
what it has once accepted (`ValidSettings`).

`CalendarProofs`, for any lengths of hours, days and months, any sizes of the arrays and
any traffic. `CalendarAssumption` asks for at least two days and two months; the code has
30 and 12.

- `TypeCorrect`: `TypeOK` is inductive by itself, as every sum is normalised by
  `addtraffic` and every entry is copied whole.
- `DaysExactAlways`. The invariant (`DayInv`, with `DayOk`) adds to the property that the
  first entry is the day of the last pass, that the used entries come first and fall in
  time, and that no traffic is known of later days. The proof follows `parseifinfo`:
  traffic is added to the open day (`PassOk`), then the days are rotated (`ShiftOk`),
  unless the open one is empty and takes the new date.
- `MonthsExactAlways`. The invariant (`MonthInv`, with `MonthOk`) is the same for months,
  each of which has the sum over its days of `log`.
- `ConservedAlways`. The invariant (`TotalInv`) is that the total is what has left the
  array and the sum over the array; the work is in that a rotation moves one entry and
  changes no other.
- `TopBestAlways`. The invariant (`TopInv`, with `TopOk`) adds that the list is ordered as
  the code compares (`Beats`), that each day is in it once, with the traffic of its day, and
  that a day which is not in it beats none of a full list. It assumes that a MiB has more
  than one KiB.
- `HoursExactAlways`. The invariant (`HourInv`) adds that every dated hour lies within one
  day before the last pass (`Dated`), which is what `cleanhours` is for, and that the hour of
  the last pass is the latest (`LatestHour`). It assumes that a day has more than one hour
  and a month more than one day (`LongMonths`): `parseifinfo` tells hours by the hour and the
  day of the month alone. It also assumes that the clock is not at 0, which is the date
  of an hour that is not used.
- `WeeksExactAlways`, from `DayInv`: two days with the same number of their week and less
  than a year apart are of the same week (`WeekNumbers`), and what `showweeks` adds up is the
  sum of `log` over the days that the record still has (`DaysSumIs`). Seven days ago is a time
  of day, so that the last seven days may have one entry more, which is that day's.
- `EstimateSoundAlways`. The invariant (`TimelyInv`) is that every month in use was opened on
  `MonthRotate` or later and not after the last update, nor that after now. So the open
  month began before the last update, or one of the guards of `showsummary` holds
  (`MonthBegan`), and no more time has passed of it than it has (`MonthLasts`). The first
  month of a merge has the date of an entry of one of the two records, or it is empty
  (`MergedSound`).
- `MergeExactAlways`. The days that `emptydb` lays out are one day apart (`DaysBack`) and so are
  the months, by a month, if every month has the day that it is (`MonthsBack`); hence a period
  is that of one entry, to which `mergewith` adds whatever the two records have of it
  (`MergedTwice`), in KiB that are not carried (`WideSum`). It assumes that when the database is
  created as many months have begun since the epoch as `data.month` has entries: 12, from 1970.

The sums of months and totals are folds over finite sets. What such a fold comes to is
shown without an induction theorem (those take an operator as a parameter): `IsFold` says
what the function that the community modules' fold is defined with should satisfy, and by
`TakingExists` there is one. So the sum over a set is known to split into parts (`Sum`),
whatever the order in which its elements are taken.

`VnstatProofs`, for any calls, arguments, databases, devices and counter widths:
`OneMorePacketAlways` (`ChildInv`: a late packet is one of a child that was past its
last look at the parent), `TotalsRightAlways` (`ReadingInv`: the counter is the last
reading and the bytes since, wrapped at most once; `SampleInv`: nothing is counted
before a measurement) and `OthersUntouchedAlways` (`NameInv`: at every stage that
changes a database, the name in use is one that the call names, one of the names merged
with it, or the default, however earlier stages have cut or replaced it), and `AsAskedAlways`
(`AskedInv`: the operations use the name that was asked for until an update goes through
all databases, and a merge leaves its record in memory until another is read). They assume
of the constants that a 64 bit counter is at least twice as large as a 32 bit one
(`LiveAssumption`) and that the calls begin with databases (`CliAssumption`); in `Bytes`
fewer bytes pass between two readings than 32 bits hold, as a counter that wraps twice
cannot be told from one that wraps once.

`SamplesRightAlways` rests on `DiskInv`, which speaks of the time between reports: the slots
in use are those of the devices that the last readable round filed (`seen`), one each, and
the counter of a device that stayed is the last sample in its slot and what it read since
(`moved`), modulo the size of the counter. A round is a loop over the names; its invariant
`RoundOk` says that each device found so far has its slot with the present sample and, if it
had the slot before, the previous one, unless every slot is taken, and that no slot in use
changes hands. The loop is a fold over a sequence, of which `RoundSteps` gives the tables
after 0, 1, 2, ... names; `UpTo` carries the invariant along them. `TooMany` counts slots and
devices: a device without a slot means that there are more of them than slots, when nothing
is due. `SectorsRight` is the arithmetic of a counter that wrapped. Assumed are what
`DiskAssumption` says (names are not empty and unlike each other, a 32 bit counter is no wider
than an unsigned long and its size divides the other's), that a numeral stands for a natural
number (`ArgumentsAssumption`) and that arguments are strings (`CliAssumption`).

Model-checked only: no invariant of a passing run. Every liveness property stays with TLC, as
liveness under fairness is beyond the prover, and so do the three runs that are expected to
fail.

## 5. Not modelled

- `convertdb`, for databases of vnStat 1.0 to 1.2. `readdb` calls it only after it has
  read a whole record of today's size from the file (dbaccess.c:20-45); the files it is
  meant for are shorter (1672 and 1800 bytes against 2792 on a 64 bit Linux), so that
  the read fails before. There is no behaviour to state a property of.
- Image output (`image.c`, `vnstati.c`), XML and the layout of text: they format records
  that they do not change.
- The server monitor (`-z`, `-zk`, `-r`, `-c`): it reads `/proc`, prints and returns.
- How `/proc/net/dev`, `/sys/class/net`, `/proc/diskstats` and `/proc/stat` are parsed,
  and how a line of the configuration is taken to pieces.
- `daemonize`, the pid file and the options of `vnstatd`; the log.
- The packets that the live display's child takes to pieces, the page it shares with
  its parent, which is read while it is written; both only print.
- The processor report of `-d`, its rates, and its options that `vnstat` cannot pass on;
  the headers `rd_stats.h`, `ioconf.h` and others, taken from sysstat.

- `-tr` and `-l` in one call, which run one after the other (vnstat.c:749-756); `Cli` ends
  with the first.
- Seconds in `Calendar`, which counts whole minutes; a `/sys/block` that cannot be opened
  (disk_status.h:662), after which the devices count as gone for a round.

What could be added: a daemon and a command line on the same `DbFile`, whose changes
the daemon overwrites; a `getbtime` that fails.
