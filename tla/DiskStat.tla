------------------------------ MODULE DiskStat -------------------------------
(***************************************************************************)
(* vnstat -d (disk_status.h): a report on the block devices, repeated at   *)
(* an interval that SIGALRM keeps.  A table of fixed size has a slot per   *)
(* device, found again by name in every round, and two samples per slot,   *)
(* the current and the previous one, which change roles between rounds.    *)
(*                                                                         *)
(* Of the counters of a device the model has the sectors read and whether  *)
(* it did any I/O.  Options that vnstat cannot pass on (-p, -g, -x, JSON)  *)
(* are left out, as are rates: the interval they divide by is external.    *)
(***************************************************************************)
EXTENDS Arguments, Integers, Sequences, FiniteSets, SequencesExt, Functions

CONSTANTS
    Devices,        \* names of devices and partitions, in the kernel's order
    Whole,          \* those of them that are no partitions
    PREALLOC,       \* NR_DEV_PREALLOC: slots for devices that appear later
    Mask,           \* 0xffffffff: the largest value of a 32 bit counter
    Width,          \* number of values of an unsigned long long
    MaxChanges      \* bound: how often a device is plugged, unplugged or used

\* The name in a slot that never had a device, which is no device's.
NoDevice == ""

ASSUME DiskAssumption ==
    /\ Devices \in Seq(STRING \ {NoDevice}) /\ IsInjective(Devices)
    /\ Whole \subseteq Range(Devices)
    /\ PREALLOC \in Nat /\ Mask \in Nat \ {0} /\ MaxChanges \in Nat
    /\ Width \in Nat /\ Width % (Mask + 1) = 0 /\ Width > Mask

VARIABLES
    disk,           \* the kernel's devices: present or not, and their counters
    dpc,            \* where disk_status is
    opts,           \* what the arguments asked for
    source,         \* where the samples come from: I_F_HAS_DISKSTATS or _SYSFS
    slot,           \* st_hdr_iodev: name, used and status of each slot
    sample,         \* st_iodev: the two samples of each slot
    curr,           \* index of the current sample
    count,          \* reports that are left, or -1
    armed,          \* alarm() is set
    seen,           \* ghost: devices whose sample was saved in the last round
    moved,          \* ghost: sectors since that sample, per device
    due,            \* ghost: what the current report should show, per device
    readable,       \* ghost: the last round could be read
    replugged,      \* ghost: devices plugged since the last round
    changes         \* ghost: number of changes to the devices

dvars == <<disk, dpc, opts, source, slot, sample, curr, count, armed,
           seen, moved, due, readable, replugged, changes>>
ghosts == <<seen, moved, due, readable, replugged>>

Names == Range(Devices)
Present(d) == disk[d].here
Slots == DOMAIN slot
-----------------------------------------------------------------------------
(***************************************************************************)
(* The arguments.  A number is the interval, a second one the number of    *)
(* reports; everything else, options of vnstat included, names a device.   *)
(***************************************************************************)
NoOpts == [dlist |-> <<>>, unfiltered |-> FALSE, interval |-> 0, count |-> 1,
           it |-> 0, bad |-> FALSE]

\* update_dev_list: a device is listed once.
update_dev_list(dlist, name) == IF name \in Range(dlist) THEN dlist ELSE Append(dlist, name)

Argument(o, arg) ==
    IF o.bad THEN o
    ELSE IF ~IsNumber(arg)
        THEN [o EXCEPT !.unfiltered = TRUE,
                       !.dlist = IF arg = "ALL" THEN @ ELSE update_dev_list(@, arg)]
    ELSE IF o.it = 0
        THEN [o EXCEPT !.interval = Numerals[arg], !.count = -1, !.it = 1]
    ELSE IF o.it = 1 /\ Numerals[arg] >= 1 /\ o.interval # 0
        THEN [o EXCEPT !.count = Numerals[arg], !.it = -1]
    ELSE [o EXCEPT !.bad = TRUE]

DiskOptions(argv) ==
    LET o == FoldLeft(Argument, NoOpts, argv)
    IN IF o.interval = 0 THEN [o EXCEPT !.count = 1] ELSE o

-----------------------------------------------------------------------------
(***************************************************************************)
(* The kernel.                                                             *)
(***************************************************************************)
DiskUnchanged == <<dpc, opts, source, slot, sample, curr, count, armed,
                   seen, due, readable>>

Change == changes < MaxChanges /\ changes' = changes + 1

Io(d) ==
    /\ Change
    /\ Present(d)
    /\ moved[d] < Mask
    /\ disk' = [disk EXCEPT ![d].sec = (@ + 1) % (Mask + 1), ![d].ios = TRUE]
    /\ moved' = [moved EXCEPT ![d] = @ + 1]
    /\ UNCHANGED <<replugged, DiskUnchanged>>

Gone == [here |-> FALSE, sec |-> 0, ios |-> FALSE]

Unplug(d) ==
    /\ Change
    /\ Present(d)
    /\ disk' = [disk EXCEPT ![d] = Gone]
    /\ moved' = [moved EXCEPT ![d] = 0]
    /\ UNCHANGED <<replugged, DiskUnchanged>>

Plug(d) ==
    /\ Change
    /\ ~Present(d)
    /\ disk' = [disk EXCEPT ![d].here = TRUE]
    /\ replugged' = replugged \cup {d}
    /\ UNCHANGED <<moved, DiskUnchanged>>

-----------------------------------------------------------------------------
(***************************************************************************)
(* The table.                                                              *)
(***************************************************************************)
NoSample == [sec |-> 0, ios |-> FALSE]
EmptySlot == [name |-> NoDevice, used |-> FALSE, registered |-> FALSE]

set_entries_unregistered(table) ==
    [table EXCEPT !.slot =
        [i \in DOMAIN table.slot |-> [table.slot[i] EXCEPT !.registered = FALSE]]]

free_unregistered_entries(table) ==
    [table EXCEPT !.slot =
        [i \in DOMAIN table.slot |->
            [table.slot[i] EXCEPT !.used = table.slot[i].used /\ table.slot[i].registered]]]

First(S) == CHOOSE i \in S : \A j \in S : i <= j

\* The slot of a device: the one with its name, used or not, or else the
\* first that is not used.  There may be none.
SlotOf(table, d) ==
    LET named == {i \in DOMAIN table.slot : table.slot[i].name = d}
        free == {i \in DOMAIN table.slot : ~table.slot[i].used}
    IN IF named # {} THEN {First(named)} ELSE IF free # {} THEN {First(free)} ELSE {}

\* Put the sample s of device d into slot i.  A slot that was not in use has
\* no previous sample.
Put(table, i, d, s, fresh) ==
    [slot |-> [table.slot EXCEPT ![i] = [name |-> d, used |-> TRUE, registered |-> TRUE]],
     sample |-> [table.sample EXCEPT ![i] =
         [k \in {0, 1} |-> IF k = curr THEN s ELSE IF fresh THEN NoSample ELSE table.sample[i][k]]]]

\* Variant: a device that comes back to its slot keeps the previous sample.
save_statsReturning(table, d) ==
    LET s == [sec |-> disk[d].sec, ios |-> disk[d].ios] IN
    IF SlotOf(table, d) = {} THEN table
    ELSE LET i == First(SlotOf(table, d)) IN
         Put(table, i, d, s, table.slot[i].name # d)

save_stats(table, d) ==
    LET s == [sec |-> disk[d].sec, ios |-> disk[d].ios] IN
    IF SlotOf(table, d) = {} THEN table
    ELSE LET i == First(SlotOf(table, d)) IN Put(table, i, d, s, ~table.slot[i].used)

\* The names that a round goes through: those that /proc/diskstats or
\* /sys/block has, or the listed ones, whose files in /sys/block are tried.
LookedFor == IF source = "sysfs" /\ opts.dlist # <<>> THEN opts.dlist ELSE Devices

\* The devices that have counters there: /sys/block has none of partitions, and
\* without a list those in /proc/diskstats are passed over.
Found ==
    {d \in Range(LookedFor) \cap Names :
        Present(d) /\ (d \in Whole \/ (source = "diskstats" /\ opts.dlist # <<>>))}

\* A line or file of the name d.
TakeIn(table, d) == IF d \in Found THEN save_stats(table, d) ELSE table

\* A round over everything found: read_diskstats_stat, read_sysfs_stat and
\* read_sysfs_dlist_stat.
Round ==
    LET table == [slot |-> slot, sample |-> sample]
    IN free_unregistered_entries(FoldLeft(TakeIn, set_entries_unregistered(table), LookedFor))
-----------------------------------------------------------------------------
(***************************************************************************)
(* The report.                                                             *)
(***************************************************************************)
\* The difference of two samples, of unsigned long: 32 bits of it if the
\* counter has wrapped and was of that size.
Sectors(cur, prev) ==
    LET d == (cur - prev) % Width
    IN IF cur < prev /\ prev <= Mask THEN d % (Mask + 1) ELSE d

Listed(d) == opts.dlist = <<>> \/ source = "sysfs" \/ d \in Range(opts.dlist)

\* The slots that write_stats shows, and the sectors it shows for one.
Rows ==
    {i \in Slots : /\ slot[i].used
                   /\ Listed(slot[i].name)
                   /\ opts.unfiltered \/ sample[i][curr].ios}
Shown(i) == Sectors(sample[i][curr].sec, sample[i][1 - curr].sec)

-----------------------------------------------------------------------------
(***************************************************************************)
(* disk_status and rw_io_stat_loop.                                        *)
(***************************************************************************)
InUse == [here |-> TRUE, sec |-> 1, ios |-> TRUE]

DiskInit ==
    /\ disk = [d \in Names |-> Gone]
    /\ dpc = "off" /\ opts = NoOpts /\ source = "none"
    /\ slot = <<>> /\ sample = <<>> /\ curr = 1 /\ count = 0 /\ armed = FALSE
    /\ seen = {} /\ moved = [d \in Names |-> 0] /\ due = [d \in Names |-> -1]
    /\ readable = TRUE /\ replugged = {} /\ changes = 0

\* The arguments, io_sys_init with whatever devices there are, and alarm().
DiskStart(argv) ==
    /\ dpc = "off"
    /\ opts' = DiskOptions(argv)
    /\ UNCHANGED <<curr, changes, ghosts>>
    /\ \/ /\ opts'.bad
          /\ dpc' = "exit"
          /\ UNCHANGED <<disk, source, slot, sample, count, armed>>
       \/ /\ ~opts'.bad
          /\ source' \in {"diskstats", "sysfs"}
          /\ disk' \in [Names -> {Gone, InUse}]
          /\ LET n == Cardinality({d \in Names : disk'[d].here /\ (d \in Whole \/ source' = "diskstats")})
             IN /\ dpc' = IF n = 0 THEN "exit" ELSE "read"
                /\ slot' = [i \in 1..(n + PREALLOC) |-> EmptySlot]
                /\ sample' = [i \in 1..(n + PREALLOC) |-> [k \in {0, 1} |-> NoSample]]
                /\ armed' = (n > 0 /\ opts'.interval > 0)
          /\ count' = opts'.count

\* What the report of this round owes a device that is found: the sectors
\* since the last round if its sample was saved in that, or else those since
\* it appeared.  Nothing (-1) if the last round could not be read, if the
\* device came and went in between, if there were more devices, in this round
\* and the last, than slots, or if it did no I/O and is not asked for.
Due(d) ==
    IF \/ ~readable
       \/ d \notin Found
       \/ d \in seen \cap replugged
       \/ Cardinality(seen \cup Found) > Len(slot)
       \/ ~opts.unfiltered /\ ~disk[d].ios
    THEN -1 ELSE IF d \in seen THEN moved[d] ELSE disk[d].sec

\* A round that can be read.
Read ==
    /\ dpc = "read"
    /\ dpc' = "show"
    /\ \E table \in {Round} : slot' = table.slot /\ sample' = table.sample
    /\ due' = [d \in Names |-> Due(d)]
    /\ seen' = Found \cap {slot'[i].name : i \in Slots}
    /\ readable' = TRUE
    /\ moved' = [d \in Names |-> 0] /\ replugged' = {}
    /\ UNCHANGED <<disk, opts, source, curr, count, armed, changes>>

\* /proc/diskstats cannot be opened: the function returns before the slots of
\* missing devices are freed, with the samples of two rounds ago.
ReadFails ==
    /\ dpc = "read"
    /\ source = "diskstats"
    /\ dpc' = "show"
    /\ slot' = set_entries_unregistered([slot |-> slot]).slot
    /\ due' = [d \in Names |-> -1]
    /\ readable' = FALSE
    /\ moved' = [d \in Names |-> 0] /\ replugged' = {}
    /\ UNCHANGED <<disk, opts, source, sample, curr, count, armed, seen, changes>>

\* write_stats, and what follows it in the loop.
Show ==
    /\ dpc = "show"
    /\ count' = IF count > 0 THEN count - 1 ELSE count
    /\ IF count' # 0
         THEN dpc' = "pause" /\ curr' = 1 - curr /\ UNCHANGED armed
         ELSE dpc' = "exit" /\ armed' = FALSE /\ UNCHANGED curr
    /\ UNCHANGED <<disk, opts, source, slot, sample, changes, ghosts>>

\* Variant: the handler does not set the next alarm.
alarm_handlerOnce == armed' = FALSE

alarm_handler == armed' = (opts.interval > 0)

\* SIGALRM.  It ends pause(), and only that: while a report is written it
\* is gone when pause() is called.
Alarm ==
    /\ armed
    /\ alarm_handler
    /\ dpc' = IF dpc = "pause" THEN "read" ELSE dpc
    /\ UNCHANGED <<disk, opts, source, slot, sample, curr, count, changes, ghosts>>

DiskNext ==
    \/ Read \/ ReadFails \/ Show \/ Alarm
    \/ \E d \in Names : Io(d) \/ Plug(d) \/ Unplug(d)

\* A round and a report come to an end, and a timer that is set expires.
RoundEnds == dpc = "read" /\ dpc' = "show"
ReportEnds == dpc = "show" /\ dpc' \in {"pause", "exit"}

DiskFairness == WF_dpc(RoundEnds) /\ WF_dpc(ReportEnds) /\ WF_dvars(Alarm)
-----------------------------------------------------------------------------
\* What a report shows of a device is what it read since the last report, or
\* since it appeared if it was not in that: slots are reused for devices that
\* come and go, samples swap, and 32 bit counters wrap.  Every device of this
\* round that is asked for has a row, and only those have.
SamplesRight ==
    dpc = "show" =>
        /\ readable => {slot[i].name : i \in Rows} \subseteq seen
        /\ \A i, j \in Rows : slot[i].name = slot[j].name => i = j
        /\ \A d \in Names :
             due[d] >= 0 /\ Listed(d) =>
                \E i \in Rows : slot[i].name = d /\ Shown(i) = due[d]

\* A report without end goes on, and one with a count ends, whenever the
\* alarm comes: before pause(), it must be set again for pause() to end.
ReportsGoOn ==
    /\ (dpc = "read" /\ count > 0) ~> (dpc = "exit")
    /\ (dpc = "pause") ~> (dpc = "show")
=============================================================================
