------------------------------- MODULE DbFile --------------------------------
(***************************************************************************)
(* The database file of one interface, its backup and its lock, as the     *)
(* processes that use them see them: one action per system call on a       *)
(* shared file, in the order readdb(), writedb(), backupdb() and lockdb()  *)
(* of src/src/dbaccess.c make them, any number of vnstat, vnstati and      *)
(* vnstatd processes interleaved.                                          *)
(*                                                                         *)
(* A file is Chunks chunks, the 512 byte pieces backupdb() copies; a chunk *)
(* is named by the record it belongs to, and a record by the reading of    *)
(* the traffic counter it was last brought up to.  writedb() fills a stdio buffer larger than the record, so the   *)
(* file itself gets the whole record in one write(2), at fclose().         *)
(***************************************************************************)
EXTENDS Integers

CONSTANTS Procs,       \* the processes
          Commands,    \* what each of them may run, see Kinds
          Chunks,      \* chunks of a record
          LockTries,   \* LOCKTRYLIMIT
          MaxCounter,  \* bound of the traffic counter
          MaxFaults    \* bound of the faults

Kinds == {"query", "update", "rewrite", "toggle", "daemon"}

ASSUME SizeAssumption == Chunks \in Nat \ {0} /\ LockTries \in Nat \ {0}
ASSUME BoundAssumption == MaxCounter \in Nat /\ MaxFaults \in Nat
ASSUME CommandAssumption == Commands \in [Procs -> SUBSET Kinds]

VARIABLES
  flock,    \* cfg.flock
  made,     \* the database file exists
  main,     \* its content
  backup,   \* content of the backup; a missing backup reads as an empty one
  lock,     \* what each process holds on the database file
  pc,       \* where each process is
  cmd,      \* the command it runs
  mem,      \* its "data"
  pos,      \* its offset in the file it reads or copies
  ret,      \* what its readdb() returned; the newdb of its writedb()
  tries,    \* locktry
  counter,  \* the traffic that went through the interface
  faults,   \* crashes, failed writes, locks given up
  saved,    \* history: the record of the last save that reached the file
  floor,    \* history: saved when the process started to read
  passed    \* history: saves that ran, even partly, since then

files == <<made, main, backup, lock>>
procs == <<pc, cmd, mem, pos, ret, tries>>
world == <<flock, counter>>
history == <<faults, saved, floor, passed>>
vars == <<files, procs, world, history>>

-----------------------------------------------------------------------------
(* Chunks, records and files.                                              *)

Absent == -1  \* beyond the end of the file
Hole   == -2  \* zeros the file system fills in below a later chunk
Blank  == -3  \* the "data" a process starts with: all zeros
Other  == -4  \* the record of another interface
Unread == -5  \* none, the value of "saved" before the first save

Chunk == Nat \cup {Absent, Hole, Blank, Other}

Index == 1..Chunks
Image(v) == [i \in Index |-> v]
Empty == Image(Absent)

IsRecord(f) == f[1] \in Nat /\ f = Image(f[1])

\* Nothing of the file is left at offset k.
AtEOF(f, k) == \A i \in Index : i > k => f[i] = Absent

\* What read(2) returns of a chunk below the end of the file.
Seen(v) == IF v = Absent THEN Hole ELSE v

Results == {"none", "ok", "new", "failed"}
Places == {"idle", "lockRead", "read", "readBackup", "back", "copy", "trunc",
           "lockWrite", "flush"}

Saving == {p \in Procs : pc[p] \in {"copy", "trunc", "lockWrite", "flush"}}

Init ==
  /\ flock \in BOOLEAN
  /\ made = FALSE /\ main = Empty /\ backup = Empty
  /\ lock = [p \in Procs |-> "none"]
  /\ pc = [p \in Procs |-> "idle"]
  /\ cmd = [p \in Procs |-> "query"]
  /\ mem = [p \in Procs |-> Image(Blank)]
  /\ pos = [p \in Procs |-> 0]
  /\ ret = [p \in Procs |-> "none"]
  /\ tries = [p \in Procs |-> 1]
  /\ counter = 0 /\ faults = 0
  /\ saved = Unread
  /\ floor = [p \in Procs |-> Unread]
  /\ passed = [p \in Procs |-> 0]

-----------------------------------------------------------------------------
(* lockdb().                                                               *)

Conflicts(p, mode) ==
  flock /\ \E q \in Procs \ {p} :
             \/ lock[q] = "excl"
             \/ lock[q] = "shared" /\ mode = "excl"

\* flock() succeeds, at once or after a retry; without cfg.flock nothing is
\* locked.
Obtain(p, mode) ==
  /\ ~Conflicts(p, mode)
  /\ lock' = [lock EXCEPT ![p] = IF flock THEN mode ELSE "none"]
  /\ tries' = [tries EXCEPT ![p] = 1]

\* Variant: the tries are counted one too far.
RetryOnce(p, mode) ==
  /\ Conflicts(p, mode)
  /\ tries[p] <= LockTries
  /\ tries' = [tries EXCEPT ![p] = @ + 1]

\* EWOULDBLOCK: sleep a second and try again.
Retry(p, mode) ==
  /\ Conflicts(p, mode)
  /\ tries[p] < LockTries
  /\ tries' = [tries EXCEPT ![p] = @ + 1]

\* The last try failed.  Giving up is one of the faults MaxFaults bounds.
GiveUp(p, mode) ==
  /\ faults < MaxFaults /\ faults' = faults + 1
  /\ Conflicts(p, mode)
  /\ tries[p] = LockTries
  /\ tries' = [tries EXCEPT ![p] = 1]

Goto(p, place) == pc' = [pc EXCEPT ![p] = place]
Return(p, result) == ret' = [ret EXCEPT ![p] = result]
Release(p) == lock' = [lock EXCEPT ![p] = "none"]

-----------------------------------------------------------------------------
(* readdb().                                                               *)

\* A command starts and opens the database file; "data" is all zeros, or,
\* in an update of all interfaces, the record of the previous one.  Without
\* a file initdb() makes a new record.
Begin(p) ==
  /\ pc[p] = "idle"
  /\ \E c \in Commands[p], before \in {Blank, Other} :
       /\ before = Other => c = "update"
       /\ c = "daemon" => made
       /\ cmd' = [cmd EXCEPT ![p] = c]
       /\ mem' = [mem EXCEPT ![p] = Image(IF made THEN before ELSE 0)]
  /\ Goto(p, IF made THEN "lockRead" ELSE "back")
  /\ Return(p, IF made THEN "none" ELSE "new")
  /\ pos' = [pos EXCEPT ![p] = 0]
  /\ floor' = [floor EXCEPT ![p] = saved]
  /\ passed' = [passed EXCEPT ![p] = IF Saving = {} THEN 0 ELSE 1]
  /\ UNCHANGED <<files, world, tries, faults, saved>>

LockRead(p) ==
  /\ pc[p] = "lockRead"
  /\ \/ Obtain(p, "shared") /\ Goto(p, "read") /\ UNCHANGED <<ret, faults>>
     \/ Retry(p, "shared") /\ UNCHANGED <<lock, pc, ret, faults>>
     \/ /\ GiveUp(p, "shared")
        /\ Goto(p, "back") /\ Return(p, "failed")
        /\ UNCHANGED lock
  /\ UNCHANGED <<made, main, backup, cmd, mem, pos, world, saved, floor, passed>>

\* One read(2) of fread(): everything from the offset to the end of file f.
ReadSome(p, f) ==
  \E n \in (pos[p] + 1)..Chunks :
    /\ f[n] # Absent /\ AtEOF(f, n)
    /\ mem' = [mem EXCEPT ![p] =
                [i \in Index |-> IF i \in (pos[p] + 1)..n THEN Seen(f[i]) ELSE @[i]]]
    /\ pos' = [pos EXCEPT ![p] = n]

\* The record is complete; a first chunk of zeros has no known version.
ReadMain(p) ==
  /\ pc[p] = "read"
  /\ \/ ReadSome(p, main) /\ UNCHANGED <<lock, pc, ret>>
     \/ /\ pos[p] = Chunks /\ mem[p][1] # Hole
        /\ Release(p) /\ Goto(p, "back") /\ Return(p, "ok")
        /\ UNCHANGED <<mem, pos>>
     \/ /\ \/ pos[p] = Chunks /\ mem[p][1] = Hole
           \/ pos[p] < Chunks /\ AtEOF(main, pos[p])
        /\ Release(p) /\ Goto(p, "readBackup")
        /\ pos' = [pos EXCEPT ![p] = 0]
        /\ UNCHANGED <<mem, ret>>
  /\ UNCHANGED <<made, main, backup, cmd, tries, world, history>>

\* The same for the backup, which nobody ever locks for writing.  Without a
\* readable backup vnstat exits and vnstatd tries again at its next update.
ReadBackup(p) ==
  /\ pc[p] = "readBackup"
  /\ \/ ReadSome(p, backup) /\ UNCHANGED <<pc, ret>>
     \/ /\ pos[p] = Chunks /\ mem[p][1] # Hole
        /\ Goto(p, "back") /\ Return(p, "ok")
        /\ UNCHANGED <<mem, pos>>
     \/ /\ \/ pos[p] = Chunks /\ mem[p][1] = Hole
           \/ pos[p] < Chunks /\ AtEOF(backup, pos[p])
        /\ Goto(p, "idle") /\ Return(p, "failed")
        /\ UNCHANGED <<mem, pos>>
  /\ UNCHANGED <<files, cmd, tries, world, history>>

-----------------------------------------------------------------------------
(* The callers, and writedb() with backupdb().                             *)

\* The command ends without a save: a query, a disabled or absent interface,
\* a date in the future, nothing to change, or no file to back up.
Leave(p) == pc[p] = "back" /\ Goto(p, "idle")
            /\ UNCHANGED <<files, cmd, mem, pos, ret, tries, world, history>>

\* An update writes an active record whatever readdb() returned, and the
\* commands that reset, clear, rebuild or sync write "data" unconditionally;
\* enable, disable and the daemon look at the result.
Proceeds(p) ==
  \/ cmd[p] = "update" /\ mem[p][1] # Blank
  \/ cmd[p] = "rewrite"
  \/ cmd[p] = "toggle" /\ ret[p] = "ok"
  \/ cmd[p] = "daemon" /\ ret[p] # "failed"

\* Variant: every update makes a new database.
NewDbAlways(p) == cmd[p] = "update"

\* Only an update passes the result on, and writedb() backs up when newdb is 0.
NewDb(p) == cmd[p] = "update" /\ ret[p] # "ok"

\* parseifinfo() brings the record up to the counter; what is not a record of
\* this interface stays what it is.
Updated(p) ==
  IF cmd[p] \in {"update", "daemon"} /\ IsRecord(mem[p]) THEN Image(counter) ELSE mem[p]

Reading == {"lockRead", "read", "readBackup"}

\* Variant: the file is opened for writing before it is copied.
SaveOpensFirst(p) ==
  /\ pc[p] = "back" /\ Proceeds(p)
  /\ made \/ NewDb(p)
  /\ mem' = [mem EXCEPT ![p] = Updated(p)]
  /\ main' = Empty
  /\ IF NewDb(p) THEN Goto(p, "trunc") /\ UNCHANGED backup
                 ELSE Goto(p, "copy") /\ backup' = Empty
  /\ pos' = [pos EXCEPT ![p] = 0]
  /\ UNCHANGED <<made, lock, cmd, ret, tries, world, faults, saved, floor, passed>>

\* The save starts: backupdb() opens the file and truncates the backup.
Save(p) ==
  /\ pc[p] = "back" /\ Proceeds(p)
  /\ made \/ NewDb(p)
  /\ mem' = [mem EXCEPT ![p] = Updated(p)]
  /\ IF NewDb(p) THEN Goto(p, "trunc") /\ UNCHANGED backup
                 ELSE Goto(p, "copy") /\ backup' = Empty
  /\ pos' = [pos EXCEPT ![p] = 0]
  /\ passed' = [q \in Procs |-> IF pc[q] \in Reading /\ passed[q] < 2
                                THEN passed[q] + 1 ELSE passed[q]]
  /\ UNCHANGED <<made, main, lock, cmd, ret, tries, world, faults, saved, floor>>

\* Variant: only the first buffer is copied.
CopyOnce(p) ==
  /\ pc[p] = "copy"
  /\ backup' = [backup EXCEPT ![1] = main[1]]
  /\ Goto(p, "trunc")
  /\ UNCHANGED <<made, main, lock, cmd, mem, pos, ret, tries, world, history>>

\* One turn of the copy loop, or its end.
Copy(p) ==
  /\ pc[p] = "copy"
  /\ \/ /\ ~AtEOF(main, pos[p])
        /\ backup' = [backup EXCEPT ![pos[p] + 1] = Seen(main[pos[p] + 1])]
        /\ pos' = [pos EXCEPT ![p] = @ + 1]
        /\ UNCHANGED pc
     \/ /\ AtEOF(main, pos[p])
        /\ Goto(p, "trunc")
        /\ UNCHANGED <<backup, pos>>
  /\ UNCHANGED <<made, main, lock, cmd, mem, ret, tries, world, history>>

\* fopen(file, "w") creates or empties the file, before any lock is asked for.
Truncate(p) ==
  /\ pc[p] = "trunc"
  /\ made' = TRUE /\ main' = Empty
  /\ Goto(p, "lockWrite")
  /\ UNCHANGED <<backup, lock, cmd, mem, pos, ret, tries, world, history>>

\* After writedb() vnstat ends and the daemon goes on with its cached record.
AfterSave(p) ==
  /\ Goto(p, IF cmd[p] = "daemon" THEN "back" ELSE "idle")
  /\ Return(p, "ok")

\* A lock that cannot be had ends writedb(): the file stays empty.
LockWrite(p) ==
  /\ pc[p] = "lockWrite"
  /\ \/ Obtain(p, "excl") /\ Goto(p, "flush") /\ UNCHANGED <<ret, faults>>
     \/ Retry(p, "excl") /\ UNCHANGED <<lock, pc, ret, faults>>
     \/ /\ GiveUp(p, "excl")
        /\ AfterSave(p)
        /\ UNCHANGED lock
  /\ UNCHANGED <<made, main, backup, cmd, mem, pos, world, saved, floor, passed>>

\* fclose() writes the buffered record and drops the lock.
Flush(p) ==
  /\ pc[p] = "flush"
  /\ main' = mem[p]
  /\ saved' = mem[p][1]
  /\ Release(p) /\ AfterSave(p)
  /\ UNCHANGED <<made, backup, cmd, mem, pos, tries, world, faults, floor, passed>>

-----------------------------------------------------------------------------
(* What can go wrong, and the passing of time.                             *)

Crash(p) ==
  /\ pc[p] # "idle"
  /\ Goto(p, "idle") /\ Release(p)
  /\ tries' = [tries EXCEPT ![p] = 1]
  /\ faults' = faults + 1
  /\ UNCHANGED <<made, main, backup, cmd, mem, pos, ret, world, saved, floor, passed>>

\* write(2) of backupdb() fails: the save ends before it touches the file.
CopyFails(p) ==
  /\ pc[p] = "copy"
  /\ AfterSave(p)
  /\ faults' = faults + 1
  /\ UNCHANGED <<files, cmd, mem, pos, tries, world, saved, floor, passed>>

\* The disk fills up during the write of fclose(), whose result is ignored.
FlushFails(p) ==
  /\ pc[p] = "flush"
  /\ \E n \in 0..(Chunks - 1) :
       main' = [i \in Index |-> IF i <= n THEN mem[p][i] ELSE main[i]]
  /\ Release(p) /\ AfterSave(p)
  /\ faults' = faults + 1
  /\ UNCHANGED <<made, backup, cmd, mem, pos, tries, world, saved, floor, passed>>

Traffic ==
  /\ counter < MaxCounter
  /\ counter' = counter + 1
  /\ UNCHANGED <<files, procs, flock, history>>

Step(p) ==
  \/ Begin(p) \/ LockRead(p) \/ ReadMain(p) \/ ReadBackup(p)
  \/ Leave(p) \/ Save(p) \/ Copy(p) \/ Truncate(p) \/ LockWrite(p) \/ Flush(p)

Fault(p) == faults < MaxFaults /\ (Crash(p) \/ CopyFails(p) \/ FlushFails(p))

Next == Traffic \/ \E p \in Procs : Step(p) \/ Fault(p)

Spec == Init /\ [][Next]_vars

-----------------------------------------------------------------------------
(* Properties.                                                             *)

\* Every variable has its type.
TypeOK ==
  /\ flock \in BOOLEAN /\ made \in BOOLEAN
  /\ main \in [Index -> Chunk] /\ backup \in [Index -> Chunk]
  /\ lock \in [Procs -> {"none", "shared", "excl"}]
  /\ pc \in [Procs -> Places] /\ cmd \in [Procs -> Kinds]
  /\ mem \in [Procs -> [Index -> Chunk]]
  /\ pos \in [Procs -> 0..Chunks]
  /\ ret \in [Procs -> Results] /\ tries \in [Procs -> 1..LockTries]
  /\ counter \in Nat /\ faults \in Nat
  /\ saved \in Chunk \cup {Unread} /\ floor \in [Procs -> Chunk \cup {Unread}]
  /\ passed \in [Procs -> 0..2]

\* What a readdb() that nobody disturbs would return now.
Stored == IF IsRecord(main) THEN main[1]
          ELSE IF IsRecord(backup) THEN backup[1] ELSE Absent

Register == INSTANCE Store WITH stored <- Stored, faulty <- (faults > 0)

\* With a single writer, the two files together are the cell of Store: at
\* every step of every save exactly one whole record can be read, it is
\* replaced in one step by one that is not older, and it is lost only after a
\* fault.
IsStore == Register!Spec

\* One fault, whatever and whenever it is, costs nothing that was saved: unless
\* a later save is in progress, the last saved record can be read.
OneFault ==
  faults <= 1 /\ saved # Unread /\ Saving = {} => Stored = saved

\* A read that meets at most one save succeeds, with a whole record not older
\* than the last one saved before the read began.
ReadGood ==
  \A p \in Procs :
    faults = 0 /\ floor[p] # Unread /\ passed[p] <= 1 =>
      /\ ret[p] # "failed"
      /\ pc[p] = "back" /\ ret[p] = "ok" =>
           IsRecord(mem[p]) /\ mem[p][1] >= floor[p]

\* CHANGES:85-86 lists as fixed that an update of a database from two processes
\* at the same time could lose data: an update never writes the record of
\* another interface into the file.
OwnRecord == main[1] # Other

=============================================================================
