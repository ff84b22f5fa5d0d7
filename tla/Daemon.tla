------------------------------- MODULE Daemon -------------------------------
(***************************************************************************)
(* The main loop of vnstatd (vnstatd.c) with its cache of records          *)
(* (dbcache.c), its timers, and its signals.                               *)
(*                                                                         *)
(* The daemon is one thread, so its steps are cut only where somebody else *)
(* can get in between: a signal handler, an interface that comes or goes,  *)
(* a command line that creates or deletes a database, a disk that fills    *)
(* up, a clock that is set back.  A save is cut where its window is: after *)
(* checkdb, and between the backup and the fopen that makes the file anew. *)
(*                                                                         *)
(* Time is counted in poll intervals and passes while the daemon sleeps.   *)
(* Every point in time that the code stores is modelled by its age, how    *)
(* long ago it was, so that behaviours need no last instant.               *)
(*                                                                         *)
(* Abstracted here: what the records count (see Accounting), the bytes of  *)
(* the files and their backups (a write that fails leaves the record that  *)
(* readdb would find), the order of the list, the log, the reloading of    *)
(* the configuration by SIGHUP.                                            *)
(***************************************************************************)
EXTENDS Integers, FiniteSets

CONSTANTS
    Iface,                  \* interfaces
    UpdateInterval,         \* cfg.updateinterval
    SaveInterval,           \* cfg.saveinterval
    OfflineSaveInterval,    \* cfg.offsaveinterval
    RescanInterval,         \* the 120 s set after finding no database
    SaveOnStatusChange,     \* cfg.savestatus
    Day,                    \* how far ahead lastupdated is tolerated
    MaxBack,                \* bound: how far the clock is set back in all
    MaxSignals,             \* bound: signals sent
    None                    \* intsignal = 0, dbhash = 0, no file

ASSUME DaemonAssumption ==
    /\ IsFiniteSet(Iface)
    /\ UpdateInterval \in Nat \ {0}
    /\ SaveInterval \in Nat \ {0} /\ OfflineSaveInterval >= SaveInterval
    /\ OfflineSaveInterval \in Nat
    /\ RescanInterval \in Nat /\ RescanInterval >= UpdateInterval
    /\ SaveOnStatusChange \in BOOLEAN
    /\ Day \in Nat /\ MaxBack \in Nat /\ MaxSignals \in Nat
    /\ None \notin Iface /\ \A S \in SUBSET Iface : S # None

VARIABLES
    pc,             \* where the loop is
    intsignal,      \* the last signal caught: "HUP", "TERM", "Scanned", None
    list,           \* interfaces in the list dataptr
    node,           \* the list's nodes
    dbcount,        \* what main believes the length of the list to be
    dbhash,         \* hash of the interfaces last seen by dbcheck
    forcesave, dodbsave,
    running,        \* main's flag: no TERM has been acted on
    updateinterval, \* the current one: UpdateInterval, 0 or RescanInterval
    sinceUpdate,    \* age of prevdbupdate
    sinceSave,      \* age of prevdbsave
    todo,           \* nodes the current pass or flush still has to visit
    cur,            \* the node being saved, or None
    file,           \* the record in each database file, or None
    present,        \* interfaces in the kernel's list
    lookup,         \* the kernel's interface data can be read
    disk,           \* databases can be read and written
    back, signals,  \* what is left of the bounds
    gone,           \* history: databases deleted for good, see NoResurrection
    unsaved         \* history: how long the cached record has not been saved

loop == <<dbhash, forcesave, dodbsave, running, updateinterval, sinceUpdate, sinceSave>>
cache == <<list, node, dbcount>>
world == <<present, lookup, disk, back, gone>>
vars == <<pc, intsignal, cache, loop, todo, cur, file, world, signals, unsaved>>

Signals == {"HUP", "TERM"}     \* SIGINT is handled like SIGTERM

\* How old a saved record may get: see Fresh.
MaxUnsavedOnline == SaveInterval + UpdateInterval - 1
MaxUnsaved == OfflineSaveInterval + UpdateInterval - 1

\* Ages beyond which nothing more happens are not told apart.
Old(age, cap) == IF age > cap + MaxBack THEN cap + MaxBack ELSE age
OldUpdate(age) == Old(age, RescanInterval)
OldSave(age) == Old(age, OfflineSaveInterval)
OldRecord(age) == IF age < -MaxBack THEN -MaxBack ELSE Old(age, 0)
OldUnsaved(age) == IF age > MaxUnsaved THEN MaxUnsaved + 1 ELSE age

RecordAge == (-MaxBack)..MaxBack

\* The part of DATA that the loop looks at.  real: it is the interface's data;
\* valid: it passes the checks of cacheget; last: the age of lastupdated.
Data == [real : BOOLEAN, valid : BOOLEAN, active : BOOLEAN, last : RecordAge]
Node == [filled : BOOLEAN, data : Data]

\* initdb, and any other record with an up to date stamp.
NewData == [real |-> TRUE, valid |-> TRUE, active |-> TRUE, last |-> 0]

\* malloc's memory: only the name and the active flag have been set.  Which
\* garbage it is is chosen when it first matters.
Uninitialised(v, l) == [real |-> FALSE, valid |-> v, active |-> TRUE, last |-> l]
Garbage == {Uninitialised(v, l) : v \in BOOLEAN, l \in RecordAge}
Unfilled == [filled |-> FALSE, data |-> Uninitialised(FALSE, 0)]

Filled == {i \in list : node[i].filled}

Init ==
    /\ pc = "down"
    /\ intsignal = None
    /\ list = {} /\ node = [i \in Iface |-> Unfilled] /\ dbcount = 0
    /\ dbhash = None /\ forcesave = FALSE /\ dodbsave = FALSE /\ running = TRUE
    /\ updateinterval = UpdateInterval
    /\ sinceUpdate = OldUpdate(RescanInterval + MaxBack)
    /\ sinceSave = OldSave(OfflineSaveInterval + MaxBack)
    /\ todo = {} /\ cur = None
    /\ file \in [Iface -> {None, NewData}]
    /\ present \in SUBSET Iface
    /\ lookup = TRUE /\ disk = TRUE /\ gone = {}
    /\ back = MaxBack /\ signals = MaxSignals
    /\ unsaved = [i \in Iface |-> 0]

-----------------------------------------------------------------------------
(***************************************************************************)
(* The environment.                                                        *)
(***************************************************************************)

Up == pc # "down"

\* The handler runs between any two instructions of the daemon.
sighandler(s) ==
    /\ Up /\ signals > 0
    /\ intsignal' = s
    /\ signals' = signals - 1
    /\ UNCHANGED <<pc, cache, loop, todo, cur, file, world, unsaved>>

Appear(i) ==
    /\ i \notin present
    /\ present' = present \cup {i}
    /\ UNCHANGED <<pc, intsignal, cache, loop, todo, cur, file, lookup, disk, back, gone,
                   signals, unsaved>>

Vanish(i) ==
    /\ i \in present
    /\ present' = present \ {i}
    /\ UNCHANGED <<pc, intsignal, cache, loop, todo, cur, file, lookup, disk, back, gone,
                   signals, unsaved>>

LookupChange ==
    /\ lookup' = ~lookup
    /\ UNCHANGED <<pc, intsignal, cache, loop, todo, cur, file, present, disk, back, gone,
                   signals, unsaved>>

DiskChange ==
    /\ disk' = ~disk
    /\ UNCHANGED <<pc, intsignal, cache, loop, todo, cur, file, present, lookup, back, gone,
                   signals, unsaved>>

\* writedb has opened the old file for its backup, but not yet the new one.
Rewriting(i) == pc \in {"create", "flushcreate"} /\ cur = i

Delete(i) ==
    /\ file[i] # None
    /\ file' = [file EXCEPT ![i] = None]
    /\ gone' = IF Rewriting(i) THEN gone ELSE gone \cup {i}
    /\ UNCHANGED <<pc, intsignal, cache, loop, todo, cur, present, lookup, disk, back,
                   signals, unsaved>>

Create(i) ==
    /\ file[i] = None
    /\ file' = [file EXCEPT ![i] = NewData]
    /\ unsaved' = [unsaved EXCEPT ![i] = 0]
    /\ gone' = gone \ {i}
    /\ UNCHANGED <<pc, intsignal, cache, loop, todo, cur, present, lookup, disk, back, signals>>

Aged(d, t) == [d EXCEPT !.last = OldRecord(@ + t)]

\* t poll intervals pass, or, if t is negative, the clock is set back.
Passes(t) ==
    /\ sinceUpdate' = OldUpdate(sinceUpdate + t)
    /\ sinceSave' = OldSave(sinceSave + t)
    /\ node' = [i \in Iface |-> IF node[i].filled
                                THEN [filled |-> TRUE, data |-> Aged(node[i].data, t)]
                                ELSE node[i]]
    /\ file' = [i \in Iface |-> IF file[i] = None THEN None
                                ELSE Aged(file[i], t)]

ClockBack(s) ==
    /\ s <= back
    /\ pc \in {"down", "sleep"}
    /\ Passes(-s)
    /\ back' = back - s
    /\ UNCHANGED <<pc, intsignal, list, dbcount, dbhash, forcesave, dodbsave, running,
                   updateinterval, todo, cur, present, lookup, disk, gone, signals, unsaved>>

-----------------------------------------------------------------------------
(***************************************************************************)
(* Starting, and the part of the loop that every iteration goes through.   *)
(***************************************************************************)

\* Without a database, one is made for every interface that can be.
addinterfaces ==
    /\ \A i \in Iface : file[i] = None
    /\ \E added \in SUBSET present \ {{}} :
          /\ lookup /\ disk
          /\ file' = [i \in Iface |-> IF i \in added THEN NewData ELSE None]

Start ==
    /\ ~Up
    /\ addinterfaces \/ ((\E i \in Iface : file[i] # None) /\ UNCHANGED file)
    /\ gone' = {i \in gone : file'[i] = None}
    /\ pc' = "top"
    /\ intsignal' = None
    /\ list' = {} /\ node' = [i \in Iface |-> Unfilled] /\ dbcount' = 0
    /\ dbhash' = None /\ forcesave' = FALSE /\ dodbsave' = FALSE /\ running' = TRUE
    /\ updateinterval' = UpdateInterval
    /\ sinceUpdate' = OldUpdate(RescanInterval + MaxBack)
    /\ sinceSave' = OldSave(OfflineSaveInterval + MaxBack)
    /\ todo' = {} /\ cur' = None
    /\ UNCHANGED <<present, lookup, disk, back, signals, unsaved>>

\* What the death of the process leaves.
Dead ==
    /\ pc' = "down"
    /\ intsignal' = None
    /\ list' = {} /\ node' = [i \in Iface |-> Unfilled] /\ dbcount' = 0
    /\ todo' = {} /\ cur' = None
    /\ unsaved' = [i \in Iface |-> 0]
    /\ UNCHANGED <<loop, world, signals>>

Kill == Up /\ Dead /\ UNCHANGED file

\* getifinfo and getiflist find the interface.
Visible(i) == lookup /\ i \in present

\* The filled records whose active flag does not match the kernel's list.
Changed == {i \in Filled : node[i].data.active # Visible(i)}

\* Variant: a check forgets what an earlier one asked for.
dbcheckForgets ==
    /\ lookup /\ dbhash # present
    /\ dbhash' = present
    /\ node' = [i \in Iface |-> IF i \in Changed
                                THEN [node[i] EXCEPT !.data.active = Visible(i)]
                                ELSE node[i]]
    /\ forcesave' = (SaveOnStatusChange /\ Changed # {})

\* The list of interfaces could be read, and its hash has changed.
dbcheckChanged ==
    /\ lookup /\ dbhash # present
    /\ dbhash' = present
    /\ node' = [i \in Iface |-> IF i \in Changed
                                THEN [node[i] EXCEPT !.data.active = Visible(i)]
                                ELSE node[i]]
    /\ forcesave' = (forcesave \/ (SaveOnStatusChange /\ Changed # {}))

\* The list could not be read: whatever it is next time counts as a change.
dbcheckFails ==
    /\ ~lookup
    /\ dbhash' = None
    /\ UNCHANGED <<node, forcesave>>

dbcheck ==
    \/ dbcheckChanged
    \/ lookup /\ dbhash = present /\ UNCHANGED <<dbhash, node, forcesave>>
    \/ dbcheckFails

Top ==
    /\ pc = "top"
    /\ pc' = "due"
    /\ IF dbcount # 0 THEN dbcheck ELSE UNCHANGED <<dbhash, node, forcesave>>
    /\ UNCHANGED <<intsignal, list, dbcount, dodbsave, running, updateinterval, sinceUpdate,
                   sinceSave, todo, cur, file, world, signals, unsaved>>

Due == sinceUpdate >= updateinterval

NotDue ==
    /\ pc = "due" /\ ~Due
    /\ pc' = "sleep"
    /\ UNCHANGED <<intsignal, cache, loop, todo, cur, file, world, signals, unsaved>>

\* The cache is empty: list the files of the database directory.  Nodes are
\* added with cacheadd.  A signal that is pending now is forgotten.
Scan ==
    /\ pc = "due" /\ Due /\ dbcount = 0
    /\ pc' = "sleep"
    /\ list' = {i \in Iface : file[i] # None}
    /\ dbcount' = Cardinality(list')
    /\ node' = [i \in Iface |-> Unfilled]
    /\ IF list' # {}
          THEN /\ updateinterval' = 0
               /\ intsignal' = "Scanned"
               /\ sinceSave' = 0
          ELSE /\ updateinterval' = RescanInterval
               /\ UNCHANGED <<intsignal, sinceSave>>
    /\ UNCHANGED <<dbhash, forcesave, dodbsave, running, sinceUpdate, todo, cur, file, world,
                   signals, unsaved>>

\* The directory cannot be read, or memory runs out: the daemon exits.
ScanFails ==
    /\ pc = "due" /\ Due /\ dbcount = 0 /\ ~disk
    /\ Dead /\ UNCHANGED file

\* cacheactivecount: a node that could not be filled counts as active.
ActiveNodes == {i \in list : node[i].data.active}

\* Variant: the save time has to be met exactly.
SaveDueExactly ==
    \/ forcesave
    \/ sinceSave = (IF ActiveNodes # {} THEN SaveInterval ELSE OfflineSaveInterval)

SaveDue ==
    \/ forcesave
    \/ sinceSave >= (IF ActiveNodes # {} THEN SaveInterval ELSE OfflineSaveInterval)

\* Variant: every pass restarts the save timer.
BeginRestarts ==
    /\ pc = "due" /\ Due /\ dbcount # 0
    /\ pc' = "walk"
    /\ todo' = list /\ cur' = None
    /\ updateinterval' = UpdateInterval
    /\ sinceUpdate' = 0
    /\ dodbsave' = SaveDue
    /\ sinceSave' = 0
    /\ IF SaveDue THEN forcesave' = FALSE ELSE UNCHANGED forcesave
    /\ UNCHANGED <<intsignal, cache, dbhash, running, file, world, signals, unsaved>>

\* A pass over the list begins.
Begin ==
    /\ pc = "due" /\ Due /\ dbcount # 0
    /\ pc' = "walk"
    /\ todo' = list /\ cur' = None
    /\ updateinterval' = UpdateInterval
    /\ sinceUpdate' = 0
    /\ dodbsave' = SaveDue
    /\ IF SaveDue THEN forcesave' = FALSE /\ sinceSave' = 0
                  ELSE UNCHANGED <<forcesave, sinceSave>>
    /\ UNCHANGED <<intsignal, cache, dbhash, running, file, world, signals, unsaved>>

-----------------------------------------------------------------------------
(***************************************************************************)
(* One node of the list in a pass.  The daemon is in "walk" between nodes, *)
(* in "save" before checkdb, in "write" before writedb, and in "create"    *)
(* when writedb has its backup and goes on to make the file anew.          *)
(***************************************************************************)

Cached(i) == node[i].filled /\ node[i].data.valid       \* cacheget

\* The record to work on: cached, or read, or made by readdb for want of a file.
Record(i) ==
    IF Cached(i) THEN node[i].data ELSE IF file[i] = None THEN NewData ELSE file[i]

\* The record after the update: without its interface it is disabled.
Updated(i) ==
    [real |-> Record(i).real, valid |-> Record(i).valid,
     active |-> Record(i).active /\ Visible(i), last |-> 0]

Visited(i) == todo' = todo \ {i}

\* Variant: reading a record leaves the hash alone.
NoteNothing(i) == dbhash' = dbhash

\* A record that was read, not cached, makes the next dbcheck look again.
NoteRead(i) == dbhash' = IF Cached(i) THEN dbhash ELSE None

\* readdb fails, for want of a lock for example.
ReadFails(i) ==
    /\ pc = "walk" /\ i \in todo
    /\ ~Cached(i) /\ file[i] # None /\ ~disk
    /\ Visited(i)
    /\ node' = [node EXCEPT ![i] = [filled |-> FALSE, data |-> node[i].data]]
    /\ UNCHANGED <<pc, intsignal, list, dbcount, loop, cur, file, world, signals, unsaved>>

\* The interface's counters are read and accounted for, or it is disabled,
\* and the record goes back to the cache.
Update(i) ==
    /\ pc = "walk" /\ i \in todo
    /\ Record(i).last >= 0
    /\ node' = [node EXCEPT ![i] = [filled |-> TRUE, data |-> Updated(i)]]
    /\ NoteRead(i)
    /\ unsaved' = [unsaved EXCEPT ![i] = IF Cached(i) THEN @ ELSE 0]
    /\ Visited(i)
    /\ IF dodbsave THEN pc' = "save" /\ cur' = i ELSE UNCHANGED <<pc, cur>>
    /\ UNCHANGED <<intsignal, list, dbcount, forcesave, dodbsave, running, updateinterval,
                   sinceUpdate, sinceSave, file, world, signals>>

\* The record is from the future: not updated, but marked as filled.
Skip(i) ==
    /\ pc = "walk" /\ i \in todo
    /\ Record(i).last < 0 /\ Record(i).last >= -Day
    /\ IF node[i].filled
          THEN UNCHANGED node
          ELSE \E g \in Garbage : node' = [node EXCEPT ![i] = [filled |-> TRUE, data |-> g]]
    /\ NoteRead(i)
    /\ Visited(i)
    /\ UNCHANGED <<pc, intsignal, list, dbcount, forcesave, dodbsave, running, updateinterval,
                   sinceUpdate, sinceSave, cur, file, world, signals, unsaved>>

\* The record is from too far in the future: the daemon gives up, and saves nothing.
GiveUp(i) ==
    /\ pc = "walk" /\ i \in todo
    /\ Record(i).last < -Day
    /\ Dead /\ UNCHANGED file

\* Variant: the pass keeps its pointer to the node that was freed.
RemoveDangling ==
    /\ pc = "save" /\ file[cur] = None
    /\ list' = list \ {cur}
    /\ node' = [node EXCEPT ![cur] = Unfilled]
    /\ dbcount' = dbcount - 1
    /\ unsaved' = [unsaved EXCEPT ![cur] = 0]
    /\ pc' = "walk"
    /\ UNCHANGED <<intsignal, loop, todo, cur, file, world, signals>>

\* Variant: the node is removed, but still counted.
RemoveUncounted ==
    /\ pc = "save" /\ file[cur] = None
    /\ list' = list \ {cur}
    /\ node' = [node EXCEPT ![cur] = Unfilled]
    /\ unsaved' = [unsaved EXCEPT ![cur] = 0]
    /\ pc' = "walk" /\ cur' = None
    /\ UNCHANGED <<intsignal, dbcount, loop, todo, file, world, signals>>

\* checkdb finds the file gone: the node is removed from the list.
Remove ==
    /\ pc = "save" /\ file[cur] = None
    /\ list' = list \ {cur}
    /\ node' = [node EXCEPT ![cur] = Unfilled]
    /\ dbcount' = dbcount - 1
    /\ unsaved' = [unsaved EXCEPT ![cur] = 0]
    /\ pc' = "walk" /\ cur' = None
    /\ UNCHANGED <<intsignal, loop, todo, file, world, signals>>

Check ==
    /\ pc = "save" /\ file[cur] # None
    /\ pc' = "write"
    /\ UNCHANGED <<intsignal, cache, loop, todo, cur, file, world, signals, unsaved>>

\* Variant: a missing old file is no reason to fail.
backupdbAnyway(i) == disk

\* The backup of the old file succeeds; without an old file it does not.
backupdb(i) == disk /\ file[i] # None

\* writedb makes the backup, or gives up.
Backup ==
    /\ pc = "write"
    /\ IF backupdb(cur) THEN pc' = "create" /\ UNCHANGED cur
                        ELSE pc' = "walk" /\ cur' = None
    /\ UNCHANGED <<intsignal, cache, loop, todo, file, world, signals, unsaved>>

\* writedb sets the version and the time of the update.
Saved(d) == [real |-> d.real, valid |-> TRUE, active |-> d.active, last |-> 0]

\* The rest of writedb for cur: fopen(file, "w") makes the file, whether or
\* not the one that was backed up is still there.
writedb ==
    IF disk
       THEN /\ file' = [file EXCEPT ![cur] = Saved(node[cur].data)]
            /\ unsaved' = [unsaved EXCEPT ![cur] = 0]
       ELSE UNCHANGED <<file, unsaved>>

Write ==
    /\ pc = "create"
    /\ writedb
    /\ pc' = "walk" /\ cur' = None
    /\ UNCHANGED <<intsignal, cache, loop, todo, world, signals>>

PassDone ==
    /\ pc = "walk" /\ todo = {}
    /\ pc' = "sleep"
    /\ UNCHANGED <<intsignal, cache, loop, todo, cur, file, world, signals, unsaved>>

-----------------------------------------------------------------------------
(***************************************************************************)
(* The end of an iteration: sleep, then signals.                           *)
(***************************************************************************)

\* A signal that is pending already prevents the sleep, one that arrives just
\* before it does not, and one that arrives during it ends it.
Sleep ==
    /\ pc = "sleep"
    /\ pc' = IF intsignal = None THEN "top" ELSE "signal"
    /\ \E t \in {0, 1} :
          /\ intsignal = None => t = 1
          /\ Passes(t)
          /\ unsaved' = [i \in Iface |-> IF i \in Filled
                                         THEN OldUnsaved(unsaved[i] + t) ELSE 0]
    /\ UNCHANGED <<intsignal, list, dbcount, dbhash, forcesave, dodbsave, running,
                   updateinterval, todo, cur, world, signals>>

\* The switch acts on the signal that came last.  A HUP flushes the cache ...
Hup ==
    /\ pc = "signal" /\ intsignal = "HUP"
    /\ pc' = "flush" /\ todo' = list
    /\ UNCHANGED <<intsignal, cache, loop, cur, file, world, signals, unsaved>>

\* Variant: the switch falls through to the end of the loop.
TerminateNot ==
    /\ pc = "signal" /\ intsignal = "TERM"
    /\ pc' = "clear"
    /\ UNCHANGED <<intsignal, cache, loop, todo, cur, file, world, signals, unsaved>>

\* ... a TERM ends the loop ...
Terminate ==
    /\ pc = "signal" /\ intsignal = "TERM"
    /\ pc' = "clear"
    /\ running' = FALSE
    /\ UNCHANGED <<intsignal, cache, dbhash, forcesave, dodbsave, updateinterval, sinceUpdate,
                   sinceSave, todo, cur, file, world, signals, unsaved>>

Ignore ==
    /\ pc = "signal" /\ intsignal = "Scanned"
    /\ pc' = "clear"
    /\ UNCHANGED <<intsignal, cache, loop, todo, cur, file, world, signals, unsaved>>

\* After the last iteration the cache is flushed as well.
Repeat ==
    IF running THEN pc' = "top" /\ UNCHANGED todo
               ELSE pc' = "flush" /\ todo' = list

\* Variant: a signal is never forgotten.
ClearNot ==
    /\ pc = "clear"
    /\ Repeat
    /\ UNCHANGED <<intsignal, cache, loop, cur, file, world, signals, unsaved>>

\* ... and then it is forgotten, or another one that has come in the meantime.
Clear ==
    /\ pc = "clear"
    /\ Repeat
    /\ intsignal' = None
    /\ UNCHANGED <<cache, loop, cur, file, world, signals, unsaved>>

\* Variant: nodes that were not filled are written as well.
FlushNodeAnyhow(i) ==
    /\ pc = "flush" /\ i \in todo
    /\ Visited(i)
    /\ IF backupdb(i) THEN pc' = "flushcreate" /\ cur' = i
                      ELSE UNCHANGED <<pc, cur>>
    /\ UNCHANGED <<intsignal, cache, loop, file, world, signals, unsaved>>

\* cacheflush goes over the list like a pass, but does not ask checkdb: what is
\* filled is backed up ...
FlushNode(i) ==
    /\ pc = "flush" /\ i \in todo
    /\ Visited(i)
    /\ IF i \in Filled /\ backupdb(i) THEN pc' = "flushcreate" /\ cur' = i
                                      ELSE UNCHANGED <<pc, cur>>
    /\ UNCHANGED <<intsignal, cache, loop, file, world, signals, unsaved>>

\* ... and written ...
FlushWrite ==
    /\ pc = "flushcreate"
    /\ writedb
    /\ pc' = "flush" /\ cur' = None
    /\ UNCHANGED <<intsignal, cache, loop, todo, world, signals>>

\* ... and the list is dropped in the end.
cacheflush ==
    /\ pc = "flush" /\ todo = {}
    /\ list' = {}
    /\ node' = [i \in Iface |-> Unfilled]
    /\ unsaved' = [i \in Iface |-> 0]

\* Variant: main still believes that the list has nodes.
HupStillCounts ==
    /\ cacheflush /\ running
    /\ pc' = "clear"
    /\ UNCHANGED <<intsignal, dbcount, loop, todo, cur, file, world, signals>>

HupDone ==
    /\ cacheflush /\ running
    /\ dbcount' = 0
    /\ pc' = "clear"
    /\ UNCHANGED <<intsignal, loop, todo, cur, file, world, signals>>

Exit ==
    /\ cacheflush /\ ~running
    /\ dbcount' = 0
    /\ pc' = "down"
    /\ intsignal' = None
    /\ UNCHANGED <<loop, todo, cur, file, world, signals>>

-----------------------------------------------------------------------------
Visit(i) == Update(i) \/ Skip(i) \/ ReadFails(i) \/ GiveUp(i)

Loop ==
    \/ Top \/ NotDue \/ Scan \/ ScanFails \/ Begin
    \/ \E i \in Iface : Visit(i)
    \/ Check \/ Remove \/ Backup \/ Write \/ PassDone
    \/ Sleep \/ Hup \/ Terminate \/ Ignore \/ Clear
    \/ \E i \in Iface : FlushNode(i)
    \/ FlushWrite \/ HupDone \/ Exit

InterfaceChange == \E i \in Iface : Appear(i) \/ Vanish(i)
FileChange == \E i \in Iface : Delete(i) \/ Create(i)
Signal == \E s \in Signals : sighandler(s)
Clock == \E s \in 1..MaxBack : ClockBack(s)

\* Everything but failing lookups and disks, and clocks set back.
SteadyNext ==
    \/ Loop \/ Start \/ Kill
    \/ InterfaceChange
    \/ FileChange
    \/ Signal

Fault == LookupChange \/ DiskChange

Next == SteadyNext \/ Fault \/ Clock

SteadySpec == Init /\ [][SteadyNext]_vars
TimelySpec == Init /\ [][SteadyNext \/ Fault]_vars
Spec == Init /\ [][Next]_vars

-----------------------------------------------------------------------------
(***************************************************************************)
(* Safety properties.                                                      *)
(***************************************************************************)

TypeOK ==
    /\ pc \in {"top", "due", "walk", "save", "write", "create", "sleep", "signal", "clear",
               "flush", "flushcreate", "down"}
    /\ intsignal \in Signals \cup {"Scanned", None}
    /\ list \subseteq Iface /\ node \in [Iface -> Node]
    /\ dbcount \in 0..Cardinality(Iface)
    /\ (dbhash = None \/ dbhash \in SUBSET Iface)
    /\ forcesave \in BOOLEAN /\ dodbsave \in BOOLEAN /\ running \in BOOLEAN
    /\ updateinterval \in {0, UpdateInterval, RescanInterval}
    /\ sinceUpdate \in (-MaxBack)..(RescanInterval + MaxBack)
    /\ sinceSave \in (-MaxBack)..(OfflineSaveInterval + MaxBack)
    /\ todo \subseteq list /\ cur \in list \cup {None}
    /\ DOMAIN file = Iface /\ \A i \in Iface : file[i] = None \/ file[i] \in Data
    /\ present \subseteq Iface /\ lookup \in BOOLEAN /\ disk \in BOOLEAN
    /\ gone \subseteq Iface
    /\ back \in 0..MaxBack /\ signals \in 0..MaxSignals
    /\ unsaved \in [Iface -> 0..(MaxUnsaved + 1)]

\* main counts the list by itself, next to cacheadd, cacheremove and
\* cacheflush, and rescans the directory when its count says the list is
\* empty: the count is never wrong, whatever is deleted while a pass is on.
DbCount == dbcount = Cardinality(list)

\* A database that is deleted stays deleted until somebody creates it again:
\* the daemon does not bring it back, at a save that has passed checkdb, at a
\* flush, after a rescan or a restart, whatever its cache holds.  Two exceptions
\* are what the code does, and leave the database out of "gone": a deletion
\* between the opening of the old file for the backup (dbaccess.c:267) and the
\* fopen of the new one (dbaccess.c:225) is undone by that fopen; and a start
\* that finds no database at all makes new ones.
NoResurrection == \A i \in gone : file[i] = None

\* What the daemon writes to a database is that interface's data, and never
\* the memory of a node that was not filled.
GoodFile == \A i \in Iface : file[i] # None => file[i].real

\* A save that includes i is due at the next update, or has begun.
SaveComing(i) ==
    \/ forcesave
    \/ dodbsave /\ pc \in {"walk", "save", "write", "create"} /\ i \in todo \cup {cur}

\* A working disk is never further behind the cache than the save interval
\* allows, whatever flushes, rescans, status changes and refills did to the
\* timers; the longer offline interval applies only while nothing is online.
\* (Without SaveOnStatusChange an interface that comes back is saved with the
\* next update, which may be later than that.)
Fresh ==
    \A i \in Filled : file[i] # None =>
        /\ unsaved[i] <= MaxUnsaved
        /\ SaveOnStatusChange /\ unsaved[i] > MaxUnsavedOnline
              => ActiveNodes = {} \/ SaveComing(i)

\* While the file says disabled and the cache enabled, the extra save of
\* SaveOnStatusChange is on its way: the request survives flushes, rescans
\* and a pass that is under way.
EnableSaved ==
    SaveOnStatusChange =>
        \A i \in Filled :
            file[i] # None /\ ~file[i].active /\ node[i].data.active => SaveComing(i)

-----------------------------------------------------------------------------
(***************************************************************************)
(* Liveness.  The daemon's process gets to run: WF of the loop's steps.    *)
(***************************************************************************)

Fairness == WF_vars(Loop)

\* Interfaces come and go, and lookups fail, only while the daemon sleeps, so
\* not between the dbcheck and the getifinfo of one iteration.
CalmChange == pc = "sleep" /\ (InterfaceChange \/ LookupChange)

CalmNext ==
    \/ Loop \/ Start
    \/ CalmChange
    \/ DiskChange
    \/ FileChange
    \/ Signal
    \/ Clock

CalmSpec == Init /\ [][CalmNext]_vars /\ Fairness

Gone(i) == ~Up \/ file[i] = None

\* After a start, after SIGHUP and after the last database was removed, the
\* list is filled again from the directory.
Refilled == \A i \in Iface : (Up /\ i \notin list /\ list = {}) ~> (i \in list \/ Gone(i))

\* The status follows the interface: an interface that is back for good ends
\* up enabled, and one that has gone for good disabled, also when the record
\* was read from a file that says otherwise after the last change was seen.
\* (One that is missing only between the dbcheck and the getifinfo of an
\* iteration can stay disabled: the list that dbcheck sees does not change.)
StatusFollows ==
    \A i \in Iface :
        /\ <>[](lookup /\ i \in present) => <>[](i \in Filled => node[i].data.active)
        /\ <>[](lookup /\ i \notin present) => <>[](i \in Filled => ~node[i].data.active)

\* However far the clock was set back, updates go on.
UpdatesGoOn == []<>(pc = "walk" \/ list = {} \/ ~Up)

\* Failing writes are retried: once writing works again the cache is saved.
WritesResume ==
    \A i \in Iface : <>[]disk => []<>(i \in Filled => unsaved[i] <= MaxUnsaved)

\* SIGTERM that finds the daemon asleep stops it, unless another signal
\* replaces it.  (One that comes before a directory scan is overwritten by it,
\* and one that comes while another is handled is cleared with that.)
SleeperStops == (pc = "sleep" /\ intsignal = "TERM") ~> (~Up \/ intsignal = "HUP")
=============================================================================
