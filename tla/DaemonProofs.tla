---------------------------- MODULE DaemonProofs ----------------------------
(***************************************************************************)
(* Proofs about Daemon, for any number of interfaces and any intervals.    *)
(***************************************************************************)
EXTENDS Daemon, FiniteSetTheorems, TLAPS

(***************************************************************************)
(* The count that main keeps of the list.                                  *)
(***************************************************************************)

InPass == pc \in {"walk", "save", "write", "create"}

Flushing == pc \in {"flush", "flushcreate"}

\* The loop has a node in hand.
Saving == pc \in {"save", "write", "create", "flushcreate"}

\* Nodes wait to be visited only during a pass or a flush, and are nodes of the
\* list; the one being saved is off that list of waiting nodes but on the list.
Walking ==
    /\ list \subseteq Iface
    /\ todo \subseteq list
    /\ ~InPass /\ ~Flushing => todo = {}
    /\ Saving => cur \in list /\ cur \notin todo

CountInv == Walking /\ DbCount

\* The list, like any set of interfaces, is finite.
LEMMA ListFinite == \A S : S \subseteq Iface => IsFiniteSet(S)
  BY DaemonAssumption, FS_Subset

\* Initially the list is empty and the count is 0.
LEMMA CountInit == Init => CountInv
  BY FS_EmptySet DEF Init, CountInv, Walking, DbCount, InPass, Flushing, Saving

\* Dying empties the list and the count.
LEMMA DeadCount == ASSUME Dead PROVE CountInv'
  BY FS_EmptySet DEF Dead, CountInv, Walking, DbCount, InPass, Flushing, Saving

\* Each step of the loop, and of its environment, keeps the count right.
LEMMA CountNext == CountInv /\ [Next]_vars => CountInv'
<1> SUFFICES ASSUME CountInv, [Next]_vars PROVE CountInv'
  OBVIOUS
<1>1. ASSUME UNCHANGED <<pc, list, dbcount, todo, cur>> PROVE CountInv'
  BY <1>1 DEF CountInv, Walking, DbCount, InPass, Flushing, Saving
<1>2. ASSUME ~InPass, ~InPass', ~Flushing, ~Flushing', UNCHANGED <<list, dbcount, todo>> PROVE CountInv'
  BY <1>2 DEF CountInv, Walking, DbCount, InPass, Flushing, Saving
<1>3. CASE Signal \/ InterfaceChange \/ Fault \/ FileChange \/ Clock
  <2>1. UNCHANGED <<pc, list, dbcount, todo, cur>>
    BY <1>3 DEF Signal, InterfaceChange, FileChange, Clock, sighandler, Appear,
                Vanish, Fault, LookupChange, DiskChange, Delete, Create, ClockBack, cache
  <2> QED BY <1>1, <2>1
<1>4. CASE Start
  BY <1>4, FS_EmptySet DEF Start, CountInv, Walking, DbCount, InPass, Flushing, Saving
<1>5. CASE Kill
  BY <1>5, DeadCount DEF Kill
<1>6. CASE Top \/ NotDue \/ Sleep \/ Terminate \/ Ignore
  <2>1. ~InPass /\ ~InPass' /\ ~Flushing /\ ~Flushing' /\ UNCHANGED <<list, dbcount, todo>>
    BY <1>6 DEF Top, NotDue, Sleep, Terminate, Ignore, cache, InPass, Flushing
  <2> QED BY <1>2, <2>1
<1>7. CASE Scan
  <2>1. list' \subseteq Iface /\ dbcount' = Cardinality(list') /\ todo' = todo
        /\ pc' = "sleep" /\ pc = "due"
    BY <1>7 DEF Scan
  <2> QED BY <2>1 DEF CountInv, Walking, DbCount, InPass, Flushing, Saving
<1>8. CASE ScanFails
  BY <1>8, DeadCount DEF ScanFails
<1>9. CASE Begin
  BY <1>9 DEF Begin, cache, CountInv, Walking, DbCount, InPass, Flushing, Saving
<1>10. ASSUME NEW i \in Iface, Visit(i) PROVE CountInv'
  <2>1. CASE Update(i)
    BY <2>1 DEF Update, Visited, CountInv, Walking, DbCount, InPass, Flushing, Saving
  <2>2. CASE Skip(i)
    BY <2>2 DEF Skip, Visited, CountInv, Walking, DbCount, InPass, Flushing, Saving
  <2>3. CASE ReadFails(i)
    BY <2>3 DEF ReadFails, Visited, CountInv, Walking, DbCount, InPass, Flushing, Saving
  <2>4. CASE GiveUp(i)
    BY <2>4, DeadCount DEF GiveUp
  <2> QED BY <1>10, <2>1, <2>2, <2>3, <2>4 DEF Visit
<1>11. CASE Check
  BY <1>11 DEF Check, cache, CountInv, Walking, DbCount, InPass, Flushing, Saving
<1>12. CASE Remove
  <2>1. /\ pc = "save" /\ pc' = "walk" /\ list' = list \ {cur} /\ todo' = todo
        /\ dbcount' = dbcount - 1
    BY <1>12 DEF Remove
  <2>2. cur \in list /\ cur \notin todo /\ IsFiniteSet(list)
    BY <2>1, ListFinite DEF CountInv, Walking, Saving
  <2>3. Cardinality(list \ {cur}) = Cardinality(list) - 1
    BY <2>2, FS_RemoveElement
  <2> QED BY <2>1, <2>2, <2>3 DEF CountInv, Walking, DbCount, InPass, Flushing, Saving
<1>13. CASE Backup \/ Write \/ FlushWrite
  BY <1>13 DEF Backup, Write, FlushWrite, cache, CountInv, Walking, DbCount, InPass, Flushing, Saving
<1>14. CASE PassDone
  BY <1>14 DEF PassDone, cache, CountInv, Walking, DbCount, InPass, Flushing, Saving
<1>15. CASE HupDone \/ Exit
  <2>1. /\ list' = {} /\ dbcount' = 0 /\ todo = {} /\ todo' = todo
        /\ pc' \in {"clear", "down"}
    BY <1>15 DEF HupDone, Exit, cacheflush
  <2> QED BY <2>1, FS_EmptySet DEF CountInv, Walking, DbCount, InPass, Flushing, Saving
<1>17. CASE Hup \/ Clear
  BY <1>17 DEF Hup, Clear, Repeat, cache, CountInv, Walking, DbCount, InPass, Flushing, Saving
<1>18. ASSUME NEW i \in Iface, FlushNode(i) PROVE CountInv'
  BY <1>18 DEF FlushNode, Visited, cache, CountInv, Walking, DbCount, InPass, Flushing, Saving
<1>16. CASE UNCHANGED vars
  BY <1>1, <1>16 DEF vars, cache
<1> QED
  BY <1>3, <1>4, <1>5, <1>6, <1>7, <1>8, <1>9, <1>10, <1>11, <1>12, <1>13, <1>14,
     <1>15, <1>16, <1>17, <1>18 DEF Next, SteadyNext, Loop

\* The count that decides whether the directory is scanned again is never
\* wrong, also under failing disks and clocks.
THEOREM DbCountAlways == Spec => []DbCount
<1>1. CountInv => DbCount
  BY DEF CountInv
<1> QED BY CountInit, CountNext, <1>1, PTL DEF Spec

-----------------------------------------------------------------------------
(***************************************************************************)
(* What is in the files, while the clock is not set back.                  *)
(***************************************************************************)

\* A record of the interface, not from the future.
GoodData(d) == d \in Data /\ d.real /\ d.valid /\ d.last >= 0

\* Files hold such records, and so does every node that is marked as filled:
\* a node is never filled without data.
FileInv ==
    /\ DOMAIN file = Iface
    /\ node \in [Iface -> Node]
    /\ \A i \in Iface : file[i] # None => GoodData(file[i])
    /\ \A i \in Iface : node[i].filled => GoodData(node[i].data)

\* A record that is not from the future stays so while it ages.
LEMMA Ages == ASSUME NEW a \in Nat PROVE OldRecord(a) \in RecordAge /\ OldRecord(a) \in Nat
  BY DaemonAssumption DEF OldRecord, Old, RecordAge

\* The records that are built anew.
LEMMA GoodNewData == GoodData(NewData)
  BY DaemonAssumption DEF GoodData, NewData, Data, RecordAge

\* The node that cacheadd makes is a node, and not filled.
LEMMA UnfilledNode == Unfilled \in Node /\ ~Unfilled.filled
  BY DaemonAssumption DEF Unfilled, Uninitialised, Node, Data, RecordAge

\* Saving a record leaves it good.
LEMMA GoodSaved == ASSUME NEW d, GoodData(d) PROVE GoodData(Saved(d))
  BY GoodNewData DEF GoodData, Saved, Data, NewData

\* So does the passing of time: nothing comes to be from the future.
LEMMA GoodAged ==
    ASSUME NEW d, GoodData(d), NEW t \in Nat
    PROVE  GoodData(Aged(d, t))
<1>1. d.last \in Nat /\ d.last + t \in Nat
  BY DaemonAssumption DEF GoodData, Data, RecordAge
<1>2. OldRecord(d.last + t) \in RecordAge /\ OldRecord(d.last + t) >= 0
  BY <1>1, Ages
<1> DEFINE l == OldRecord(d.last + t)
<1>3. d \in Data /\ d.real = TRUE /\ d.valid = TRUE
  BY DEF GoodData, Data
<1>4. Aged(d, t) = [d EXCEPT !.last = l]
  BY DEF Aged
<1> HIDE DEF l
<1>5. [d EXCEPT !.last = l]
        = [real |-> d.real, valid |-> d.valid, active |-> d.active, last |-> l]
  BY <1>3 DEF Data
<1> QED BY <1>2, <1>3, <1>4, <1>5 DEF GoodData, Data, l

\* The passing of time keeps every record good.
LEMMA TimeFiles ==
    ASSUME FileInv, NEW t \in Nat, Passes(t) PROVE FileInv'
<1>1. DOMAIN file' = Iface
  BY DEF Passes
<1>2. ASSUME NEW i \in Iface, file'[i] # None PROVE GoodData(file'[i])
  <2>1. file[i] # None /\ file'[i] = Aged(file[i], t)
    BY <1>2 DEF Passes
  <2> QED BY <2>1, GoodAged DEF FileInv
<1>3. ASSUME NEW i \in Iface
      PROVE  node'[i] \in Node /\ (node'[i].filled => GoodData(node'[i].data))
  <2>1. CASE ~node[i].filled
    BY <2>1 DEF Passes, FileInv
  <2>2. CASE node[i].filled
    <3>1. node'[i] = [filled |-> TRUE, data |-> Aged(node[i].data, t)]
      BY <2>2 DEF Passes
    <3>2. GoodData(Aged(node[i].data, t))
      BY <2>2, GoodAged DEF FileInv
    <3> QED BY <3>1, <3>2 DEF Node, GoodData
  <2> QED BY <2>1, <2>2
<1>4. node' \in [Iface -> Node]
  <2>1. node' = [i \in Iface |-> node'[i]]
    BY DEF Passes
  <2> QED BY <1>3, <2>1
<1> QED BY <1>1, <1>2, <1>3, <1>4 DEF FileInv

\* A write puts the record of a filled node into its file.
LEMMA WriteFiles ==
    ASSUME FileInv, cur \in Iface, node[cur].filled, writedb
    PROVE  DOMAIN file' = Iface /\ \A i \in Iface : file'[i] # None => GoodData(file'[i])
<1>1. GoodData(Saved(node[cur].data))
  BY GoodSaved DEF FileInv
<1>2. file' = file \/ file' = [file EXCEPT ![cur] = Saved(node[cur].data)]
  BY DEF writedb
<1> QED BY <1>1, <1>2 DEF FileInv

\* Nodes that are new or have lost their data are not marked as filled.
LEMMA EmptyNodes ==
    ASSUME FileInv, node' = [i \in Iface |-> Unfilled], DOMAIN file' = Iface,
           \A i \in Iface : file'[i] # None => GoodData(file'[i])
    PROVE  FileInv'
  BY UnfilledNode DEF FileInv

\* A node that is being saved is filled.
SavingFilled == Saving => node[cur].filled

\* Initially no node is being saved.
LEMMA SavingInit == Init => SavingFilled
  BY DEF Init, SavingFilled, Saving

\* A node stays filled until its save is over.
LEMMA SavingNext ==
    FileInv /\ CountInv /\ SavingFilled /\ [SteadyNext \/ Fault]_vars => SavingFilled'
<1> SUFFICES ASSUME FileInv, CountInv, SavingFilled, [SteadyNext \/ Fault]_vars
             PROVE  SavingFilled'
  OBVIOUS
<1>1. CASE Signal \/ InterfaceChange \/ Fault \/ FileChange \/ UNCHANGED vars
  <2>1. UNCHANGED <<pc, cur, node>>
    BY <1>1 DEF Signal, InterfaceChange, FileChange, sighandler, Appear, Vanish,
                Fault, LookupChange, DiskChange, Delete, Create, cache, vars
  <2> QED BY <2>1 DEF SavingFilled, Saving
<1>2. CASE Start \/ Kill \/ Top \/ NotDue \/ Scan \/ ScanFails \/ Begin \/ Remove
           \/ Write \/ PassDone \/ Sleep \/ Hup \/ Terminate \/ Ignore \/ Clear
           \/ FlushWrite \/ HupDone \/ Exit
  BY <1>2 DEF Start, Kill, Top, NotDue, Scan, ScanFails, Begin, Remove, Write, PassDone,
              Sleep, Hup, Terminate, Ignore, Clear, Repeat, FlushWrite, HupDone, Exit, Dead,
              SavingFilled, Saving
<1>3. CASE Check \/ Backup
  BY <1>3 DEF Check, Backup, cache, SavingFilled, Saving
<1>5. ASSUME NEW i \in Iface, FlushNode(i) PROVE SavingFilled'
  BY <1>5 DEF FlushNode, Filled, cache, SavingFilled, Saving
<1>4. ASSUME NEW i \in Iface, Visit(i) PROVE SavingFilled'
  <2>1. CASE Update(i)
    BY <2>1 DEF Update, FileInv, SavingFilled, Saving
  <2>2. CASE Skip(i) \/ ReadFails(i) \/ GiveUp(i)
    BY <2>2 DEF Skip, ReadFails, GiveUp, Dead, SavingFilled, Saving
  <2> QED BY <1>4, <2>1, <2>2 DEF Visit
<1> QED BY <1>1, <1>2, <1>3, <1>4, <1>5 DEF SteadyNext, Loop

\* Initially every file is good and no node is filled.
LEMMA FileInit == Init => FileInv
<1> SUFFICES ASSUME Init PROVE FileInv
  OBVIOUS
<1>1. /\ node = [i \in Iface |-> Unfilled]
      /\ file \in [Iface -> {None, NewData}]
  BY DEF Init
<1> QED BY <1>1, UnfilledNode, GoodNewData DEF FileInv

\* A pass works on a good record, so that it neither skips it nor gives up.
LEMMA GoodRecord ==
    ASSUME FileInv, NEW i \in Iface
    PROVE  GoodData(Record(i)) /\ ~(Record(i).last < 0)
<1>1. GoodData(Record(i))
  BY GoodNewData DEF Record, Cached, FileInv
<1>2. Record(i).last \in Int
  BY <1>1, DaemonAssumption DEF GoodData, Data, RecordAge
<1> QED BY <1>1, <1>2 DEF GoodData

\* Every step keeps garbage out of the files.
LEMMA FileNext == FileInv /\ CountInv /\ SavingFilled /\ [SteadyNext \/ Fault]_vars => FileInv'
<1> SUFFICES ASSUME FileInv, CountInv, SavingFilled, [SteadyNext \/ Fault]_vars PROVE FileInv'
  OBVIOUS
<1>1. ASSUME UNCHANGED <<node, file>> PROVE FileInv'
  BY <1>1 DEF FileInv
<1>2. ASSUME node' = [i \in Iface |-> Unfilled], UNCHANGED file PROVE FileInv'
  BY <1>2, EmptyNodes DEF FileInv
<1>3. CASE Signal \/ InterfaceChange \/ Fault
  BY <1>1, <1>3 DEF Signal, InterfaceChange, sighandler, Appear, Vanish, Fault, LookupChange, DiskChange, cache
<1>4. CASE FileChange
  <2>1. PICK i \in Iface : Delete(i) \/ Create(i)
    BY <1>4 DEF FileChange
  <2>2. UNCHANGED node /\ \/ file' = [file EXCEPT ![i] = None]
                          \/ file' = [file EXCEPT ![i] = NewData]
    BY <2>1 DEF Delete, Create, cache
  <2> QED BY <2>2, GoodNewData DEF FileInv
<1>5. CASE Start
  <2>1. node' = [i \in Iface |-> Unfilled]
    BY <1>5 DEF Start
  <2>2. CASE addinterfaces
    <3>1. PICK added : file' = [i \in Iface |-> IF i \in added THEN NewData ELSE None]
      BY <2>2 DEF addinterfaces
    <3> QED BY <2>1, <3>1, EmptyNodes, GoodNewData
  <2>3. CASE UNCHANGED file
    BY <1>2, <2>1, <2>3
  <2> QED BY <1>5, <2>2, <2>3 DEF Start
<1>6. CASE Kill \/ ScanFails \/ \E i \in Iface : GiveUp(i)
  BY <1>2, <1>6 DEF Kill, ScanFails, GiveUp, Dead
<1>7. CASE Top
  <2>1. CASE UNCHANGED node
    BY <1>1, <1>7, <2>1 DEF Top
  <2>2. CASE dbcheckChanged
    <3> DEFINE looked(i) == [node[i] EXCEPT !.data.active = Visible(i)]
    <3>1. /\ node' = [i \in Iface |-> IF i \in Changed THEN looked(i) ELSE node[i]]
          /\ UNCHANGED file
      BY <1>7, <2>2 DEF Top, dbcheckChanged
    <3>2. ASSUME NEW i \in Iface
          PROVE  looked(i) \in Node /\ looked(i).filled = node[i].filled
                 /\ (node[i].filled => GoodData(looked(i).data))
      <4>1. node[i] \in Node /\ Visible(i) \in BOOLEAN
        BY DEF FileInv, Visible
      <4>2. looked(i) = [filled |-> node[i].filled,
                         data |-> [real |-> node[i].data.real, valid |-> node[i].data.valid,
                                   active |-> Visible(i), last |-> node[i].data.last]]
        BY <4>1 DEF Node, Data
      <4> HIDE DEF looked
      <4> QED BY <4>1, <4>2 DEF FileInv, GoodData, Node, Data
    <3> HIDE DEF looked
    <3> QED BY <3>1, <3>2 DEF FileInv
  <2> QED BY <1>7, <2>1, <2>2 DEF Top, dbcheck, dbcheckFails
<1>8. CASE NotDue \/ Begin \/ Check \/ Backup \/ PassDone \/ Hup \/ Terminate \/ Ignore \/ Clear
           \/ \E i \in Iface : FlushNode(i)
  BY <1>1, <1>8 DEF NotDue, Begin, Check, Backup, PassDone, Hup, Terminate, Ignore, Clear,
                    FlushNode, cache
<1>9. CASE Scan
  BY <1>2, <1>9 DEF Scan
<1>10. ASSUME NEW i \in Iface, Update(i) PROVE FileInv'
  <2>1. UNCHANGED file /\ node' = [node EXCEPT ![i] = [filled |-> TRUE, data |-> Updated(i)]]
    BY <1>10 DEF Update
  <2>2. GoodData(Updated(i))
    BY GoodRecord, GoodNewData DEF Updated, GoodData, Data, NewData, Visible
  <2> QED BY <2>1, <2>2 DEF FileInv, GoodData, Node
<1>11. ASSUME NEW i \in Iface PROVE ~Skip(i)
  BY GoodRecord DEF Skip
<1>12. ASSUME NEW i \in Iface, ReadFails(i) PROVE FileInv'
  <2>1. /\ UNCHANGED file
        /\ node' = [node EXCEPT ![i] = [filled |-> FALSE, data |-> node[i].data]]
    BY <1>12 DEF ReadFails
  <2> QED BY <2>1 DEF FileInv, Node
<1>13. CASE Remove
  BY <1>13, UnfilledNode DEF Remove, FileInv
<1>14. CASE Write \/ FlushWrite
  <2>1. node' = node /\ writedb /\ cur \in Iface
    BY <1>14 DEF Write, FlushWrite, cache, CountInv, Walking, Saving
  <2>2. node[cur].filled
    BY <1>14 DEF Write, FlushWrite, SavingFilled, Saving
  <2> QED BY <2>1, <2>2, WriteFiles DEF FileInv
<1>15. CASE Sleep
  <2>1. PICK t \in {0, 1} : Passes(t)
    BY <1>15 DEF Sleep
  <2> QED BY <2>1, TimeFiles
<1>16. CASE HupDone \/ Exit
  BY <1>2, <1>16 DEF HupDone, Exit, cacheflush
<1>17. CASE UNCHANGED vars
  BY <1>1, <1>17 DEF vars, cache
<1> QED
  BY <1>3, <1>4, <1>5, <1>6, <1>7, <1>8, <1>9, <1>10, <1>11, <1>12, <1>13, <1>14,
     <1>15, <1>16, <1>17 DEF SteadyNext, Loop, Visit

\* As long as the clock is not set back, what the daemon writes is never the
\* memory of a node that was not filled, whatever disks, signals, kills and
\* deleted files do.
THEOREM GoodFileAlways == TimelySpec => []GoodFile
<1>1. FileInv => GoodFile
  BY DEF FileInv, GoodFile, GoodData
<1>2. CountInv /\ [SteadyNext \/ Fault]_vars => CountInv'
  BY CountNext DEF Next
<1> QED BY CountInit, FileInit, FileNext, SavingInit, SavingNext, <1>1, <1>2, PTL DEF TimelySpec

-----------------------------------------------------------------------------
(***************************************************************************)
(* Deleted databases.                                                      *)
(***************************************************************************)

\* The database that is being made anew was there when its backup was opened,
\* and is not one that was deleted before.
GoneInv ==
    /\ NoResurrection
    /\ DOMAIN file = Iface
    /\ gone \subseteq Iface
    /\ pc \in {"create", "flushcreate"} => cur \in Iface /\ cur \notin gone

\* Initially nothing has been deleted.
LEMMA GoneInit == Init => GoneInv
  BY DEF Init, GoneInv, NoResurrection

\* Time makes no file.
LEMMA AgeNothingNew ==
    ASSUME NEW t, Passes(t), NEW i \in Iface, file[i] = None PROVE file'[i] = None
  BY DEF Passes

\* Every step leaves gone what was deleted.
LEMMA GoneNext == GoneInv /\ CountInv /\ [Next]_vars => GoneInv'
<1> SUFFICES ASSUME GoneInv, CountInv, [Next]_vars PROVE GoneInv'
  OBVIOUS
<1> DEFINE Anew == pc \in {"create", "flushcreate"}
<1>1. ASSUME UNCHANGED <<file, gone>>, ~Anew' PROVE GoneInv'
  BY <1>1 DEF GoneInv, NoResurrection
<1>2. ASSUME UNCHANGED <<file, gone, pc, cur>> PROVE GoneInv'
  BY <1>2 DEF GoneInv, NoResurrection
<1>3. CASE Signal \/ InterfaceChange \/ Fault \/ UNCHANGED vars
  <2>1. UNCHANGED <<file, gone, pc, cur>>
    BY <1>3 DEF Signal, InterfaceChange, Fault, sighandler, Appear, Vanish, LookupChange,
                DiskChange, world, vars
  <2> QED BY <1>2, <2>1
<1>4. CASE FileChange
  <2>1. PICK i \in Iface : Delete(i) \/ Create(i)
    BY <1>4 DEF FileChange
  <2>2. CASE Delete(i)
    <3>1. /\ file' = [file EXCEPT ![i] = None] /\ UNCHANGED <<pc, cur>>
          /\ gone' = IF Anew /\ cur = i THEN gone ELSE gone \cup {i}
      BY <2>2 DEF Delete, Rewriting
    <3> QED BY <3>1 DEF GoneInv, NoResurrection
  <2>3. CASE Create(i)
    <3>1. /\ file' = [file EXCEPT ![i] = NewData] /\ UNCHANGED <<pc, cur>>
          /\ gone' = gone \ {i}
      BY <2>3 DEF Create
    <3> QED BY <3>1 DEF GoneInv, NoResurrection
  <2> QED BY <2>1, <2>2, <2>3
<1>5. CASE Clock
  <2>1. PICK s \in 1..MaxBack : Passes(-s) /\ UNCHANGED <<pc, cur, gone>>
    BY <1>5 DEF Clock, ClockBack
  <2>2. DOMAIN file' = Iface
    BY <2>1 DEF Passes
  <2> QED BY <2>1, <2>2, AgeNothingNew DEF GoneInv, NoResurrection
<1>6. CASE Start
  <2>1. gone' = {i \in gone : file'[i] = None} /\ pc' = "top"
    BY <1>6 DEF Start
  <2>2. DOMAIN file' = Iface
    BY <1>6 DEF Start, addinterfaces, GoneInv
  <2> QED BY <2>1, <2>2 DEF GoneInv, NoResurrection
<1>7. CASE Kill \/ ScanFails \/ \E i \in Iface : GiveUp(i)
  <2>1. UNCHANGED <<file, gone>> /\ ~Anew'
    BY <1>7 DEF Kill, ScanFails, GiveUp, Dead, world
  <2> QED BY <1>1, <2>1
<1>8. CASE Top \/ NotDue \/ Scan \/ Begin \/ Check \/ Remove \/ PassDone
  <2>1. UNCHANGED <<file, gone>> /\ ~Anew'
    BY <1>8 DEF Top, NotDue, Scan, Begin, Check, Remove, PassDone, world
  <2> QED BY <1>1, <2>1
<1>9. CASE Hup \/ Terminate \/ Ignore \/ Clear \/ HupDone \/ Exit
  <2>1. UNCHANGED <<file, gone>> /\ ~Anew'
    BY <1>9 DEF Hup, Terminate, Ignore, Clear, Repeat, HupDone, Exit, world
  <2> QED BY <1>1, <2>1
<1>10. ASSUME NEW i \in Iface, Update(i) \/ Skip(i) \/ ReadFails(i) PROVE GoneInv'
  <2>1. UNCHANGED <<file, gone>> /\ ~Anew'
    BY <1>10 DEF Update, Skip, ReadFails, world
  <2> QED BY <1>1, <2>1
<1>11. CASE Backup
  <2>1. /\ pc = "write" /\ UNCHANGED <<file, gone>>
        /\ IF backupdb(cur) THEN pc' = "create" /\ cur' = cur ELSE pc' = "walk"
    BY <1>11 DEF Backup, world
  <2>2. cur \in Iface
    BY <2>1 DEF CountInv, Walking, Saving
  <2>3. backupdb(cur) => cur \notin gone
    BY DEF backupdb, GoneInv, NoResurrection
  <2> QED BY <2>1, <2>2, <2>3 DEF GoneInv, NoResurrection
<1>12. ASSUME NEW i \in Iface, FlushNode(i) PROVE GoneInv'
  <2>1. /\ pc = "flush" /\ UNCHANGED <<file, gone>>
        /\ IF i \in Filled /\ backupdb(i) THEN pc' = "flushcreate" /\ cur' = i
                                          ELSE UNCHANGED <<pc, cur>>
    BY <1>12 DEF FlushNode, world
  <2>2. backupdb(i) => i \notin gone
    BY DEF backupdb, GoneInv, NoResurrection
  <2> QED BY <2>1, <2>2 DEF GoneInv, NoResurrection
<1>13. CASE Write \/ FlushWrite
  <2>1. Anew /\ ~Anew' /\ gone' = gone /\ writedb
    BY <1>13 DEF Write, FlushWrite, world
  <2>2. file' = file \/ file' = [file EXCEPT ![cur] = Saved(node[cur].data)]
    BY <2>1 DEF writedb
  <2> QED BY <2>1, <2>2 DEF GoneInv, NoResurrection
<1>14. CASE Sleep
  <2>1. PICK t \in {0, 1} : Passes(t)
    BY <1>14 DEF Sleep
  <2>2. gone' = gone /\ ~Anew'
    BY <1>14 DEF Sleep, world
  <2>3. DOMAIN file' = Iface
    BY <2>1 DEF Passes
  <2> QED BY <2>1, <2>2, <2>3, AgeNothingNew DEF GoneInv, NoResurrection
<1> QED
  BY <1>3, <1>4, <1>5, <1>6, <1>7, <1>8, <1>9, <1>10, <1>11, <1>12, <1>13, <1>14
     DEF Next, SteadyNext, Loop, Visit

\* A deletion is final, at whatever point of a pass or a flush it happens,
\* whatever the cache holds, across rescans and restarts, until the database is
\* created again, or a start without any database makes new ones.  The one
\* deletion that is undone falls between writedb's opening of the old file for
\* the backup and its fopen of the new one, while that very database is saved.
THEOREM NoResurrectionAlways == Spec => []NoResurrection
<1>1. GoneInv => NoResurrection
  BY DEF GoneInv
<1> QED BY GoneInit, GoneNext, CountInit, CountNext, <1>1, PTL DEF Spec

-----------------------------------------------------------------------------
(***************************************************************************)
(* The save of a record that was enabled, while the disk works and the     *)
(* clock is not set back.                                                  *)
(***************************************************************************)

\* The pass has no node in hand, except while it saves one.
HandEmpty == ~Saving => cur = None

\* Its file says that interface i is disabled, the cache that it is enabled.
Owed(i) ==
    /\ i \in Filled
    /\ file[i] # None /\ ~file[i].active /\ node[i].data.active

SaveInv ==
    /\ disk
    /\ HandEmpty
    /\ \A i \in Iface : Owed(i) => SaveComing(i)

\* Initially nothing is cached.
LEMMA EnableInit == Init /\ SaveOnStatusChange => SaveInv
  BY DEF Init, SaveInv, HandEmpty, Saving, Owed, Filled

\* The hand is full only between the visit of a node and the end of its save.
LEMMA HandNext == HandEmpty /\ [Next]_vars => HandEmpty'
<1> SUFFICES ASSUME HandEmpty, [Next]_vars PROVE HandEmpty'
  OBVIOUS
<1>1. CASE Signal \/ InterfaceChange \/ Fault \/ FileChange \/ Clock \/ UNCHANGED vars
  <2>1. UNCHANGED <<pc, cur>>
    BY <1>1 DEF Signal, InterfaceChange, FileChange, Clock, sighandler, Appear, Vanish,
                Fault, LookupChange, DiskChange, Delete, Create, ClockBack, vars
  <2> QED BY <2>1 DEF HandEmpty, Saving
<1>2. CASE Start \/ Kill \/ ScanFails \/ \E i \in Iface : GiveUp(i)
  BY <1>2 DEF Start, Kill, ScanFails, GiveUp, Dead, HandEmpty, Saving
<1>3. CASE Top \/ NotDue \/ Scan \/ Begin
  BY <1>3 DEF Top, NotDue, Scan, Begin, HandEmpty, Saving
<1>4. ASSUME NEW i \in Iface, Update(i) \/ Skip(i) \/ ReadFails(i) PROVE HandEmpty'
  BY <1>4 DEF Update, Skip, ReadFails, HandEmpty, Saving
<1>5. CASE Check \/ Remove \/ Backup \/ Write \/ PassDone
  BY <1>5 DEF Check, Remove, Backup, Write, PassDone, HandEmpty, Saving
<1>7. ASSUME NEW i \in Iface, FlushNode(i) PROVE HandEmpty'
  BY <1>7 DEF FlushNode, HandEmpty, Saving
<1>6. CASE Sleep \/ Hup \/ Terminate \/ Ignore \/ Clear \/ FlushWrite \/ HupDone \/ Exit
  BY <1>6 DEF Sleep, Hup, Terminate, Ignore, Clear, Repeat, FlushWrite, HupDone, cacheflush, Exit,
              HandEmpty, Saving
<1> QED BY <1>1, <1>2, <1>3, <1>4, <1>5, <1>6, <1>7 DEF Next, SteadyNext, Loop, Visit

\* A disk that works goes on working.
LEMMA DiskNext == disk /\ [SteadyNext]_vars => disk'
<1> SUFFICES ASSUME disk, [SteadyNext]_vars PROVE disk'
  OBVIOUS
<1>1. CASE Loop \/ UNCHANGED vars
  BY <1>1 DEF Loop, Visit, Update, Skip, ReadFails, GiveUp, Dead, Top, NotDue, Scan, ScanFails,
              Begin, Check, Remove, Backup, Write, PassDone, Sleep, Hup, Terminate, Ignore,
              Clear, FlushNode, FlushWrite, HupDone, Exit, world, vars
<1>2. CASE Start \/ Kill
  BY <1>2 DEF Start, Kill, Dead, world
<1>3. CASE InterfaceChange \/ FileChange \/ Signal
  BY <1>3 DEF InterfaceChange, FileChange, Signal, sighandler, Appear, Vanish, Delete,
              Create, world
<1> QED BY <1>1, <1>2, <1>3 DEF SteadyNext

\* An owed save is not forgotten if nothing changes that it depends on.
LEMMA StillOwed ==
    ASSUME \A i \in Iface : Owed(i) => SaveComing(i), NEW i \in Iface, Owed(i)',
           UNCHANGED <<pc, list, node, file, todo, cur, forcesave, dodbsave>>
    PROVE  SaveComing(i)'
  BY DEF Owed, SaveComing, Filled

\* Nothing is owed by a cache that has been emptied.
LEMMA NothingOwed ==
    ASSUME NEW i \in Iface, node' = [j \in Iface |-> Unfilled] PROVE ~Owed(i)'
  BY UnfilledNode DEF Owed, Filled

\* Every step either keeps the request for the save, or serves it.
LEMMA EnableNext ==
    ASSUME FileInv, CountInv, SaveInv, [SteadyNext]_vars, SaveOnStatusChange
    PROVE  SaveInv'
<1>1. disk'
  BY DiskNext DEF SaveInv
<1>2. HandEmpty'
  BY HandNext DEF SaveInv, Next
<1> SUFFICES ASSUME NEW i \in Iface, Owed(i)' PROVE SaveComing(i)'
  BY <1>1, <1>2 DEF SaveInv
<1>4. Owed(i) => SaveComing(i)
  BY DEF SaveInv
<1>5. CASE Signal \/ InterfaceChange \/ UNCHANGED vars
  <2>1. UNCHANGED <<pc, list, node, file, todo, cur, forcesave, dodbsave>>
    BY <1>5 DEF Signal, sighandler, InterfaceChange, Appear, Vanish, cache, loop, vars
  <2> QED BY <2>1, StillOwed DEF SaveInv
<1>15. CASE NotDue \/ Hup \/ Terminate \/ Ignore \/ Clear \/ \E j \in Iface : FlushNode(j)
  <2>1. ~InPass /\ UNCHANGED <<list, node, file, forcesave>>
    BY <1>15 DEF NotDue, Hup, Terminate, Ignore, Clear, FlushNode, cache, loop, InPass
  <2> QED BY <1>4, <2>1 DEF Owed, SaveComing, Filled, InPass
<1>16. CASE Check \/ PassDone
  <2>1. UNCHANGED <<list, node, file, todo, cur, forcesave, dodbsave>>
    BY <1>16 DEF Check, PassDone, cache, loop
  <2>2. SaveComing(i)
    BY <1>4, <2>1 DEF Owed, Filled
  <2>3. CASE Check
    BY <2>1, <2>2, <2>3 DEF Check, SaveComing
  <2>4. CASE PassDone
    <3>1. i \notin todo \cup {cur}
      BY <2>4, DaemonAssumption DEF PassDone, SaveInv, HandEmpty, Saving
    <3> QED BY <2>1, <2>2, <3>1 DEF SaveComing
  <2> QED BY <1>16, <2>3, <2>4
<1>6. CASE Start \/ Kill \/ Scan \/ ScanFails \/ HupDone \/ Exit \/ \E j \in Iface : GiveUp(j)
  <2>1. node' = [j \in Iface |-> Unfilled]
    BY <1>6 DEF Start, Kill, Scan, ScanFails, HupDone, Exit, GiveUp, Dead, cacheflush
  <2> QED BY <2>1, NothingOwed
<1>7. CASE FileChange
  <2>1. PICK j \in Iface : Delete(j) \/ Create(j)
    BY <1>7 DEF FileChange
  <2>2. /\ UNCHANGED <<pc, list, node, todo, cur, forcesave, dodbsave>>
        /\ file' = [file EXCEPT ![j] = None] \/ file' = [file EXCEPT ![j] = NewData]
    BY <2>1 DEF Delete, Create, cache, loop
  <2>3. j # i
    BY <2>2 DEF Owed, NewData, FileInv
  <2>4. Owed(i)
    BY <2>2, <2>3 DEF Owed, Filled, FileInv
  <2> QED BY <1>4, <2>2, <2>4 DEF SaveComing
<1>8. CASE Top
  <2>1. pc = "top" /\ UNCHANGED <<list, file, todo, cur, dodbsave>>
    BY <1>8 DEF Top
  <2>2. CASE UNCHANGED <<node, forcesave>>
    BY <1>4, <2>1, <2>2 DEF Owed, Filled, SaveComing
  <2>3. CASE dbcheckChanged
    <3>1. CASE i \in Changed
      BY <2>3, <3>1 DEF dbcheckChanged, SaveComing
    <3>2. CASE i \notin Changed
      <4>1. node'[i] = node[i]
        BY <2>3, <3>2 DEF dbcheckChanged
      <4>2. Owed(i)
        BY <2>1, <4>1 DEF Owed, Filled
      <4> QED BY <1>4, <2>1, <2>3, <4>2 DEF SaveComing, dbcheckChanged
    <3> QED BY <3>1, <3>2
  <2> QED BY <1>8, <2>2, <2>3 DEF Top, dbcheck, dbcheckFails
<1>9. CASE Begin
  <2>1. Owed(i) /\ i \in list
    BY <1>9 DEF Begin, cache, Owed, Filled
  <2>2. forcesave
    BY <1>4, <1>9, <2>1 DEF Begin, SaveComing
  <2> QED BY <1>9, <2>1, <2>2 DEF Begin, SaveComing, SaveDue
<1>10. ASSUME NEW j \in Iface, Update(j) PROVE SaveComing(i)'
  <2>1. /\ pc = "walk" /\ j \in todo /\ UNCHANGED <<list, file, forcesave, dodbsave>>
        /\ node' = [node EXCEPT ![j] = [filled |-> TRUE, data |-> Updated(j)]]
        /\ todo' = todo \ {j}
        /\ IF dodbsave THEN pc' = "save" /\ cur' = j ELSE UNCHANGED <<pc, cur>>
    BY <1>10 DEF Update, Visited
  <2>2. Owed(i)
    <3>1. CASE i # j
      BY <2>1, <3>1 DEF Owed, Filled, FileInv
    <3>2. CASE i = j
      <4>1. Record(i).active /\ file[i] # None /\ ~file[i].active /\ i \in list
        BY <2>1, <3>2 DEF Owed, Filled, Updated, FileInv
      <4>2. Cached(i) /\ node[i].data.active
        BY <4>1 DEF Record
      <4> QED BY <4>1, <4>2 DEF Owed, Filled, Cached
    <3> QED BY <3>1, <3>2
  <2>3. cur = None
    BY <2>1 DEF SaveInv, HandEmpty, Saving
  <2> QED BY <1>4, <2>1, <2>2, <2>3, DaemonAssumption DEF SaveComing
<1>11. ASSUME NEW j \in Iface PROVE ~Skip(j) /\ ~ReadFails(j)
  BY GoodRecord DEF Skip, ReadFails, SaveInv
<1>12. CASE Remove
  <2>1. /\ pc = "save" /\ pc' = "walk" /\ cur' = None /\ cur \in Iface
        /\ list' = list \ {cur} /\ node' = [node EXCEPT ![cur] = Unfilled]
        /\ UNCHANGED <<file, todo, forcesave, dodbsave>>
    BY <1>12 DEF Remove, loop, CountInv, Walking, Saving
  <2>2. i # cur
    BY <2>1 DEF Owed, Filled
  <2>3. Owed(i)
    BY <2>1, <2>2 DEF Owed, Filled, FileInv
  <2> QED BY <1>4, <2>1, <2>2, <2>3 DEF SaveComing
<1>17. CASE Backup
  <2>1. UNCHANGED <<list, node, file, todo, forcesave, dodbsave>> /\ pc = "write"
    BY <1>17 DEF Backup, cache, loop
  <2>2. Owed(i) /\ SaveComing(i)
    BY <1>4, <2>1 DEF Owed, Filled
  <2>3. backupdb(cur) \/ i # cur
    BY <2>2 DEF Owed, backupdb, SaveInv
  <2>4. /\ backupdb(cur) => pc' = "create" /\ cur' = cur
        /\ ~backupdb(cur) => pc' = "walk"
    BY <1>17 DEF Backup
  <2> QED BY <2>1, <2>2, <2>3, <2>4 DEF SaveComing
<1>13. CASE Write \/ FlushWrite
  <2>1. /\ file' = [file EXCEPT ![cur] = Saved(node[cur].data)]
        /\ UNCHANGED <<list, node, todo, forcesave, dodbsave>> /\ cur \in Iface
    BY <1>13 DEF Write, FlushWrite, writedb, cache, loop, SaveInv, CountInv, Walking, Saving
  <2>2. i # cur
    BY <2>1 DEF Owed, Saved, FileInv
  <2>3. Owed(i)
    BY <2>1, <2>2 DEF Owed, Filled, FileInv
  <2>4. (pc = "create" /\ pc' = "walk") \/ (pc = "flushcreate" /\ pc' = "flush")
    BY <1>13 DEF Write, FlushWrite
  <2> QED BY <1>4, <2>1, <2>2, <2>3, <2>4 DEF SaveComing
<1>14. CASE Sleep
  <2>1. PICK t \in {0, 1} : Passes(t)
    BY <1>14 DEF Sleep
  <2>2. pc = "sleep" /\ UNCHANGED <<list, todo, cur, forcesave, dodbsave>>
    BY <1>14 DEF Sleep
  <2>3. node'[i].filled = node[i].filled /\ node'[i].data.active = node[i].data.active
    BY <2>1 DEF Passes, Aged, FileInv, Node, Data
  <2>4. file[i] # None => file'[i].active = file[i].active
    BY <2>1 DEF Passes, Aged, FileInv, GoodData, Data
  <2>5. file[i] # None
    BY <2>1, AgeNothingNew DEF Owed
  <2>6. Owed(i)
    BY <2>2, <2>3, <2>4, <2>5 DEF Owed, Filled
  <2> QED BY <1>4, <2>2, <2>6 DEF SaveComing
<1> QED
  BY <1>5, <1>6, <1>7, <1>8, <1>9, <1>10, <1>11, <1>12, <1>13, <1>14, <1>15, <1>16, <1>17
     DEF SteadyNext, Loop, Visit

\* The extra save that cfg.savestatus asks for when an interface is enabled
\* again is on its way until the file says so too, across flushes, rescans and
\* a pass under way.
THEOREM EnableSavedAlways == SteadySpec => []EnableSaved
<1>1. CASE SaveOnStatusChange
  <2>1. Init => SaveInv
    BY <1>1, EnableInit
  <2>2. FileInv /\ CountInv /\ SaveInv /\ [SteadyNext]_vars => SaveInv'
    BY <1>1, EnableNext
  <2>3. CountInv /\ SaveInv => EnableSaved
    BY DEF SaveInv, EnableSaved, Owed, Filled, CountInv, Walking
  <2>4. [SteadyNext]_vars => [SteadyNext \/ Fault]_vars
    OBVIOUS
  <2>5. CountInv /\ [SteadyNext]_vars => CountInv'
    BY CountNext DEF Next
  <2> QED
    BY CountInit, FileInit, FileNext, SavingInit, SavingNext, <2>1, <2>2, <2>3, <2>4, <2>5,
       PTL DEF SteadySpec
<1>2. CASE ~SaveOnStatusChange
  <2>1. EnableSaved
    BY <1>2 DEF EnableSaved
  <2> QED BY <2>1, PTL
<1> QED BY <1>1, <1>2

-----------------------------------------------------------------------------
(***************************************************************************)
(* Types, under all faults and clocks.                                     *)
(***************************************************************************)

\* The flags of the loop and of its environment.
FlagTypes ==
    /\ pc \in {"top", "due", "walk", "save", "write", "create", "sleep", "signal", "clear",
               "flush", "flushcreate", "down"}
    /\ intsignal \in Signals \cup {"Scanned", None}
    /\ dbhash = None \/ dbhash \in SUBSET Iface
    /\ forcesave \in BOOLEAN /\ dodbsave \in BOOLEAN /\ running \in BOOLEAN
    /\ updateinterval \in {0, UpdateInterval, RescanInterval}
    /\ present \subseteq Iface /\ lookup \in BOOLEAN /\ disk \in BOOLEAN
    /\ signals \in 0..MaxSignals

\* The records in the cache and in the files.
RecordTypes ==
    /\ node \in [Iface -> Node]
    /\ DOMAIN file = Iface /\ \A i \in Iface : file[i] = None \/ file[i] \in Data

\* The timers: no further in the future than the clock was set back.
TimerTypes ==
    /\ back \in 0..MaxBack
    /\ sinceUpdate \in (back - MaxBack)..(RescanInterval + MaxBack)
    /\ sinceSave \in (back - MaxBack)..(OfflineSaveInterval + MaxBack)

UnsavedTypes == unsaved \in [Iface -> 0..(MaxUnsaved + 1)]

\* Initially everything has its type.
LEMMA TypesInit == Init => FlagTypes /\ RecordTypes /\ TimerTypes /\ UnsavedTypes
<1> SUFFICES ASSUME Init PROVE FlagTypes /\ RecordTypes /\ TimerTypes /\ UnsavedTypes
  OBVIOUS
<1>1. FlagTypes
  <2>1. MaxSignals \in 0..MaxSignals
    BY DaemonAssumption
  <2> QED BY <2>1 DEF Init, FlagTypes
<1>2. RecordTypes
  BY UnfilledNode, GoodNewData DEF Init, RecordTypes, GoodData
<1>3. TimerTypes
  BY DaemonAssumption DEF Init, TimerTypes, OldUpdate, OldSave, Old
<1>4. UnsavedTypes
  BY DaemonAssumption DEF Init, UnsavedTypes, MaxUnsaved
<1> QED BY <1>1, <1>2, <1>3, <1>4

\* The flags keep their types.
LEMMA FlagNext == FlagTypes /\ [Next]_vars => FlagTypes'
<1> SUFFICES ASSUME FlagTypes, [Next]_vars PROVE FlagTypes'
  OBVIOUS
<1>1. CASE Signal
  BY <1>1, DaemonAssumption DEF Signal, sighandler, FlagTypes, loop, world
<1>2. CASE InterfaceChange
  BY <1>2 DEF InterfaceChange, Appear, Vanish, FlagTypes, loop
<1>9. CASE Fault
  BY <1>9 DEF Fault, LookupChange, DiskChange, FlagTypes, loop
<1>10. CASE FileChange \/ Clock \/ UNCHANGED vars
  BY <1>10 DEF FileChange, Clock, Delete, Create, ClockBack, FlagTypes, loop, world, vars
<1>3. CASE Start \/ Kill \/ ScanFails \/ \E i \in Iface : GiveUp(i)
  BY <1>3 DEF Start, Kill, ScanFails, GiveUp, Dead, FlagTypes, loop, world
<1>4. CASE Top
  BY <1>4 DEF Top, dbcheck, dbcheckChanged, dbcheckFails, FlagTypes, world
<1>5. CASE Begin
  BY <1>5 DEF Begin, FlagTypes, SaveDue, world
<1>6. ASSUME NEW i \in Iface, Update(i) \/ Skip(i) \/ ReadFails(i) PROVE FlagTypes'
  BY <1>6 DEF Update, Skip, ReadFails, NoteRead, FlagTypes, loop, world
<1>7. CASE NotDue \/ Scan \/ Check \/ Remove \/ Backup \/ Write \/ PassDone
  BY <1>7 DEF NotDue, Scan, Check, Remove, Backup, Write, PassDone, FlagTypes, loop, world
<1>8. CASE Sleep \/ Hup \/ Terminate \/ Ignore \/ Clear
  BY <1>8 DEF Sleep, Hup, Terminate, Ignore, Clear, Repeat, FlagTypes, loop, world
<1>11. CASE FlushWrite \/ HupDone \/ Exit \/ \E i \in Iface : FlushNode(i)
  BY <1>11 DEF FlushNode, FlushWrite, HupDone, Exit, FlagTypes, loop, world
<1> QED
  BY <1>1, <1>2, <1>3, <1>4, <1>5, <1>6, <1>7, <1>8, <1>9, <1>10, <1>11 DEF Next, SteadyNext, Loop, Visit

\* Ageing a record, in either direction, leaves a record.
LEMMA AgedData ==
    ASSUME NEW d \in Data, NEW t \in Int PROVE Aged(d, t) \in Data
<1> DEFINE l == OldRecord(d.last + t)
<1>1. l \in RecordAge
  BY DaemonAssumption DEF Data, RecordAge, OldRecord, Old
<1>2. Aged(d, t) = [real |-> d.real, valid |-> d.valid, active |-> d.active, last |-> l]
  BY DEF Aged, Data
<1> HIDE DEF l
<1> QED BY <1>1, <1>2 DEF Data

\* So the passing of time keeps the types of all records.
LEMMA TimeRecords == ASSUME RecordTypes, NEW t \in Int, Passes(t) PROVE RecordTypes'
<1>1. DOMAIN file' = Iface /\ \A i \in Iface : file'[i] = None \/ file'[i] \in Data
  BY AgedData DEF Passes, RecordTypes
<1>2. ASSUME NEW i \in Iface PROVE node'[i] \in Node
  <2>1. node[i] \in Node /\ Aged(node[i].data, t) \in Data
    BY AgedData DEF RecordTypes, Node
  <2> QED BY <2>1 DEF Passes, Node
<1>3. node' = [i \in Iface |-> node'[i]]
  BY DEF Passes
<1> QED BY <1>1, <1>2, <1>3 DEF RecordTypes

\* The records keep their types.
LEMMA RecordNext == RecordTypes /\ CountInv /\ [Next]_vars => RecordTypes'
<1> SUFFICES ASSUME RecordTypes, CountInv, [Next]_vars PROVE RecordTypes'
  OBVIOUS
<1>a. NewData \in Data
  BY GoodNewData DEF GoodData
<1>1. CASE Signal \/ InterfaceChange \/ Fault \/ NotDue \/ Begin \/ Check \/ Backup \/ PassDone
           \/ Hup \/ Terminate \/ Ignore \/ Clear \/ (\E i \in Iface : FlushNode(i)) \/ UNCHANGED vars
  <2>1. UNCHANGED <<node, file>>
    BY <1>1 DEF Signal, sighandler, InterfaceChange, Appear, Vanish, Fault, LookupChange,
                DiskChange, NotDue, Begin, Check, Backup, PassDone, Hup, Terminate, Ignore, Clear,
                FlushNode, cache, vars
  <2> QED BY <2>1 DEF RecordTypes
<1>2. CASE FileChange
  <2>1. PICK i \in Iface : Delete(i) \/ Create(i)
    BY <1>2 DEF FileChange
  <2>2. UNCHANGED node /\ \/ file' = [file EXCEPT ![i] = None]
                          \/ file' = [file EXCEPT ![i] = NewData]
    BY <2>1 DEF Delete, Create, cache
  <2> QED BY <1>a, <2>2 DEF RecordTypes
<1>3. CASE Clock
  <2>1. PICK s \in 1..MaxBack : Passes(-s)
    BY <1>3 DEF Clock, ClockBack
  <2> QED BY <2>1, TimeRecords, DaemonAssumption
<1>4. CASE Start \/ Kill \/ Scan \/ ScanFails \/ \E i \in Iface : GiveUp(i)
  <2>1. node' = [i \in Iface |-> Unfilled]
    BY <1>4 DEF Start, Kill, Scan, ScanFails, GiveUp, Dead
  <2>2. \/ UNCHANGED file
        \/ \E added : file' = [i \in Iface |-> IF i \in added THEN NewData ELSE None]
    BY <1>4 DEF Start, addinterfaces, Kill, Scan, ScanFails, GiveUp
  <2> QED BY <1>a, <2>1, <2>2, UnfilledNode DEF RecordTypes
<1>5. CASE Top
  <2>1. CASE UNCHANGED node
    BY <1>5, <2>1 DEF Top, RecordTypes
  <2>2. CASE dbcheckChanged
    <3> DEFINE looked(i) == [node[i] EXCEPT !.data.active = Visible(i)]
    <3>1. /\ node' = [i \in Iface |-> IF i \in Changed THEN looked(i) ELSE node[i]]
          /\ UNCHANGED file
      BY <1>5, <2>2 DEF Top, dbcheckChanged
    <3>2. ASSUME NEW i \in Iface PROVE looked(i) \in Node
      BY DEF RecordTypes, Node, Data, Visible
    <3> HIDE DEF looked
    <3> QED BY <3>1, <3>2 DEF RecordTypes
  <2> QED BY <1>5, <2>1, <2>2 DEF Top, dbcheck, dbcheckFails
<1>6. ASSUME NEW i \in Iface, Update(i) \/ Skip(i) \/ ReadFails(i) PROVE RecordTypes'
  <2>1. ASSUME NEW f \in BOOLEAN, NEW d \in Data, UNCHANGED file,
               node' = [node EXCEPT ![i] = [filled |-> f, data |-> d]]
        PROVE  RecordTypes'
    BY <2>1 DEF RecordTypes, Node
  <2>2. Record(i) \in Data
    BY <1>a DEF Record, RecordTypes, Node
  <2>3. CASE Update(i)
    <3>1. Updated(i) \in Data
      BY <2>2, DaemonAssumption DEF Updated, Data, RecordAge, Visible
    <3> QED BY <2>1, <2>3, <3>1 DEF Update
  <2>4. CASE Skip(i)
    <3>1. ASSUME NEW v \in BOOLEAN, NEW l \in RecordAge PROVE Uninitialised(v, l) \in Data
      BY DEF Uninitialised, Data
    <3>2. \/ UNCHANGED node
          \/ \E v \in BOOLEAN, l \in RecordAge :
                node' = [node EXCEPT ![i] = [filled |-> TRUE, data |-> Uninitialised(v, l)]]
      BY <2>4 DEF Skip, Garbage
    <3>3. UNCHANGED file
      BY <2>4 DEF Skip
    <3> QED BY <2>1, <3>1, <3>2, <3>3 DEF RecordTypes
  <2>5. CASE ReadFails(i)
    BY <2>1, <2>5 DEF ReadFails, RecordTypes, Node
  <2> QED BY <1>6, <2>3, <2>4, <2>5
<1>7. CASE Remove
  BY <1>7, UnfilledNode DEF Remove, RecordTypes
<1>8. CASE Write \/ FlushWrite
  <2>1. UNCHANGED node /\ cur \in Iface
    BY <1>8 DEF Write, FlushWrite, cache, CountInv, Walking, Saving
  <2>2. Saved(node[cur].data) \in Data
    BY <2>1, DaemonAssumption DEF Saved, RecordTypes, Node, Data, RecordAge
  <2>3. file' = file \/ file' = [file EXCEPT ![cur] = Saved(node[cur].data)]
    BY <1>8 DEF Write, FlushWrite, writedb
  <2> QED BY <2>1, <2>2, <2>3 DEF RecordTypes
<1>9. CASE Sleep
  BY <1>9, TimeRecords DEF Sleep
<1>10. CASE HupDone \/ Exit
  BY <1>10, UnfilledNode DEF HupDone, Exit, cacheflush, RecordTypes
<1> QED
  BY <1>1, <1>2, <1>3, <1>4, <1>5, <1>6, <1>7, <1>8, <1>9, <1>10
     DEF Next, SteadyNext, Loop, Visit

\* The timers keep their ranges.
LEMMA TimerNext == TimerTypes /\ [Next]_vars => TimerTypes'
<1> SUFFICES ASSUME TimerTypes, [Next]_vars PROVE TimerTypes'
  OBVIOUS
<1> USE DaemonAssumption
<1>1. ASSUME UNCHANGED <<back, sinceUpdate, sinceSave>> PROVE TimerTypes'
  BY <1>1 DEF TimerTypes
<1>2. CASE Signal \/ InterfaceChange \/ Fault \/ FileChange \/ UNCHANGED vars
  BY <1>1, <1>2 DEF Signal, sighandler, InterfaceChange, Appear, Vanish, Fault, LookupChange,
                    DiskChange, FileChange, Delete, Create, loop, world, vars
<1>3. CASE Clock
  <2>1. PICK s \in 1..MaxBack : ClockBack(s)
    BY <1>3 DEF Clock
  <2> QED BY <2>1 DEF ClockBack, Passes, TimerTypes, OldUpdate, OldSave, Old
<1>4. CASE Start
  BY <1>4 DEF Start, world, TimerTypes, OldUpdate, OldSave, Old
<1>5. CASE Kill \/ ScanFails \/ \E i \in Iface : GiveUp(i)
  BY <1>1, <1>5 DEF Kill, ScanFails, GiveUp, Dead, loop, world
<1>6. CASE Top \/ NotDue \/ Check \/ Remove \/ Backup \/ Write \/ PassDone
  BY <1>1, <1>6 DEF Top, NotDue, Check, Remove, Backup, Write, PassDone, loop, world
<1>7. CASE Scan \/ Begin
  BY <1>7 DEF Scan, Begin, world, TimerTypes
<1>8. ASSUME NEW i \in Iface, Update(i) \/ Skip(i) \/ ReadFails(i) PROVE TimerTypes'
  BY <1>1, <1>8 DEF Update, Skip, ReadFails, loop, world
<1>9. CASE Sleep
  BY <1>9 DEF Sleep, Passes, world, TimerTypes, OldUpdate, OldSave, Old
<1>10. CASE Hup \/ Terminate \/ Ignore \/ Clear
  BY <1>1, <1>10 DEF Hup, Terminate, Ignore, Clear, loop, world
<1>11. CASE FlushWrite \/ HupDone \/ Exit \/ \E i \in Iface : FlushNode(i)
  BY <1>1, <1>11 DEF FlushNode, FlushWrite, HupDone, Exit, loop, world
<1> QED
  BY <1>2, <1>3, <1>4, <1>5, <1>6, <1>7, <1>8, <1>9, <1>10, <1>11 DEF Next, SteadyNext, Loop, Visit

\* So does the time since a record was saved.
LEMMA UnsavedNext == UnsavedTypes /\ [Next]_vars => UnsavedTypes'
<1> SUFFICES ASSUME UnsavedTypes, [Next]_vars PROVE UnsavedTypes'
  OBVIOUS
<1>1. MaxUnsaved \in Nat
  BY DaemonAssumption DEF MaxUnsaved
<1>2. ASSUME UNCHANGED unsaved PROVE UnsavedTypes'
  BY <1>2 DEF UnsavedTypes
<1>3. ASSUME NEW i, unsaved' = [unsaved EXCEPT ![i] = 0] PROVE UnsavedTypes'
  <2>1. unsaved' = [j \in Iface |-> IF j = i THEN 0 ELSE unsaved[j]]
    BY <1>3, Zenon DEF UnsavedTypes
  <2> QED BY <1>1, <2>1 DEF UnsavedTypes
<1>4. CASE Signal \/ InterfaceChange \/ Fault \/ Clock \/ Start \/ UNCHANGED vars
  BY <1>2, <1>4 DEF Signal, sighandler, InterfaceChange, Appear, Vanish, Fault, LookupChange,
                    DiskChange, Clock, ClockBack, Start, vars
<1>5. CASE FileChange
  BY <1>2, <1>3, <1>5 DEF FileChange, Delete, Create
<1>6. CASE Kill \/ ScanFails \/ (\E i \in Iface : GiveUp(i)) \/ HupDone \/ Exit
  <2>1. unsaved' = [i \in Iface |-> 0]
    BY <1>6 DEF Kill, ScanFails, GiveUp, Dead, HupDone, Exit, cacheflush
  <2> QED BY <1>1, <2>1 DEF UnsavedTypes
<1>7. CASE Top \/ NotDue \/ Scan \/ Begin \/ Check \/ Backup \/ PassDone
  BY <1>2, <1>7 DEF Top, NotDue, Scan, Begin, Check, Backup, PassDone
<1>8. ASSUME NEW i \in Iface, Update(i) \/ Skip(i) \/ ReadFails(i) PROVE UnsavedTypes'
  BY <1>1, <1>8 DEF Update, Skip, ReadFails, UnsavedTypes
<1>9. CASE Remove \/ Write \/ FlushWrite
  BY <1>2, <1>3, <1>9 DEF Remove, Write, FlushWrite, writedb
<1>10. CASE Sleep
  <2>1. PICK t \in {0, 1} : unsaved' = [i \in Iface |-> IF i \in Filled
                                         THEN OldUnsaved(unsaved[i] + t) ELSE 0]
    BY <1>10 DEF Sleep
  <2>2. ASSUME NEW i \in Iface PROVE OldUnsaved(unsaved[i] + t) \in 0..(MaxUnsaved + 1)
    BY <1>1 DEF OldUnsaved, UnsavedTypes
  <2> QED BY <1>1, <2>1, <2>2 DEF UnsavedTypes
<1>11. CASE Hup \/ Terminate \/ Ignore \/ Clear \/ \E i \in Iface : FlushNode(i)
  BY <1>2, <1>11 DEF Hup, Terminate, Ignore, Clear, FlushNode
<1> QED
  BY <1>4, <1>5, <1>6, <1>7, <1>8, <1>9, <1>10, <1>11 DEF Next, SteadyNext, Loop, Visit

\* A list whose count is right has no more nodes than there are interfaces.
LEMMA CountRange == CountInv => dbcount \in 0..Cardinality(Iface)
<1> SUFFICES ASSUME CountInv PROVE dbcount \in 0..Cardinality(Iface)
  OBVIOUS
<1>1. list \subseteq Iface /\ dbcount = Cardinality(list)
  BY DEF CountInv, Walking, DbCount
<1> QED BY <1>1, DaemonAssumption, ListFinite, FS_Subset, FS_CardinalityType

\* Every variable keeps its type, whatever fails and however the clock goes;
\* the node that a pass has in hand is always one of the list.
THEOREM TypeCorrect == Spec => []TypeOK
<1>1. FlagTypes /\ RecordTypes /\ TimerTypes /\ UnsavedTypes /\ CountInv /\ HandEmpty /\ GoneInv
       => TypeOK
  <2> SUFFICES ASSUME FlagTypes, RecordTypes, TimerTypes, UnsavedTypes, CountInv, HandEmpty,
                      GoneInv
               PROVE  TypeOK
    OBVIOUS
  <2>1. sinceUpdate \in (-MaxBack)..(RescanInterval + MaxBack)
        /\ sinceSave \in (-MaxBack)..(OfflineSaveInterval + MaxBack)
        /\ back \in 0..MaxBack
    BY DaemonAssumption DEF TimerTypes
  <2>2. list \subseteq Iface /\ todo \subseteq list /\ cur \in list \cup {None}
    BY DEF CountInv, Walking, HandEmpty
  <2> QED BY <2>1, <2>2, CountRange DEF TypeOK, FlagTypes, RecordTypes, UnsavedTypes, GoneInv
<1>2. Init => HandEmpty
  BY DEF Init, HandEmpty, Saving
<1> QED
  BY <1>1, <1>2, TypesInit, CountInit, CountNext, FlagNext, RecordNext, TimerNext, UnsavedNext,
     HandNext, GoneInit, GoneNext, PTL DEF Spec
-----------------------------------------------------------------------------
(***************************************************************************)
(* How far the file may be behind the cache, while the disk works and the  *)
(* clock is not set back.                                                  *)
(***************************************************************************)

\* The save that this pass has begun has still to come to node i.
Pending(i) == dodbsave /\ InPass /\ i \in todo \cup {cur}

\* A node whose save is not under way has been there, unsaved, for no longer
\* than the last pass can explain: that pass did not save, so that the save
\* timer, which started no later than the node's last save, was not up.
Timely(i) ==
    /\ unsaved[i] <= MaxUnsaved
    /\ ~Pending(i) =>
          /\ unsaved[i] <= OfflineSaveInterval - 1 + sinceUpdate
          /\ sinceSave >= OfflineSaveInterval \/ unsaved[i] <= sinceSave
          /\ SaveOnStatusChange /\ unsaved[i] > SaveInterval - 1 + sinceUpdate
                => ActiveNodes = {} \/ forcesave

\* The timers that matter while records are cached: a pass takes no time, and
\* the next one is never late.
Punctual ==
    /\ sinceSave \in Nat /\ sinceUpdate \in Nat
    /\ InPass => updateinterval = UpdateInterval /\ sinceUpdate = 0
    /\ Filled # {} => /\ updateinterval = UpdateInterval
                      /\ sinceUpdate <= UpdateInterval
                      /\ pc = "sleep" => sinceUpdate < UpdateInterval

\* A node that was not filled counts as active.
UnfilledActive == \A i \in Iface : ~node[i].filled => node[i].data.active

FreshInv == Punctual /\ UnfilledActive /\ \A i \in Filled : file[i] # None => Timely(i)

\* Initially nothing is cached.
LEMMA FreshInit == Init => FreshInv
<1> SUFFICES ASSUME Init PROVE FreshInv
  OBVIOUS
<1>1. Filled = {} /\ ~InPass
  BY DEF Init, Filled, InPass
<1>2. sinceSave \in Nat /\ sinceUpdate \in Nat
  BY DaemonAssumption DEF Init, OldUpdate, OldSave, Old
<1>3. UnfilledActive
  BY DEF Init, UnfilledActive, Unfilled, Uninitialised
<1> QED BY <1>1, <1>2, <1>3 DEF FreshInv, Punctual
\* What a step leaves a record as late as it was.
LEMMA StillTimely ==
    ASSUME NEW i \in Iface, Timely(i), Pending(i) => Pending(i)',
           UNCHANGED <<sinceUpdate, sinceSave>>, unsaved'[i] = unsaved[i],
           ActiveNodes' \subseteq ActiveNodes, forcesave => forcesave'
    PROVE  Timely(i)'
  BY DEF Timely

\* A record that has just been saved, or read, is not late at all.
LEMMA TimelyNow ==
    ASSUME NEW i \in Iface, unsaved'[i] = 0, sinceUpdate' \in Nat, sinceSave' \in Nat
    PROVE  Timely(i)'
<1>1. PICK u \in Nat, v \in Nat : sinceUpdate' = u /\ sinceSave' = v
  OBVIOUS
<1>2. /\ MaxUnsaved >= 0
      /\ OfflineSaveInterval - 1 + u >= 0
      /\ ~(0 > SaveInterval - 1 + u)
  BY DaemonAssumption DEF MaxUnsaved
<1> QED BY <1>1, <1>2 DEF Timely

\* The timers stay in step with the passes.
LEMMA PunctualNext ==
    ASSUME Punctual, CountInv, FileInv, [SteadyNext]_vars
    PROVE  Punctual'
<1> USE DaemonAssumption
<1>1. ASSUME UNCHANGED <<updateinterval, sinceUpdate, sinceSave>>, Filled' \subseteq Filled,
             InPass' => InPass, pc' = "sleep" => pc = "sleep" \/ InPass
      PROVE  Punctual'
  BY <1>1 DEF Punctual
<1>2. ASSUME sinceUpdate' \in Nat, sinceSave' \in Nat, Filled' = {}, ~InPass' PROVE Punctual'
  BY <1>2 DEF Punctual
<1>3. ASSUME node' = [j \in Iface |-> Unfilled] PROVE Filled' = {}
  <2>1. ASSUME NEW j \in Filled' PROVE j \in Iface /\ node'[j].filled
    BY <2>1, CountNext DEF Filled, CountInv, Walking, Next
  <2> QED BY <1>3, <2>1, UnfilledNode
<1>4. CASE Signal \/ InterfaceChange \/ FileChange \/ UNCHANGED vars
  <2>1. UNCHANGED <<pc, list, node, updateinterval, sinceUpdate, sinceSave>>
    BY <1>4 DEF Signal, sighandler, InterfaceChange, Appear, Vanish, FileChange, Delete, Create,
                cache, loop, vars
  <2> QED BY <1>1, <2>1 DEF Filled, InPass
<1>5. CASE Start
  <2>1. pc' = "top" /\ Filled' = {}
    BY <1>3, <1>5 DEF Start
  <2>2. sinceUpdate' \in Nat /\ sinceSave' \in Nat
    BY <1>5 DEF Start, OldUpdate, OldSave, Old
  <2> QED BY <1>2, <2>1, <2>2 DEF InPass
<1>6. CASE Kill \/ ScanFails \/ \E j \in Iface : GiveUp(j)
  <2>1. pc' = "down" /\ Filled' = {} /\ UNCHANGED <<sinceUpdate, sinceSave>>
    BY <1>3, <1>6 DEF Kill, ScanFails, GiveUp, Dead, loop
  <2> QED BY <1>2, <2>1 DEF InPass, Punctual
<1>7. CASE Scan
  <2>1. pc' = "sleep" /\ Filled' = {} /\ sinceUpdate' = sinceUpdate /\ sinceSave' \in {0, sinceSave}
    BY <1>3, <1>7 DEF Scan
  <2> QED BY <1>2, <2>1 DEF InPass, Punctual
<1>8. CASE HupDone \/ Exit
  <2>1. pc' \in {"clear", "down"} /\ Filled' = {} /\ UNCHANGED <<sinceUpdate, sinceSave>>
    BY <1>3, <1>8 DEF HupDone, Exit, cacheflush, loop
  <2> QED BY <1>2, <2>1 DEF InPass, Punctual
<1>9. CASE Top
  <2>1. pc = "top" /\ pc' = "due" /\ UNCHANGED <<list, updateinterval, sinceUpdate, sinceSave>>
    BY <1>9 DEF Top
  <2>2. Filled' \subseteq Filled
    <3>1. CASE UNCHANGED node
      BY <2>1, <3>1 DEF Filled
    <3>2. CASE dbcheckChanged
      <4>1. ASSUME NEW j \in Iface PROVE node'[j].filled = node[j].filled
        BY <3>2 DEF dbcheckChanged, FileInv, Node
      <4> QED BY <2>1, <4>1 DEF Filled, CountInv, Walking
    <3> QED BY <1>9, <3>1, <3>2 DEF Top, dbcheck, dbcheckFails
  <2> QED BY <1>1, <2>1, <2>2 DEF InPass
<1>10. CASE NotDue
  <2>1. /\ pc = "due" /\ pc' = "sleep" /\ ~(sinceUpdate >= updateinterval)
        /\ UNCHANGED <<list, node, updateinterval, sinceUpdate, sinceSave>>
    BY <1>10 DEF NotDue, Due, cache, loop
  <2> QED BY <2>1 DEF Punctual, Filled, InPass
<1>11. CASE Begin
  <2>1. /\ pc' = "walk" /\ updateinterval' = UpdateInterval /\ sinceUpdate' = 0
        /\ sinceSave' \in {0, sinceSave}
    BY <1>11 DEF Begin
  <2> QED BY <2>1 DEF Punctual
<1>12. ASSUME NEW j \in Iface, Update(j) \/ Skip(j) \/ ReadFails(j) PROVE Punctual'
  <2>1. /\ InPass /\ pc' # "sleep" /\ UNCHANGED <<updateinterval, sinceUpdate, sinceSave>>
    BY <1>12 DEF Update, Skip, ReadFails, InPass, loop
  <2> QED BY <2>1 DEF Punctual
<1>13. CASE Check \/ Remove \/ Backup \/ Write \/ PassDone
  <2>1. InPass /\ UNCHANGED <<updateinterval, sinceUpdate, sinceSave>>
    BY <1>13 DEF Check, Remove, Backup, Write, PassDone, InPass, loop
  <2> QED BY <2>1 DEF Punctual
<1>14. CASE Sleep
  <2>1. PICK t \in {0, 1} : Passes(t)
    BY <1>14 DEF Sleep
  <2>2. pc = "sleep" /\ pc' \in {"top", "signal"} /\ UNCHANGED <<list, updateinterval>>
    BY <1>14 DEF Sleep
  <2>3. Filled' = Filled
    <3>1. ASSUME NEW j \in Iface PROVE node'[j].filled = node[j].filled
      BY <2>1 DEF Passes, FileInv, Node
    <3> QED BY <2>2, <3>1 DEF Filled, CountInv, Walking
  <2>4. sinceSave' \in Nat /\ sinceUpdate' \in Nat /\ sinceUpdate' <= sinceUpdate + t
    BY <2>1 DEF Passes, Punctual, OldSave, OldUpdate, Old
  <2> QED BY <2>2, <2>3, <2>4 DEF Punctual, InPass
<1>15. CASE Hup \/ Terminate \/ Ignore \/ Clear \/ FlushWrite \/ \E j \in Iface : FlushNode(j)
  <2>1. /\ pc' \in {"clear", "top", "flush", "flushcreate"}
        /\ UNCHANGED <<list, node, updateinterval, sinceUpdate, sinceSave>>
    BY <1>15 DEF Hup, Terminate, Ignore, Clear, Repeat, FlushWrite, FlushNode, cache, loop
  <2> QED BY <1>1, <2>1 DEF Filled, InPass
<1> QED
  BY <1>4, <1>5, <1>6, <1>7, <1>8, <1>9, <1>10, <1>11, <1>12, <1>13, <1>14, <1>15
     DEF SteadyNext, Loop, Visit
\* Nodes that have not been filled count as active.
LEMMA UnfilledNext ==
    ASSUME UnfilledActive, CountInv, FileInv, disk, [SteadyNext]_vars
    PROVE  UnfilledActive'
<1>1. ASSUME UNCHANGED node PROVE UnfilledActive'
  BY <1>1 DEF UnfilledActive
<1>2. ASSUME node' = [j \in Iface |-> Unfilled] PROVE UnfilledActive'
  BY <1>2 DEF UnfilledActive, Unfilled, Uninitialised
<1>3. CASE Signal \/ InterfaceChange \/ FileChange \/ NotDue \/ Begin \/ Check \/ Backup
           \/ Write \/ PassDone \/ Hup \/ Terminate \/ Ignore \/ Clear
           \/ (\E j \in Iface : FlushNode(j)) \/ FlushWrite \/ UNCHANGED vars
  BY <1>1, <1>3 DEF Signal, sighandler, InterfaceChange, Appear, Vanish, FileChange, Delete,
                    Create, NotDue, Begin, Check, Backup, Write, PassDone, Hup, Terminate, Ignore,
                    Clear, FlushNode, FlushWrite, cache, vars
<1>4. CASE Start \/ Kill \/ Scan \/ ScanFails \/ HupDone \/ Exit \/ \E j \in Iface : GiveUp(j)
  BY <1>2, <1>4 DEF Start, Kill, Scan, ScanFails, HupDone, Exit, GiveUp, Dead, cacheflush
<1>5. CASE Top
  <2>1. CASE dbcheckChanged
    <3>1. ASSUME NEW j \in Iface
          PROVE  node'[j] = node[j] \/ (node[j].filled /\ node'[j].filled)
      BY <2>1 DEF dbcheckChanged, Changed, Filled, FileInv, Node
    <3> QED BY <3>1 DEF UnfilledActive
  <2> QED BY <1>1, <1>5, <2>1 DEF Top, dbcheck, dbcheckFails
<1>6. ASSUME NEW j \in Iface, Update(j) PROVE UnfilledActive'
  BY <1>6 DEF Update, UnfilledActive, FileInv
<1>7. ASSUME NEW j \in Iface PROVE ~Skip(j) /\ ~ReadFails(j)
  BY GoodRecord DEF Skip, ReadFails
<1>8. CASE Remove
  BY <1>8 DEF Remove, UnfilledActive, FileInv, Unfilled, Uninitialised
<1>9. CASE Sleep
  <2>1. PICK t \in {0, 1} : Passes(t)
    BY <1>9 DEF Sleep
  <2> QED BY <2>1 DEF Passes, UnfilledActive
<1> QED
  BY <1>3, <1>4, <1>5, <1>6, <1>7, <1>8, <1>9 DEF SteadyNext, Loop, Visit

\* No record gets later than its save allows.
LEMMA TimelyNext ==
    ASSUME FreshInv, CountInv, FileInv, HandEmpty, UnsavedTypes, disk, [SteadyNext]_vars,
           Punctual', NEW i \in Iface, i \in Filled', file'[i] # None
    PROVE  Timely(i)'
<1> USE DaemonAssumption
<1>1. i \in Filled /\ file[i] # None => Timely(i)
  BY DEF FreshInv
<1>2. Punctual /\ UnfilledActive /\ sinceUpdate \in Nat /\ sinceSave \in Nat
      /\ sinceUpdate' \in Nat /\ sinceSave' \in Nat /\ unsaved \in [Iface -> Nat]
      /\ i # None
  BY DEF FreshInv, Punctual, UnsavedTypes
<1>3. node'[i].filled /\ i \in list'
  BY DEF Filled
<1>4. ASSUME node' = [j \in Iface |-> Unfilled] PROVE FALSE
  BY <1>3, <1>4, UnfilledNode
<1>5. CASE Start \/ Kill \/ Scan \/ ScanFails \/ HupDone \/ Exit \/ \E j \in Iface : GiveUp(j)
  BY <1>4, <1>5 DEF Start, Kill, Scan, ScanFails, HupDone, Exit, GiveUp, Dead, cacheflush
<1>6. ASSUME UNCHANGED <<list, node, file, unsaved, sinceUpdate, sinceSave, forcesave>>,
             Pending(i) => Pending(i)'
      PROVE  Timely(i)'
  BY <1>1, <1>6, StillTimely DEF Filled, ActiveNodes
<1>7. CASE Signal \/ InterfaceChange \/ UNCHANGED vars
  <2>1. UNCHANGED <<pc, list, node, file, todo, cur, unsaved, sinceUpdate, sinceSave,
                    forcesave, dodbsave>>
    BY <1>7 DEF Signal, sighandler, InterfaceChange, Appear, Vanish, cache, loop, vars
  <2> QED BY <1>6, <2>1 DEF Pending, InPass
<1>8. CASE NotDue \/ Hup \/ Terminate \/ Ignore \/ Clear \/ \E j \in Iface : FlushNode(j)
  <2>1. /\ ~InPass
        /\ UNCHANGED <<list, node, file, unsaved, sinceUpdate, sinceSave, forcesave>>
    BY <1>8 DEF NotDue, Hup, Terminate, Ignore, Clear, FlushNode, cache, loop, InPass
  <2> QED BY <1>6, <2>1 DEF Pending
<1>9. CASE Check
  <2>1. /\ InPass /\ InPass'
        /\ UNCHANGED <<list, node, file, todo, cur, unsaved, sinceUpdate, sinceSave,
                       forcesave, dodbsave>>
    BY <1>9 DEF Check, cache, loop, InPass
  <2> QED BY <1>6, <2>1 DEF Pending
<1>10. CASE PassDone
  <2>1. /\ pc = "walk" /\ todo = {}
        /\ UNCHANGED <<list, node, file, unsaved, sinceUpdate, sinceSave, forcesave>>
    BY <1>10 DEF PassDone, cache, loop
  <2>2. ~Pending(i)
    BY <1>2, <2>1 DEF Pending, HandEmpty, Saving
  <2> QED BY <1>6, <2>1, <2>2
<1>11. CASE FileChange
  <2>1. PICK j \in Iface : Delete(j) \/ Create(j)
    BY <1>11 DEF FileChange
  <2>2. UNCHANGED <<pc, list, node, todo, cur, sinceUpdate, sinceSave, forcesave, dodbsave>>
    BY <2>1 DEF Delete, Create, cache, loop
  <2>3. CASE j # i
    <3>1. file'[i] = file[i] /\ unsaved'[i] = unsaved[i]
      BY <2>1, <2>3 DEF Delete, Create, FileInv, UnsavedTypes
    <3>2. Timely(i)
      BY <1>1, <2>2, <3>1 DEF Filled
    <3> QED BY <2>2, <3>1, <3>2 DEF Timely, Pending, InPass, ActiveNodes
  <2>4. CASE j = i
    <3>1. Create(i)
      BY <2>1, <2>4 DEF Delete, FileInv
    <3>2. unsaved'[i] = 0
      BY <1>2, <3>1 DEF Create
    <3> QED BY <1>2, <3>2, TimelyNow
  <2> QED BY <2>3, <2>4
<1>12. CASE Top
  <2>1. /\ ~InPass /\ UNCHANGED <<list, file, unsaved, sinceUpdate, sinceSave>>
    BY <1>12 DEF Top, InPass
  <2>2. CASE UNCHANGED <<node, forcesave>>
    BY <1>6, <2>1, <2>2 DEF Pending
  <2>3. CASE dbcheckChanged
    <3>1. \A j \in Iface : node'[j].filled = node[j].filled
      BY <2>3 DEF dbcheckChanged, FileInv, Node
    <3>2. Timely(i)
      BY <1>1, <2>1, <3>1 DEF Filled
    <3>3. CASE Changed = {}
      <4>1. \A j \in Iface : node'[j] = node[j]
        BY <2>3, <3>3 DEF dbcheckChanged
      <4>2. ActiveNodes' = ActiveNodes
        BY <2>1, <4>1 DEF ActiveNodes, CountInv, Walking
      <4>3. forcesave => forcesave'
        BY <2>3 DEF dbcheckChanged
      <4> QED BY <2>1, <3>2, <4>2, <4>3, StillTimely DEF Pending
    <3>4. CASE Changed # {}
      <4>1. SaveOnStatusChange => forcesave'
        BY <2>3, <3>4 DEF dbcheckChanged
      <4> QED BY <2>1, <3>2, <4>1 DEF Timely, Pending
    <3> QED BY <3>3, <3>4
  <2> QED BY <1>12, <2>2, <2>3 DEF Top, dbcheck, dbcheckFails
<1>13. CASE Begin
  <2>1. /\ ~InPass /\ UNCHANGED <<list, node, file, unsaved>> /\ sinceUpdate' = 0
        /\ pc' = "walk" /\ todo' = list /\ dodbsave' = SaveDue
        /\ ~SaveDue => UNCHANGED <<forcesave, sinceSave>>
    BY <1>13 DEF Begin, cache, InPass
  <2>2. i \in Filled /\ Timely(i) /\ ~Pending(i)
    BY <1>1, <2>1 DEF Filled, Pending
  <2>3. CASE SaveDue
    <3>1. Pending(i)'
      BY <2>1, <2>2, <2>3 DEF Pending, InPass, Filled
    <3> QED BY <2>1, <2>2, <3>1 DEF Timely
  <2>4. CASE ~SaveDue
    <3>1. /\ ~forcesave
          /\ sinceSave < (IF ActiveNodes # {} THEN SaveInterval ELSE OfflineSaveInterval)
      BY <1>2, <2>4 DEF SaveDue
    <3>2. unsaved[i] <= sinceSave
      BY <1>2, <2>2, <3>1 DEF Timely
    <3>3. ActiveNodes' = ActiveNodes /\ sinceSave' = sinceSave
      BY <2>1, <2>4 DEF ActiveNodes
    <3>4. /\ unsaved[i] <= OfflineSaveInterval - 1
          /\ ActiveNodes # {} => ~(unsaved[i] > SaveInterval - 1)
      BY <1>2, <3>1, <3>2
    <3> QED BY <1>2, <2>1, <2>2, <3>2, <3>3, <3>4 DEF Timely
  <2> QED BY <2>3, <2>4
<1>14. ASSUME NEW j \in Iface, Update(j) PROVE Timely(i)'
  <2>1. /\ pc = "walk" /\ j \in todo /\ UNCHANGED <<list, file, sinceUpdate, sinceSave, forcesave, dodbsave>>
        /\ node' = [node EXCEPT ![j] = [filled |-> TRUE, data |-> Updated(j)]]
        /\ todo' = todo \ {j}
        /\ IF dodbsave THEN pc' = "save" /\ cur' = j ELSE UNCHANGED <<pc, cur>>
        /\ unsaved' = [unsaved EXCEPT ![j] = IF Cached(j) THEN @ ELSE 0]
    BY <1>14 DEF Update, Visited
  <2>2. ASSUME NEW k \in Iface, k \in ActiveNodes' PROVE k \in ActiveNodes
    <3>1. k \in list /\ (k # j => node'[k] = node[k]) /\ node'[k].data.active
      BY <2>1, <2>2 DEF ActiveNodes, FileInv
    <3>2. CASE k = j
      <4>1. Record(j).active
        BY <2>1, <3>1, <3>2 DEF FileInv, Updated
      <4>2. Cached(j) => node[j].data.active
        BY <4>1 DEF Record
      <4>3. ~Cached(j) => node[j].data.active
        BY <1>2 DEF Cached, FileInv, GoodData, UnfilledActive
      <4> QED BY <3>1, <3>2, <4>2, <4>3 DEF ActiveNodes
    <3> QED BY <3>1, <3>2 DEF ActiveNodes
  <2>3. ActiveNodes' \subseteq ActiveNodes
    BY <2>1, <2>2 DEF ActiveNodes, CountInv, Walking
  <2>4. CASE i = j /\ ~Cached(j)
    <3>1. unsaved'[i] = 0
      BY <1>2, <2>1, <2>4
    <3> QED BY <1>2, <3>1, TimelyNow
  <2>5. CASE i # j \/ Cached(j)
    <3>1. unsaved'[i] = unsaved[i]
      BY <1>2, <2>1, <2>5
    <3>2. Timely(i)
      BY <1>1, <1>3, <2>1, <2>5 DEF Filled, Cached, FileInv
    <3>3. Pending(i) => Pending(i)'
      BY <1>2, <2>1 DEF Pending, InPass, HandEmpty, Saving
    <3> QED BY <2>1, <2>3, <3>1, <3>2, <3>3, StillTimely
  <2> QED BY <2>4, <2>5
<1>15. ASSUME NEW j \in Iface PROVE ~Skip(j) /\ ~ReadFails(j)
  BY GoodRecord DEF Skip, ReadFails
<1>16. CASE Remove
  <2>1. /\ pc = "save" /\ pc' = "walk" /\ cur' = None /\ cur \in Iface
        /\ list' = list \ {cur} /\ node' = [node EXCEPT ![cur] = Unfilled]
        /\ unsaved' = [unsaved EXCEPT ![cur] = 0]
        /\ UNCHANGED <<file, todo, sinceUpdate, sinceSave, forcesave, dodbsave>>
    BY <1>16 DEF Remove, loop, CountInv, Walking, Saving
  <2>2. i # cur
    BY <1>3, <2>1
  <2>3. unsaved'[i] = unsaved[i] /\ node'[i] = node[i]
    BY <1>2, <2>1, <2>2 DEF FileInv
  <2>4. Timely(i)
    BY <1>1, <1>3, <2>1, <2>2, <2>3 DEF Filled
  <2>5. Pending(i) => Pending(i)'
    BY <2>1, <2>2 DEF Pending, InPass
  <2>6. ActiveNodes' \subseteq ActiveNodes
    BY <2>1 DEF ActiveNodes, FileInv, CountInv, Walking
  <2> QED BY <2>1, <2>3, <2>4, <2>5, <2>6 DEF Timely
<1>19. CASE Backup
  <2>1. /\ pc = "write"
        /\ UNCHANGED <<list, node, file, todo, unsaved, sinceUpdate, sinceSave, forcesave, dodbsave>>
        /\ IF backupdb(cur) THEN pc' = "create" /\ cur' = cur ELSE pc' = "walk"
    BY <1>19 DEF Backup, cache, loop
  <2>2. backupdb(cur) \/ i # cur
    BY <2>1 DEF backupdb
  <2>3. Pending(i) => Pending(i)'
    BY <2>1, <2>2 DEF Pending, InPass
  <2> QED BY <1>6, <2>1, <2>3
<1>17. CASE Write \/ FlushWrite
  <2>1. /\ file' = [file EXCEPT ![cur] = Saved(node[cur].data)]
        /\ unsaved' = [unsaved EXCEPT ![cur] = 0]
        /\ UNCHANGED <<list, node, todo, sinceUpdate, sinceSave, forcesave, dodbsave>>
        /\ cur \in Iface
        /\ (pc = "create" /\ pc' = "walk") \/ (pc = "flushcreate" /\ pc' = "flush")
    BY <1>17 DEF Write, FlushWrite, writedb, cache, loop, CountInv, Walking, Saving
  <2>3. CASE i = cur
    <3>2. unsaved'[i] = 0
      BY <1>2, <2>1, <2>3
    <3> QED BY <1>2, <3>2, TimelyNow
  <2>4. CASE i # cur
    <3>1. unsaved'[i] = unsaved[i] /\ file'[i] = file[i]
      BY <1>2, <2>1, <2>4 DEF FileInv
    <3>2. Timely(i)
      BY <1>1, <2>1, <3>1 DEF Filled
    <3>3. Pending(i) => Pending(i)'
      BY <2>1, <2>4 DEF Pending, InPass
    <3>4. ActiveNodes' = ActiveNodes
      BY <2>1 DEF ActiveNodes
    <3> QED BY <2>1, <3>1, <3>2, <3>3, <3>4 DEF Timely
  <2> QED BY <2>3, <2>4
<1>18. CASE Sleep
  <2>1. PICK t \in {0, 1} : /\ Passes(t)
                            /\ unsaved' = [j \in Iface |-> IF j \in Filled
                                              THEN OldUnsaved(unsaved[j] + t) ELSE 0]
    BY <1>18 DEF Sleep
  <2>2. pc = "sleep" /\ ~InPass /\ ~InPass' /\ UNCHANGED <<list, forcesave>>
    BY <1>18 DEF Sleep, InPass
  <2>3. \A j \in Iface : /\ node'[j].filled = node[j].filled
                         /\ node'[j].data.active = node[j].data.active
    BY <2>1 DEF Passes, Aged, FileInv, Node, Data
  <2>4. i \in Filled /\ file[i] # None /\ Timely(i) /\ ~Pending(i)
    BY <1>1, <1>3, <2>1, <2>2, <2>3, AgeNothingNew DEF Filled, Pending
  <2>5. ActiveNodes' = ActiveNodes
    BY <2>2, <2>3 DEF ActiveNodes, CountInv, Walking
  <2>6. MaxUnsaved \in Nat /\ unsaved[i] \in Nat /\ unsaved'[i] = OldUnsaved(unsaved[i] + t)
    BY <1>2, <2>1, <2>4 DEF MaxUnsaved
  <2>7. /\ sinceUpdate < UpdateInterval /\ sinceUpdate' = OldUpdate(sinceUpdate + t)
        /\ sinceSave' = OldSave(sinceSave + t)
    BY <1>2, <2>1, <2>2, <2>4 DEF Passes, Punctual
  <2>8. sinceUpdate' = sinceUpdate + t /\ sinceUpdate' <= UpdateInterval
    BY <1>2, <2>7 DEF OldUpdate, Old
  <2>9. unsaved'[i] <= unsaved[i] + t /\ unsaved'[i] \in Nat
    BY <2>6 DEF OldUnsaved
  <2>10. sinceSave' >= OfflineSaveInterval \/ sinceSave' = sinceSave + t
    BY <1>2, <2>7 DEF OldSave, Old
  <2>11. /\ unsaved'[i] <= OfflineSaveInterval - 1 + sinceUpdate'
         /\ unsaved'[i] <= MaxUnsaved
         /\ sinceSave' >= OfflineSaveInterval \/ unsaved'[i] <= sinceSave'
    <3>1. /\ unsaved[i] <= OfflineSaveInterval - 1 + sinceUpdate
          /\ sinceSave >= OfflineSaveInterval \/ unsaved[i] <= sinceSave
      BY <2>4 DEF Timely
    <3>2. unsaved'[i] <= OfflineSaveInterval - 1 + (sinceUpdate + t)
      BY <1>2, <2>6, <2>9, <3>1
    <3>3. sinceSave + t >= OfflineSaveInterval \/ unsaved'[i] <= sinceSave + t
      BY <1>2, <2>6, <2>9, <3>1
    <3>4. sinceSave' >= OfflineSaveInterval \/ unsaved'[i] <= sinceSave'
      BY <1>2, <2>10, <3>3
    <3>5. OfflineSaveInterval - 1 + (sinceUpdate + t) <= MaxUnsaved
      BY <1>2, <2>8 DEF MaxUnsaved
    <3> QED BY <1>2, <2>8, <2>9, <3>2, <3>4, <3>5, <2>6
  <2>12. SaveOnStatusChange /\ unsaved'[i] > SaveInterval - 1 + sinceUpdate'
            => ActiveNodes = {} \/ forcesave
    <3>1. unsaved'[i] > SaveInterval - 1 + (sinceUpdate + t) => unsaved[i] > SaveInterval - 1 + sinceUpdate
      BY <1>2, <2>6, <2>9
    <3> QED BY <2>4, <2>8, <3>1 DEF Timely
  <2> QED BY <2>2, <2>5, <2>11, <2>12 DEF Timely
<1> QED
  BY <1>5, <1>7, <1>8, <1>9, <1>10, <1>11, <1>12, <1>13, <1>14, <1>15, <1>16, <1>17, <1>18, <1>19
     DEF SteadyNext, Loop, Visit

\* Every step keeps the saves on time.
LEMMA FreshNext ==
    ASSUME FreshInv, CountInv, FileInv, HandEmpty, UnsavedTypes, disk, [SteadyNext]_vars
    PROVE  FreshInv'
<1>1. Punctual' /\ UnfilledActive'
  BY PunctualNext, UnfilledNext DEF FreshInv
<1>2. Filled' \subseteq Iface
  BY CountNext DEF Filled, CountInv, Walking, Next
<1> QED BY <1>1, <1>2, TimelyNext DEF FreshInv

\* What a save owes the file is never older than the save interval and one
\* update interval, whatever signals, kills, deletions and status changes do
\* to the timers: the interval for offline interfaces holds only while nothing
\* is online.
THEOREM FreshAlways == SteadySpec => []Fresh
<1>1. FreshInv /\ CountInv /\ UnsavedTypes => Fresh
  <2> SUFFICES ASSUME FreshInv, CountInv, UnsavedTypes, NEW i \in Filled, file[i] # None
               PROVE  /\ unsaved[i] <= MaxUnsaved
                      /\ SaveOnStatusChange /\ unsaved[i] > MaxUnsavedOnline
                            => ActiveNodes = {} \/ SaveComing(i)
    BY DEF Fresh
  <2>1. Timely(i) /\ Punctual
    BY DEF FreshInv
  <2>2. sinceUpdate \in Nat /\ sinceUpdate <= UpdateInterval /\ unsaved[i] \in Nat
    BY <2>1, DaemonAssumption DEF Punctual, UnsavedTypes, Filled, CountInv, Walking
  <2>3. SaveOnStatusChange /\ unsaved[i] > MaxUnsavedOnline => ActiveNodes = {} \/ SaveComing(i)
    <3>1. CASE Pending(i)
      BY <3>1 DEF Pending, InPass, SaveComing
    <3>2. CASE ~Pending(i)
      <4>1. SaveInterval - 1 + sinceUpdate <= MaxUnsavedOnline
        BY <2>2, DaemonAssumption DEF MaxUnsavedOnline
      <4> QED BY <2>1, <2>2, <3>2, <4>1, DaemonAssumption DEF Timely, SaveComing, MaxUnsavedOnline
    <3> QED BY <3>1, <3>2
  <2> QED BY <2>1, <2>3 DEF Timely
<1>2. Init => UnsavedTypes /\ HandEmpty /\ disk
  BY TypesInit DEF Init, HandEmpty, Saving
<1>3. [SteadyNext]_vars => [Next]_vars /\ [SteadyNext \/ Fault]_vars
  BY DEF Next
<1>4. FreshInv /\ CountInv /\ FileInv /\ HandEmpty /\ UnsavedTypes /\ disk /\ [SteadyNext]_vars
        => FreshInv'
  BY FreshNext
<1> QED
  BY CountInit, CountNext, FileInit, FileNext, SavingInit, SavingNext, FreshInit, HandNext,
     UnsavedNext, DiskNext, <1>1, <1>2, <1>3, <1>4, PTL DEF SteadySpec
=============================================================================
