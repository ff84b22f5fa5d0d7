--------------------------------- MODULE Cli ---------------------------------
(***************************************************************************)
(* The command vnstat (vnstat.c): its arguments, read from left to right   *)
(* into flags, and the operations the flags ask for, which follow in an    *)
(* order of their own and share the name of the interface and the record   *)
(* that was read last.                                                     *)
(*                                                                         *)
(* A database has what these operations tell apart.  The output, and the   *)
(* commands that only print and return, are left out; the live monitor and *)
(* the disk report go on in modules of their own.                          *)
(***************************************************************************)
EXTENDS Arguments, Integers, Sequences, FiniteSets, SequencesExt, TLC

CONSTANTS
    Calls,          \* arguments, with the databases they meet
    Named,          \* the names in an argument of -i, of which "a+b" has two
    CfgIface        \* cfg.iface

VARIABLES
    argv, db,       \* the arguments and the databases, by file name
    pc,             \* where main is: "config", "parse", a stage, or "exit"
    arg,            \* currentarg
    o,              \* the flags
    interface,      \* the name that operations use
    files,          \* number of databases found
    merged,         \* the record is a merged one
    data,           \* whose record is in memory
    todo,           \* files the update of all has not come to
    status,         \* exit status
    measured,       \* what is measured by -tr or -l
    shown           \* ghost: whose records were shown

cvars == <<argv, db, pc, arg, o, interface, files, merged, data, todo, status, measured, shown>>

None == "none"
NoFile == [here |-> FALSE]

\* What the operations tell apart of a database.
Database ==
    [here : {TRUE}, active : BOOLEAN, curr : {"old", "zero", "now"}, top : BOOLEAN,
     total : {"counted", "rebuilt"}, updated : {"past", "now", "ahead", "far"}, nick : BOOLEAN]

ASSUME CliAssumption ==
    /\ \A name \in DOMAIN Named : Named[name] \in Seq(STRING)
    /\ \A call \in Calls : /\ call.argv \in Seq(STRING)
                           /\ IsFiniteSet(DOMAIN call.db)
                           /\ call.db \in [DOMAIN call.db -> Database \cup {NoFile}]

\* What initdb makes of a database that is not there.
NewRecord == [here |-> TRUE, active |-> TRUE, curr |-> "zero", top |-> FALSE,
              total |-> "counted", updated |-> "now", nick |-> FALSE]

Here(f) == db[f].here
Files == {f \in DOMAIN db : Here(f)}
HasPlus(name) == name \in DOMAIN Named /\ Len(Named[name]) > 1
-----------------------------------------------------------------------------
(***************************************************************************)
(* The arguments.  Of two spellings the short one stands for both.         *)
(***************************************************************************)
NoFlags ==
    [iface |-> None, given |-> FALSE, query |-> TRUE, qmode |-> 0, update |-> FALSE,
     reset |-> FALSE, sync |-> FALSE, active |-> -1, savemerged |-> FALSE, force |-> FALSE,
     cleartop |-> FALSE, rebuildtotal |-> FALSE, delete |-> FALSE, traffic |-> FALSE,
     livetraffic |-> FALSE, nick |-> FALSE, sampletime |-> 5, livemode |-> 0,
     ostyle |-> 3, rateunit |-> 1]

\* What an argument that stands alone sets.
Flag ==
       "-u"             :> [update |-> TRUE, query |-> FALSE]
    @@ "-q"             :> [query |-> TRUE]
    @@ "-da"            :> [qmode |-> 1]
    @@ "-mm"            :> [qmode |-> 2]
    @@ "-t"             :> [qmode |-> 3]
    @@ "--dumpdb"       :> [qmode |-> 4]
    @@ "-s"             :> [qmode |-> 5]
    @@ "-w"             :> [qmode |-> 6]
    @@ "-h"             :> [qmode |-> 7]
    @@ "--xml"          :> [qmode |-> 8]
    @@ "--oneline"      :> [qmode |-> 9]
    @@ "--savemerged"   :> [savemerged |-> TRUE]
    @@ "--enable"       :> [active |-> 1, query |-> FALSE]
    @@ "--disable"      :> [active |-> 0, query |-> FALSE]
    @@ "--force"        :> [force |-> TRUE]
    @@ "--cleartop"     :> [cleartop |-> TRUE]
    @@ "--rebuildtotal" :> [rebuildtotal |-> TRUE]
    @@ "--delete"       :> [delete |-> TRUE, query |-> FALSE]
    @@ "--reset"        :> [reset |-> TRUE, query |-> FALSE]
    @@ "--sync"         :> [sync |-> TRUE, query |-> FALSE]

\* Those that are done on the spot, after which vnstat returns.
Immediate == {"--help", "--testkernel", "--showconfig", "--iflist", "-v", "-z", "-zk", "-r", "-c"}

\* Those that need another argument, whatever it is.
Valued == {"-i", "--nick", "--dbdir", "--locale", "--config"}

Options == DOMAIN Flag \cup Immediate \cup Valued \cup {"--style", "-ru", "-tr", "-l", "-d"}

This == argv[arg]
More == arg < Len(argv)
Value == argv[arg + 1]
NumberNext == More /\ IsNumber(Value)

Fail == pc' = "exit" /\ status' = 1 /\ UNCHANGED <<arg, o>>
Set(flags, n) ==
    /\ o' = [x \in DOMAIN o |-> IF x \in DOMAIN flags THEN flags[x] ELSE o[x]]
    /\ arg' = arg + n
    /\ UNCHANGED <<pc, status>>
ParseUnchanged == <<argv, db, interface, files, merged, data, todo, measured, shown>>

\* The look for --config before anything else, and loadcfg, which may fail.
\* No file is called --config.
ReadConfig ==
    /\ pc = "config"
    /\ \/ /\ ~(argv # <<>> /\ Last(argv) = "--config")
          /\ pc' = "parse"
          /\ UNCHANGED <<status, arg, o>>
       \/ Fail
    /\ UNCHANGED ParseUnchanged

Parsing(options) == pc = "parse" /\ arg <= Len(argv) /\ This \in options /\ UNCHANGED ParseUnchanged

ParseFlag == Parsing(DOMAIN Flag) /\ Set(Flag[This], 1)

ParseValued ==
    /\ Parsing(Valued)
    /\ IF ~More THEN Fail
       ELSE Set(CASE This = "-i" -> [iface |-> Value, given |-> TRUE]
                  [] This = "--nick" -> [nick |-> Value # None]
                  [] OTHER -> <<>>, 2)

ParseStyle ==
    /\ Parsing({"--style"})
    /\ IF NumberNext /\ Numerals[Value] <= 4 THEN Set([ostyle |-> Numerals[Value]], 2) ELSE Fail

ParseRateUnit ==
    /\ Parsing({"-ru"})
    /\ IF ~NumberNext THEN Set([rateunit |-> IF o.rateunit = 0 THEN 1 ELSE 0], 1)
       ELSE IF Numerals[Value] <= 1 THEN Set([rateunit |-> Numerals[Value]], 2)
       ELSE Fail

ParseTraffic ==
    /\ Parsing({"-tr"})
    /\ IF NumberNext
         THEN Set([traffic |-> TRUE, query |-> FALSE, sampletime |-> Numerals[Value]], 2)
         ELSE Set([traffic |-> TRUE, query |-> FALSE], 1)

\* What follows -l is its mode, unless it begins with a dash.
ParseLive ==
    /\ Parsing({"-l"})
    /\ IF ~More \/ Value \in Options THEN Set([livetraffic |-> TRUE, query |-> FALSE], 1)
       ELSE IF IsNumber(Value) /\ Numerals[Value] <= 1
         THEN Set([livetraffic |-> TRUE, query |-> FALSE, livemode |-> Numerals[Value]], 2)
       ELSE Fail

\* Of these only the test of the kernel has a verdict.
ParseImmediate ==
    /\ Parsing(Immediate)
    /\ pc' = "exit"
    /\ status' \in IF This = "--testkernel" THEN {0, 1} ELSE {0}
    /\ UNCHANGED <<arg, o>>

\* -d: the disk report, with all arguments but the last.
ParseDisk == Parsing({"-d"}) /\ pc' = "disk" /\ UNCHANGED <<status, arg, o>>
DiskArguments == SubSeq(argv, 1, Len(argv) - 1)

ParseUnknown ==
    /\ pc = "parse" /\ arg <= Len(argv) /\ This \notin Options
    /\ Fail
    /\ UNCHANGED ParseUnchanged

Parse ==
    \/ ParseFlag \/ ParseValued \/ ParseStyle \/ ParseRateUnit \/ ParseTraffic
    \/ ParseLive \/ ParseImmediate \/ ParseUnknown

-----------------------------------------------------------------------------
(***************************************************************************)
(* The stages, in the order of main.  A stage that no flag asks for is     *)
(* passed over; main returns 0 after the last.                             *)
(***************************************************************************)
\* Variant: databases are updated before one is enabled or disabled.
StagesUpdateFirst ==
    <<"merge", "savemerged", "reset", "sync", "delete", "cleartop", "rebuildtotal",
      "update", "active", "show", "traffic", "live">>

Stages ==
    <<"merge", "savemerged", "reset", "sync", "delete", "cleartop", "rebuildtotal",
      "active", "update", "show", "traffic", "live">>

Wanted(stage, flags, name, isMerged) ==
    CASE stage = "merge"        -> flags.query /\ HasPlus(name)
      [] stage = "savemerged"   -> isMerged /\ flags.savemerged
      [] stage = "reset"        -> flags.reset
      [] stage = "sync"         -> flags.sync
      [] stage = "delete"       -> flags.delete
      [] stage = "cleartop"     -> flags.cleartop
      [] stage = "rebuildtotal" -> flags.rebuildtotal
      [] stage = "active"       -> flags.active # -1
      [] stage = "update"       -> flags.update
      [] stage = "show"         -> flags.query
      [] stage = "traffic"      -> flags.traffic
      [] stage = "live"         -> flags.livetraffic

\* Go on after stage number n with the new flags and name.
After(n) ==
    LET later == {i \in (n + 1)..Len(Stages) : Wanted(Stages[i], o', interface', merged')}
    IN IF later = {} THEN pc' = "exit"
       ELSE pc' = Stages[CHOOSE i \in later : \A j \in later : i <= j]

AtStage(stage) == pc = stage
Onward(stage) == After(CHOOSE i \in DOMAIN Stages : Stages[i] = stage) /\ UNCHANGED status
Return(s) == pc' = "exit" /\ status' = s
Keep == UNCHANGED <<argv, arg, measured>>

\* readdb: the record of f, or a new one.
Loaded(f) == IF f \in DOMAIN db /\ Here(f) THEN db[f] ELSE NewRecord
Exists(f) == f \in DOMAIN db /\ Here(f)

\* writedb, which sets the time of the last update.  Without a file there is
\* nothing to back up and nothing is written, unless the database is new.
Write(f, record, newdb) ==
    db' = IF f \in DOMAIN db /\ (newdb \/ Here(f))
          THEN [db EXCEPT ![f] = [record EXCEPT !.updated = "now"]] ELSE db

\* Variant: the directory is read whatever the call is for.
SkipsScanNever == FALSE

SkipsScan == o.traffic \/ o.livetraffic

\* definterface: the only database there is, if somebody looked, or else the
\* interface of the configuration.
DefInterface ==
    IF ~SkipsScan /\ Cardinality(Files) = 1 THEN CHOOSE f \in Files : TRUE ELSE CfgIface

\* The directory of the databases, and the interface if none is given.
Scan ==
    /\ pc = "parse" /\ arg > Len(argv)
    /\ interface' = IF o.given THEN o.iface ELSE DefInterface
    /\ files' = IF SkipsScan THEN 0 ELSE Cardinality(Files)
    /\ UNCHANGED <<argv, db, arg, o, merged, data, todo, measured, shown>>
    /\ \/ After(0) /\ UNCHANGED status
       \/ ~SkipsScan /\ Return(1)

\* mergedb cuts interface to its first name, and fails if a database is missing.
Merge ==
    /\ AtStage("merge")
    /\ Keep /\ UNCHANGED <<db, o, todo, shown>>
    /\ interface' = Named[interface][1]
    /\ IF \A f \in Range(Named[interface]) : Exists(f)
         THEN /\ merged' = TRUE /\ files' = 1 /\ data' = Range(Named[interface])
              /\ Onward("merge")
         ELSE Return(1) /\ UNCHANGED <<merged, files, data>>

\* The merged record is written to the current directory, or is not; 0 either way.
SaveMerged ==
    /\ AtStage("savemerged")
    /\ Return(0)
    /\ Keep /\ UNCHANGED <<db, o, interface, files, merged, data, todo, shown>>

StageUnchanged == UNCHANGED <<files, merged, todo, shown>>

\* A refusal: no room, which --force makes up for except in a rebuild; no
\* --force where it is needed; no interface; or a file that is not there.
Refuse == Return(1) /\ Keep /\ StageUnchanged /\ UNCHANGED <<db, o, interface, data>>

\* Change the record of interface to what change makes of it.
ChangeRecord(stage, record) ==
    /\ data' = {interface}
    /\ Write(interface, record, FALSE)
    /\ Keep /\ StageUnchanged /\ UNCHANGED interface
    /\ Onward(stage)

Reset ==
    /\ AtStage("reset")
    /\ \/ o' = o /\ ChangeRecord("reset", [Loaded(interface) EXCEPT !.curr = "zero"])
       \/ ~o.force /\ Refuse

\* Fails as well if the interface is not there.
Sync ==
    /\ AtStage("sync")
    /\ \/ o' = o /\ ChangeRecord("sync", [Loaded(interface) EXCEPT !.curr = "now"])
       \/ Refuse

Delete ==
    /\ AtStage("delete")
    /\ \/ /\ o.force /\ Exists(interface)
          /\ db' = [db EXCEPT ![interface] = NoFile]
          /\ Return(0)
          /\ Keep /\ StageUnchanged /\ UNCHANGED <<o, interface, data>>
       \/ Refuse

ClearTop ==
    /\ AtStage("cleartop")
    /\ \/ /\ o.force
          /\ o' = [o EXCEPT !.query = FALSE]
          /\ ChangeRecord("cleartop", [Loaded(interface) EXCEPT !.top = FALSE])
       \/ ~o.force /\ Refuse

RebuildTotal ==
    /\ AtStage("rebuildtotal")
    /\ \/ /\ o.force
          /\ o' = [o EXCEPT !.query = FALSE]
          /\ ChangeRecord("rebuildtotal", [Loaded(interface) EXCEPT !.total = "rebuilt"])
       \/ Refuse

\* --enable and --disable.
Activate ==
    /\ AtStage("active")
    /\ LET wish == o.active = 1 IN
       \/ /\ o' = o
          /\ IF Exists(interface) /\ db[interface].active # wish
               THEN ChangeRecord("active", [db[interface] EXCEPT !.active = wish])
               ELSE /\ data' = {interface}
                    /\ Keep /\ StageUnchanged /\ UNCHANGED <<db, interface>>
                    /\ Onward("active")
       \/ ~o.force /\ Refuse

-----------------------------------------------------------------------------
(***************************************************************************)
(* -u, which brings one database or all of them up to date.                *)
(***************************************************************************)
Updated(record) == [record EXCEPT !.curr = "now"]
Timely(record) == record.updated \in {"past", "now"} \/ o.force

\* All databases, if none is named.
UpdateAll ==
    /\ AtStage("update") /\ ~o.given
    /\ \/ ~o.force /\ Refuse
       \/ /\ Files # {}
          /\ pc' = "updating" /\ todo' = Files /\ files' = 0
          /\ Keep /\ UNCHANGED <<db, o, interface, merged, data, status, shown>>
       \/ /\ Files = {}
          /\ o' = [o EXCEPT !.update = FALSE]
          /\ Keep /\ StageUnchanged /\ UNCHANGED <<db, interface, data>>
          /\ Onward("update")

\* One of them.  Without its interface, or with a clock that went back a
\* little, it is passed over; with one that went back a lot, all that is left is.
UpdateNext ==
    /\ pc = "updating"
    /\ Keep /\ UNCHANGED <<o, merged, shown>>
    /\ \E f \in todo :
         /\ interface' = f /\ data' = {f} /\ todo' = todo \ {f} /\ files' = files + 1
         /\ IF db[f].active /\ ~Timely(db[f]) /\ db[f].updated = "far"
              THEN \/ Return(1) /\ UNCHANGED db
                   \/ UNCHANGED <<pc, status, db>>
              ELSE /\ UNCHANGED <<pc, status>>
                   /\ \/ db[f].active /\ Timely(db[f]) /\ Write(f, Updated(db[f]), FALSE)
                      \/ UNCHANGED db

UpdateEnd ==
    /\ pc = "updating" /\ todo = {}
    /\ Keep /\ UNCHANGED <<db, o, interface, files, merged, data, todo, shown>>
    /\ Onward("update")

\* The one that -i names, which is created if it is not there.
UpdateNamed ==
    /\ AtStage("update") /\ o.given
    /\ LET record == Loaded(interface) IN
       \/ ~o.force /\ Refuse
       \/ /\ record.active /\ ~Timely(record) /\ record.updated = "far"
          /\ Refuse
       \/ /\ ~record.active \/ Timely(record) \/ record.updated = "ahead"
          /\ IF record.active /\ Timely(record)
               THEN Write(interface, [Updated(record) EXCEPT !.nick = @ \/ o.nick], ~Exists(interface))
               ELSE UNCHANGED db
          /\ data' = {interface}
          /\ o' = o /\ interface' = interface /\ StageUnchanged /\ Keep
          /\ Onward("update")

-----------------------------------------------------------------------------
(***************************************************************************)
(* What is shown, and what is measured.                                    *)
(***************************************************************************)
One(f) == IF merged THEN data ELSE IF Exists(f) THEN {f} ELSE {}

ShowQuery ==
    /\ AtStage("show")
    /\ Keep /\ UNCHANGED <<db, files, merged, data, todo>>
    /\ \/ /\ o.given
          /\ shown' = One(interface)
          /\ UNCHANGED <<o, interface>>
       \/ /\ ~o.given /\ files = 0
          /\ o' = [o EXCEPT !.query = FALSE]
          /\ UNCHANGED <<interface, shown>>
       \/ /\ ~o.given /\ o.qmode \in {0, 8} /\ files > 1
          /\ shown' = Files
          /\ interface' \in Files
          /\ UNCHANGED o
       \/ /\ ~o.given /\ files > 0 /\ ~(o.qmode \in {0, 8} /\ files > 1)
          /\ shown' = One(DefInterface)
          /\ UNCHANGED <<o, interface>>
    /\ Onward("show")

\* trafficmeter or livetrafficmeter is called; only one of them in a call.
Measure ==
    /\ pc \in {"traffic", "live"}
    /\ pc' = "measuring"
    /\ measured' = interface
    /\ UNCHANGED <<argv, db, arg, o, interface, files, merged, data, todo, status, shown>>

Stage ==
    \/ Scan \/ Merge \/ SaveMerged \/ Reset \/ Sync \/ Delete \/ ClearTop \/ RebuildTotal
    \/ Activate \/ UpdateAll \/ UpdateNext \/ UpdateEnd \/ UpdateNamed \/ ShowQuery

CliInit ==
    /\ \E call \in Calls : argv = call.argv /\ db = call.db
    /\ pc = "config" /\ arg = 1 /\ o = NoFlags
    /\ interface = "default" /\ files = 0 /\ merged = FALSE /\ data = {} /\ todo = {}
    /\ status = 0 /\ measured = None /\ shown = {}

CliNext == ReadConfig \/ Parse \/ Stage
-----------------------------------------------------------------------------
\* The databases that a call is about: those it names, or the default one, or
\* all if it updates and names none.
Asked ==
    IF o.given THEN {o.iface} \cup Range(Named[o.iface])
    ELSE IF pc = "updating" THEN Files
    ELSE {DefInterface} \cup Range(Named[DefInterface])

\* No step changes another database than those, although the name that the
\* operations use is shared: the merge cuts it, the update and the display of
\* all leave their last file in it.
OthersUntouched == [][\A f \in DOMAIN db : db'[f] # db[f] => f \in Asked]_cvars

\* -tr and -l measure the interface that -i gives or the configured one,
\* whatever databases there are, unless the same call updates all databases
\* before; if it merges databases, that is the first of the names.  What is
\* shown of an interface that -i gives is that one, or all that are merged,
\* unless the same call uses the record in between.
AsAsked ==
    LET name == IF o.given THEN o.iface ELSE CfgIface
    IN /\ measured # None /\ (o.update => o.given) =>
             measured = IF merged THEN Named[name][1] ELSE name
       /\ shown # {} /\ o.given /\ ~(o.reset \/ o.sync \/ o.active # -1 \/ o.update) =>
             shown = IF HasPlus(o.iface) THEN Range(Named[o.iface]) ELSE {o.iface}
=============================================================================
