------------------------------- MODULE Vnstat --------------------------------
(***************************************************************************)
(* The command vnstat with what it calls: main of vnstat.c (Cli), and from *)
(* there the live monitor (Live) or the disk report (DiskStat).            *)
(***************************************************************************)
EXTENDS Cli, Live, DiskStat

vars == <<cvars, lvars, dvars>>

Init == CliInit /\ LiveInit /\ DiskInit

\* main goes on by itself.
Main == CliNext /\ UNCHANGED <<lvars, dvars>>

\* -d is met among the arguments: the report begins, and main returns after it.
CallDisk == ParseDisk /\ DiskStart(DiskArguments) /\ UNCHANGED lvars
Report == pc = "disk" /\ DiskNext /\ UNCHANGED <<cvars, lvars>>

\* The live monitor, or the measurement of -tr.
CallTraffic == Measure /\ pc = "traffic" /\ TrafficStart(o.sampletime) /\ UNCHANGED dvars
CallLive == Measure /\ pc = "live" /\ LiveStart /\ UNCHANGED dvars
Monitor == pc = "measuring" /\ LiveNext /\ UNCHANGED <<cvars, dvars>>

Next == Main \/ CallDisk \/ Report \/ CallTraffic \/ CallLive \/ Monitor

Spec == Init /\ [][Next]_vars /\ DiskFairness
=============================================================================
