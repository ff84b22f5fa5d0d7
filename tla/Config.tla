------------------------------- MODULE Config --------------------------------
(***************************************************************************)
(* The configuration: loadcfg, validatecfg, printcfgfile and the list of   *)
(* limits per interface (cfg.c), with the reload that SIGHUP causes in the *)
(* daemon and the edits of a user in between.                              *)
(*                                                                         *)
(* A line of a file names a setting, or an interface after MaxBW, and has  *)
(* a value: a number, a path, another word, or nothing.  A word stands for *)
(* whatever begins neither with a digit nor with a slash.                  *)
(***************************************************************************)
EXTENDS Integers, Sequences, FiniteSets

CONSTANTS
    Ifaces,         \* names of interfaces
    SameName(_, _), \* strcasecmp of two of them is 0
    Contents,       \* what a user may write at each place, sequences of lines
    MaxEdits        \* bound: how often a user changes a file

ASSUME ConfigAssumption ==
    /\ MaxEdits \in Nat
    /\ \A i, j, k \in Ifaces :
          /\ SameName(i, i)
          /\ SameName(i, j) => SameName(j, i)
          /\ SameName(i, j) /\ SameName(j, k) => SameName(i, k)

-----------------------------------------------------------------------------
(***************************************************************************)
(* The settings, cset[] of loadcfg, and their defaults (common.h).         *)
(***************************************************************************)

\* Settings of a small range, which validatecfg resets to the default.
Bounds ==
    [UnitMode |-> [lo |-> 0, hi |-> 1, def |-> 0],
     OutputStyle |-> [lo |-> 0, hi |-> 3, def |-> 3],
     BootVariation |-> [lo |-> 0, hi |-> 300, def |-> 15],
     Sampletime |-> [lo |-> 0, hi |-> 600, def |-> 5],
     MonthRotate |-> [lo |-> 1, hi |-> 28, def |-> 1],
     MaxBandwidth |-> [lo |-> 0, hi |-> 10000, def |-> 100],
     CheckDiskSpace |-> [lo |-> 0, hi |-> 1, def |-> 1],
     UseFileLocking |-> [lo |-> 0, hi |-> 1, def |-> 1],
     SaveOnStatusChange |-> [lo |-> 0, hi |-> 1, def |-> 1],
     UseLogging |-> [lo |-> 0, hi |-> 2, def |-> 2],
     TransparentBg |-> [lo |-> 0, hi |-> 1, def |-> 0],
     HourlyRate |-> [lo |-> 0, hi |-> 1, def |-> 1],
     SummaryRate |-> [lo |-> 0, hi |-> 1, def |-> 1],
     SummaryLayout |-> [lo |-> 0, hi |-> 1, def |-> 1],
     TrafficlessDays |-> [lo |-> 0, hi |-> 1, def |-> 1]]

\* Settings that depend on each other, and those that nobody validates.
Intervals == [PollInterval |-> 5, UpdateInterval |-> 30, SaveInterval |-> 5,
              OfflineSaveInterval |-> 30]
Unvalidated == [RateUnit |-> 1, QueryMode |-> 0]

Numeric == DOMAIN Bounds \cup DOMAIN Intervals \cup DOMAIN Unvalidated

Path(n) == [kind |-> "path", n |-> n]
Word(n) == [kind |-> "word", n |-> n]

Paths == [DatabaseDir |-> Path(0), LogFile |-> Path(0), PidFile |-> Path(0)]
Texts == [Interface |-> Word(0), Locale |-> Word(0), DayFormat |-> Word(0),
          MonthFormat |-> Word(0), TopFormat |-> Word(0), HeaderFormat |-> Word(0),
          RXCharacter |-> Word(0), TXCharacter |-> Word(0),
          RXHourCharacter |-> Word(0), TXHourCharacter |-> Word(0),
          CBackground |-> Word(0), CEdge |-> Word(0), CHeader |-> Word(0),
          CHeaderTitle |-> Word(0), CHeaderDate |-> Word(0), CText |-> Word(0),
          CLine |-> Word(0), CLineL |-> Word(0), CRx |-> Word(0), CRxD |-> Word(0),
          CTx |-> Word(0), CTxD |-> Word(0)]

Textual == DOMAIN Paths \cup DOMAIN Texts

\* The names that begin with the name of another setting.
Shorter == [CHeaderTitle |-> "CHeader", CHeaderDate |-> "CHeader",
            CLineL |-> "CLine", CRxD |-> "CRx", CTxD |-> "CTx"]

\* The order in which printcfgfile writes the settings before and after the
\* limits of the interfaces.
PrintedBefore ==
    <<"Interface", "DatabaseDir", "Locale", "MonthRotate", "DayFormat", "MonthFormat",
      "TopFormat", "RXCharacter", "TXCharacter", "RXHourCharacter", "TXHourCharacter",
      "UnitMode", "OutputStyle", "RateUnit", "MaxBandwidth">>
PrintedAfter ==
    <<"Sampletime", "QueryMode", "CheckDiskSpace", "UseFileLocking", "BootVariation",
      "TrafficlessDays", "UpdateInterval", "PollInterval", "SaveInterval",
      "OfflineSaveInterval", "SaveOnStatusChange", "UseLogging", "LogFile", "PidFile",
      "HeaderFormat", "HourlyRate", "SummaryRate", "SummaryLayout", "TransparentBg",
      "CBackground", "CEdge", "CHeader", "CHeaderTitle", "CHeaderDate", "CText",
      "CLine", "CLineL", "CRx", "CTx", "CRxD", "CTxD">>

-----------------------------------------------------------------------------
(***************************************************************************)
(* Lines.                                                                  *)
(***************************************************************************)

Number(n) == [kind |-> "number", n |-> n]
\* The name is missing, or the line is about a setting.
NoName == "no name"

NoValue == [kind |-> "nothing", n |-> 0]
Values == [kind : {"number", "path", "word", "nothing"}, n : Int]

Setting(name, value) == [key |-> name, iface |-> NoName, value |-> value]
MaxBW(iface, value) == [key |-> "MaxBW", iface |-> iface, value |-> value]
Lines == [key : Numeric \cup Textual \cup {"MaxBW"}, iface : Ifaces \cup {NoName}, value : Values]

\* Instead of the contents of a file that does not exist.
Absent == <<[key |-> "absent", iface |-> NoName, value |-> NoValue]>>

ASSUME ContentsAssumption ==
    /\ DOMAIN Contents = {"--config", "~/.vnstatrc", "/etc/vnstat.conf"}
    /\ \A p \in DOMAIN Contents : Contents[p] \subseteq Seq(Lines) \cup {Absent}

VARIABLES
    given,      \* the program was started with --config
    phase,      \* where the program is: "start", "lines", "limits", "running", "exited"
    files,      \* what the user's files hold, by place
    opened,     \* what loadcfg reads: the contents of one of them
    pos,        \* the line it is at
    found,      \* the settings found so far
    cfg,        \* the numeric settings
    text,       \* the textual settings
    ifacebw,    \* the limits, the last added first
    edits,      \* how often a user changed a file
    dumped      \* history: the configuration that was printed to a file

vars == <<given, phase, files, opened, pos, found, cfg, text, ifacebw, edits, dumped>>

NotDumped == [cfg |-> <<>>, text |-> <<>>, limit |-> <<>>]

\* What loadcfg tries to open, in turn.
Places == IF given THEN <<"--config">> ELSE <<"~/.vnstatrc", "/etc/vnstat.conf">>

-----------------------------------------------------------------------------
\* defaultcfg
DefaultCfg ==
    [s \in Numeric |-> IF s \in DOMAIN Bounds THEN Bounds[s].def
                       ELSE IF s \in DOMAIN Intervals THEN Intervals[s]
                       ELSE Unvalidated[s]]
DefaultText == [s \in Textual |-> IF s \in DOMAIN Paths THEN Paths[s] ELSE Texts[s]]

\* A number becomes a short.
Short(n) == ((n + 32768) % 65536) - 32768

\* What the line gives to setting s: if its name is longer, a word that begins
\* with the rest of it, even if nothing follows (one of the words below 0).
ValueFor(line, s) == IF line.key = s THEN line.value ELSE Word(-1 - line.value.n)

\* The settings whose name is how the line begins, the shorter one first.
Matches(line) ==
    ({line.key} \cup {Shorter[s] : s \in {line.key} \cap DOMAIN Shorter}) \ {"MaxBW"}

Usable(line, s) ==
    IF s \in Numeric THEN line.value.kind = "number" ELSE ValueFor(line, s).kind # "nothing"

\* The setting a line is for, as a set of at most one: the first in the table
\* that matches, was not found before, and can use the value.
SettingOf(line) ==
    LET open == {s \in Matches(line) : s \notin found /\ Usable(line, s)} IN
    IF line.key \in open /\ open # {line.key} THEN open \ {line.key} ELSE open

\* The part of validatecfg about settings that depend on no other.
Ranged(c) ==
    [s \in Numeric |-> IF s \in DOMAIN Bounds /\ c[s] \notin Bounds[s].lo..Bounds[s].hi
                         THEN Bounds[s].def ELSE c[s]]

\* Variant: an interval that is out of range gets its default.
validatecfgDefaults(c) ==
    LET poll == IF c["PollInterval"] \in 2..60 THEN c["PollInterval"] ELSE 5
        update == IF c["UpdateInterval"] \in poll..300 THEN c["UpdateInterval"] ELSE 30
        save == IF c["SaveInterval"] * 60 >= update /\ c["SaveInterval"] <= 60
                    THEN c["SaveInterval"] ELSE 5
        offsave == IF c["OfflineSaveInterval"] \in save..60 THEN c["OfflineSaveInterval"] ELSE 30
    IN [Ranged(c) EXCEPT !["PollInterval"] = poll, !["UpdateInterval"] = update,
                         !["SaveInterval"] = save, !["OfflineSaveInterval"] = offsave]

\* validatecfg: each interval depends on the one before.
validatecfg(c) ==
    LET poll == IF c["PollInterval"] \in 2..60 THEN c["PollInterval"] ELSE 5
        update == IF c["UpdateInterval"] \in poll..300 THEN c["UpdateInterval"]
                  ELSE IF poll > 30 THEN poll ELSE 30
        save == IF c["SaveInterval"] * 60 >= update /\ c["SaveInterval"] <= 60
                    THEN c["SaveInterval"]
                ELSE IF update > 5 * 60 THEN update ELSE 5
        offsave == IF c["OfflineSaveInterval"] \in save..60 THEN c["OfflineSaveInterval"]
                   ELSE IF save > 30 THEN save ELSE 30
    IN [Ranged(c) EXCEPT !["PollInterval"] = poll, !["UpdateInterval"] = update,
                         !["SaveInterval"] = save, !["OfflineSaveInterval"] = offsave]

validatetext(t) ==
    [s \in Textual |-> IF s \in DOMAIN Paths /\ t[s].kind # "path" THEN Paths[s] ELSE t[s]]

-----------------------------------------------------------------------------
(***************************************************************************)
(* Limits of the interfaces.                                               *)
(***************************************************************************)

\* An entry of exactly this name is changed, or a new one put in front.
ibwadd(list, iface, limit) ==
    IF \E i \in DOMAIN list : list[i].iface = iface
        THEN [i \in DOMAIN list |->
                IF list[i].iface = iface THEN [list[i] EXCEPT !.limit = limit] ELSE list[i]]
        ELSE <<[iface |-> iface, limit |-> limit]>> \o list

\* The limit of the first entry of this name in whatever case; 0 stands for
\* none, and is returned as -1.
ibwget(list, iface, default) ==
    LET named == {i \in DOMAIN list : SameName(list[i].iface, iface)}
        limit == IF named = {} THEN default
                 ELSE list[CHOOSE i \in named : \A j \in named : i <= j].limit
    IN IF limit > 0 THEN limit ELSE -1

\* What the rest of the program is told.
Limits == [i \in Ifaces |-> ibwget(ifacebw, i, cfg["MaxBandwidth"])]

-----------------------------------------------------------------------------
Init ==
    /\ given \in BOOLEAN
    /\ phase = "start"
    /\ files \in {f \in [DOMAIN Contents -> UNION {Contents[p] : p \in DOMAIN Contents}] :
                    \A p \in DOMAIN f : f[p] \in Contents[p]}
    /\ opened = Absent /\ pos = 1 /\ found = {}
    /\ cfg = DefaultCfg /\ text = DefaultText /\ ifacebw = <<>>
    /\ edits = 0 /\ dumped = NotDumped

\* Variant: the defaults are loaded only when the program starts.
LoadOver ==
    /\ phase \in {"start", "running"}
    /\ pos' = 1 /\ found' = {}
    /\ ifacebw' = <<>>
    /\ LET there == {i \in DOMAIN Places : files[Places[i]] # Absent} IN
       IF there # {}
           THEN /\ opened' = files[Places[CHOOSE i \in there : \A j \in there : i <= j]]
                /\ phase' = "lines"
           ELSE /\ opened' = Absent
                /\ phase' = IF given /\ phase = "start" THEN "exited" ELSE "running"
    /\ UNCHANGED <<given, files, cfg, text, edits, dumped>>

(***************************************************************************)
(* The beginning of loadcfg, when the program starts or the daemon gets a  *)
(* SIGHUP.  Without any file the defaults are used.  A missing file that   *)
(* was asked for ends a program that starts; the daemon goes on, with the  *)
(* defaults.                                                               *)
(***************************************************************************)
Load ==
    /\ phase \in {"start", "running"}
    /\ pos' = 1 /\ found' = {}
    /\ cfg' = DefaultCfg /\ text' = DefaultText /\ ifacebw' = <<>>
    /\ LET there == {i \in DOMAIN Places : files[Places[i]] # Absent} IN
       IF there # {}
           THEN /\ opened' = files[Places[CHOOSE i \in there : \A j \in there : i <= j]]
                /\ phase' = "lines"
           ELSE /\ opened' = Absent
                /\ phase' = IF given /\ phase = "start" THEN "exited" ELSE "running"
    /\ UNCHANGED <<given, files, edits, dumped>>

\* One line, in the loop of loadcfg.
ParseLine ==
    /\ phase = "lines" /\ pos <= Len(opened)
    /\ LET line == opened[pos] IN
       /\ cfg' = [s \in Numeric |-> IF s \in SettingOf(line) THEN Short(line.value.n) ELSE cfg[s]]
       /\ text' = [s \in Textual |-> IF s \in SettingOf(line) THEN ValueFor(line, s) ELSE text[s]]
       /\ found' = found \cup SettingOf(line)
    /\ pos' = pos + 1
    /\ UNCHANGED <<given, phase, files, opened, ifacebw, edits, dumped>>

\* ibwcfgread starts again with the first line.
EndOfLines ==
    /\ phase = "lines" /\ pos > Len(opened)
    /\ phase' = "limits" /\ pos' = 1
    /\ UNCHANGED <<given, files, opened, found, cfg, text, ifacebw, edits, dumped>>

MaxLimit == 10000

\* The number of a limit is an int, and is not used if it is out of range.
IsLimit(line) ==
    /\ line.key = "MaxBW" /\ line.iface # NoName
    /\ line.value.kind = "number" /\ line.value.n \in 0..MaxLimit

\* One line, in the loop of ibwcfgread.
ReadLimit ==
    /\ phase = "limits" /\ pos <= Len(opened)
    /\ LET line == opened[pos] IN
       ifacebw' = IF IsLimit(line) THEN ibwadd(ifacebw, line.iface, line.value.n)
                  ELSE ifacebw
    /\ pos' = pos + 1
    /\ UNCHANGED <<given, phase, files, opened, found, cfg, text, edits, dumped>>

Validate ==
    /\ phase = "limits" /\ pos > Len(opened)
    /\ phase' = "running"
    /\ cfg' = validatecfg(cfg) /\ text' = validatetext(text)
    /\ UNCHANGED <<given, files, opened, pos, found, ifacebw, edits, dumped>>

\* A user writes or removes one of the files.
Edit ==
    /\ phase = "running" /\ edits < MaxEdits /\ edits' = edits + 1
    /\ \E p \in DOMAIN files : \E c \in Contents[p] : files' = [files EXCEPT ![p] = c]
    /\ dumped' = NotDumped
    /\ UNCHANGED <<given, phase, opened, pos, found, cfg, text, ifacebw>>

\* What printcfgfile prints.  A negative number does not begin with a digit.
PrintedLine(s) ==
    Setting(s, IF s \in Textual THEN text[s]
               ELSE IF cfg[s] >= 0 THEN Number(cfg[s]) ELSE Word(cfg[s]))

\* Variant: the limits are not printed.
PrintedSettings ==
    [i \in DOMAIN PrintedBefore |-> PrintedLine(PrintedBefore[i])]
    \o [i \in DOMAIN PrintedAfter |-> PrintedLine(PrintedAfter[i])]

Printed ==
    [i \in DOMAIN PrintedBefore |-> PrintedLine(PrintedBefore[i])]
    \o [i \in DOMAIN ifacebw |-> MaxBW(ifacebw[i].iface, Number(ifacebw[i].limit))]
    \o [i \in DOMAIN PrintedAfter |-> PrintedLine(PrintedAfter[i])]

\* vnstat --showconfig, put in the place of the file that is read first.
Dump ==
    /\ phase = "running" /\ edits < MaxEdits /\ edits' = edits + 1
    /\ files' = [files EXCEPT ![Places[1]] = Printed]
    /\ dumped' = [cfg |-> cfg, text |-> text, limit |-> Limits]
    /\ UNCHANGED <<given, phase, opened, pos, found, cfg, text, ifacebw>>

Next == Load \/ ParseLine \/ EndOfLines \/ ReadLimit \/ Validate \/ Edit \/ Dump

Spec == Init /\ [][Next]_vars

-----------------------------------------------------------------------------
(***************************************************************************)
(* Properties.                                                             *)
(***************************************************************************)

\* Parts of a valid configuration.
InBounds == \A s \in DOMAIN Bounds : cfg[s] \in Bounds[s].lo..Bounds[s].hi
IntervalsOrdered ==
    /\ cfg["PollInterval"] \in 2..60
    /\ cfg["UpdateInterval"] \in cfg["PollInterval"]..300
    /\ cfg["SaveInterval"] \in 1..60
    /\ cfg["SaveInterval"] * 60 >= cfg["UpdateInterval"]
    /\ cfg["OfflineSaveInterval"] \in cfg["SaveInterval"]..60

\* Whatever the files hold, and whatever became of them before a SIGHUP, the
\* program runs with settings in their ranges, and with intervals of which
\* each is at least the one before: what the other modules assume of K, of
\* MonthRotate and of the order of polls, updates and saves.
ValidConfig ==
    phase = "running" =>
        /\ InBounds /\ IntervalsOrdered
        /\ \A s \in DOMAIN Paths : text[s].kind = "path"

\* The lines that have a usable value for setting s under its own name.
LinesFor(s) == {i \in DOMAIN opened : opened[i].key = s /\ Usable(opened[i], s)}
FirstFor(s) == CHOOSE i \in LinesFor(s) : \A j \in LinesFor(s) : i <= j

\* The lines that can be read as setting s, those of longer names included.
ReadableAs(s) == {i \in DOMAIN opened : s \in Matches(opened[i]) /\ Usable(opened[i], s)}

\* A longer name comes before the shorter one and is read as that.
Confused(s) ==
    \/ /\ s \in DOMAIN Shorter /\ LinesFor(s) # {}
       /\ \A i \in ReadableAs(Shorter[s]) : FirstFor(s) <= i
    \/ \E i \in ReadableAs(s) : opened[i].key # s /\ \A j \in LinesFor(s) : i < j

NamesDiffer ==
    \A i, j \in DOMAIN ifacebw : i # j => ~SameName(ifacebw[i].iface, ifacebw[j].iface)

LimitLines(i) ==
    {k \in DOMAIN opened : IsLimit(opened[k]) /\ SameName(opened[k].iface, i)}

\* While loadcfg is at work: of several lines for a setting the first counts,
\* and of several for the limit of an interface the last (loadcfg's "found",
\* ibwadd).  Left out are colours of which the longer name comes first ("CRxD",
\* with a value or without, is read as "CRx" until that is found), and
\* interfaces whose names differ in case alone, for which ibwget takes the last
\* that was added.
LinesCount ==
    /\ phase = "limits" =>
        /\ \A s \in Numeric :
              cfg[s] = IF LinesFor(s) = {} THEN DefaultCfg[s]
                       ELSE Short(opened[FirstFor(s)].value.n)
        /\ \A s \in Textual :
              ~Confused(s) =>
                 text[s] = IF LinesFor(s) = {} THEN DefaultText[s] ELSE opened[FirstFor(s)].value
    /\ phase = "running" /\ opened # Absent /\ NamesDiffer =>
          \A i \in Ifaces :
             LET own == LimitLines(i)
                 limit == IF own = {} THEN cfg["MaxBandwidth"]
                          ELSE opened[CHOOSE k \in own : \A l \in own : l <= k].value.n
             IN Limits[i] = IF limit > 0 THEN limit ELSE -1

\* The configuration that --showconfig prints, loaded again, is the same, but
\* for the two settings that may be negative, and for limits of names that
\* differ in case alone (their order is reversed).
RoundTrip ==
    phase = "running" /\ dumped # NotDumped =>
        /\ \A s \in Numeric : dumped.cfg[s] >= 0 => cfg[s] = dumped.cfg[s]
        /\ text = dumped.text
        /\ NamesDiffer => Limits = dumped.limit
=============================================================================
