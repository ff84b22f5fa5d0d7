---------------------------- MODULE ConfigProofs -----------------------------
(***************************************************************************)
(* Whatever files loadcfg reads, and however often, the program runs with  *)
(* a valid configuration, which is what the lines that count say; and what *)
(* --showconfig prints is loaded as it was.                                *)
(***************************************************************************)
EXTENDS Config, SequenceTheorems, WellFoundedInduction, TLAPS

Entry == [iface : Ifaces, limit : Int]

\* The types of what loadcfg works on, before anything is validated.
Typed ==
    /\ files \in [DOMAIN Contents -> Seq(Lines) \cup {Absent}]
    /\ opened \in Seq(Lines) \cup {Absent}
    /\ phase \in {"lines", "limits"} => opened \in Seq(Lines)
    /\ pos \in Nat \ {0}
    /\ cfg \in [Numeric -> Int]
    /\ text \in [Textual -> Values]
    /\ ifacebw \in Seq(Entry)
    /\ phase = "running" => ValidConfig

-----------------------------------------------------------------------------
\* The names of the tables are different.
LEMMA Names ==
    /\ "PollInterval" \in Numeric /\ "UpdateInterval" \in Numeric
    /\ "SaveInterval" \in Numeric /\ "OfflineSaveInterval" \in Numeric
    /\ "PollInterval" \notin DOMAIN Bounds /\ "UpdateInterval" \notin DOMAIN Bounds
    /\ "SaveInterval" \notin DOMAIN Bounds /\ "OfflineSaveInterval" \notin DOMAIN Bounds
    /\ DOMAIN Bounds \subseteq Numeric /\ DOMAIN Paths \subseteq Textual
BY DEF Numeric, Textual, Bounds, Intervals, Paths

\* The defaults are in their ranges.
LEMMA BoundsType ==
    \A s \in DOMAIN Bounds :
        /\ Bounds[s].lo \in Int /\ Bounds[s].hi \in Int /\ Bounds[s].def \in Int
        /\ Bounds[s].def \in Bounds[s].lo..Bounds[s].hi
BY DEF Bounds

LEMMA PathsType == \A s \in DOMAIN Paths : Paths[s] \in Values /\ Paths[s].kind = "path"
BY DEF Paths, Path, Values

LEMMA TextsType == \A s \in DOMAIN Texts : Texts[s] \in Values
BY DEF Texts, Word, Values

\* The defaults are a valid configuration.
LEMMA DefaultsValid ==
    /\ DefaultCfg \in [Numeric -> Int] /\ DefaultText \in [Textual -> Values]
    /\ \A s \in DOMAIN Bounds : DefaultCfg[s] \in Bounds[s].lo..Bounds[s].hi
    /\ DefaultCfg["PollInterval"] = 5 /\ DefaultCfg["UpdateInterval"] = 30
    /\ DefaultCfg["SaveInterval"] = 5 /\ DefaultCfg["OfflineSaveInterval"] = 30
    /\ \A s \in DOMAIN Paths : DefaultText[s].kind = "path"
<1>1. \A s \in DOMAIN Intervals : Intervals[s] \in Int
  BY DEF Intervals
<1>2. \A s \in DOMAIN Unvalidated : Unvalidated[s] \in Int
  BY DEF Unvalidated
<1>3. DefaultCfg \in [Numeric -> Int]
  BY <1>1, <1>2, BoundsType DEF DefaultCfg, Numeric
<1>4. \A s \in DOMAIN Bounds : DefaultCfg[s] = Bounds[s].def
  BY Names DEF DefaultCfg
<1>5. /\ DefaultCfg["PollInterval"] = 5 /\ DefaultCfg["UpdateInterval"] = 30
      /\ DefaultCfg["SaveInterval"] = 5 /\ DefaultCfg["OfflineSaveInterval"] = 30
  BY Names DEF DefaultCfg, Intervals
<1>6. /\ DefaultText \in [Textual -> Values]
      /\ \A s \in DOMAIN Paths : DefaultText[s].kind = "path"
  BY PathsType, TextsType, Names DEF DefaultText, Textual
<1> QED
  BY <1>3, <1>4, <1>5, <1>6, BoundsType

\* What does not depend on other settings is in its range afterwards.
LEMMA RangedRight ==
    ASSUME NEW c \in [Numeric -> Int]
    PROVE /\ Ranged(c) \in [Numeric -> Int]
          /\ \A s \in DOMAIN Bounds : Ranged(c)[s] \in Bounds[s].lo..Bounds[s].hi
BY BoundsType, Names DEF Ranged

\* validatecfg makes a valid configuration of any.
LEMMA ValidatedRight ==
    ASSUME NEW c \in [Numeric -> Int]
    PROVE LET v == validatecfg(c) IN
          /\ v \in [Numeric -> Int]
          /\ \A s \in DOMAIN Bounds : v[s] \in Bounds[s].lo..Bounds[s].hi
          /\ v["PollInterval"] \in 2..60
          /\ v["UpdateInterval"] \in v["PollInterval"]..300
          /\ v["SaveInterval"] \in 1..60
          /\ v["SaveInterval"] * 60 >= v["UpdateInterval"]
          /\ v["OfflineSaveInterval"] \in v["SaveInterval"]..60
<1> DEFINE poll == IF c["PollInterval"] \in 2..60 THEN c["PollInterval"] ELSE 5
           update == IF c["UpdateInterval"] \in poll..300 THEN c["UpdateInterval"]
                     ELSE IF poll > 30 THEN poll ELSE 30
           save == IF c["SaveInterval"] * 60 >= update /\ c["SaveInterval"] <= 60
                       THEN c["SaveInterval"]
                   ELSE IF update > 5 * 60 THEN update ELSE 5
           offsave == IF c["OfflineSaveInterval"] \in save..60 THEN c["OfflineSaveInterval"]
                      ELSE IF save > 30 THEN save ELSE 30
           v == validatecfg(c)
<1>1. /\ c["PollInterval"] \in Int /\ c["UpdateInterval"] \in Int
      /\ c["SaveInterval"] \in Int /\ c["OfflineSaveInterval"] \in Int
  BY Names
<1>2. poll \in 2..60
  BY <1>1
<1>3. update \in poll..300
  BY <1>1, <1>2
<1>4. save \in 1..60 /\ save * 60 >= update
  <2> HIDE DEF poll
  <2>1. update \in 2..300
    BY <1>2, <1>3
  <2> HIDE DEF update
  <2> QED
    BY <1>1, <2>1
<1>5. offsave \in save..60
  <2> HIDE DEF save
  <2> QED
    BY <1>1, <1>4
<1> HIDE DEF poll, update, save, offsave
<1>6. v = [Ranged(c) EXCEPT !["PollInterval"] = poll, !["UpdateInterval"] = update,
                            !["SaveInterval"] = save, !["OfflineSaveInterval"] = offsave]
  BY Zenon DEF validatecfg, poll, update, save, offsave
<1> HIDE DEF v
<1>7. /\ Ranged(c) \in [Numeric -> Int]
      /\ \A s \in DOMAIN Bounds : Ranged(c)[s] \in Bounds[s].lo..Bounds[s].hi
  BY RangedRight
<1>8. /\ v["PollInterval"] = poll /\ v["UpdateInterval"] = update
      /\ v["SaveInterval"] = save /\ v["OfflineSaveInterval"] = offsave
  BY <1>6, <1>7, Names
<1>9. /\ poll \in Int /\ update \in Int /\ save \in Int /\ offsave \in Int
  BY <1>2, <1>3, <1>4, <1>5
<1>10. v \in [Numeric -> Int]
  BY <1>6, <1>7, <1>9, Names
<1>11. \A s \in DOMAIN Bounds : v[s] = Ranged(c)[s]
  BY <1>6, <1>7, Names
<1>12. \A s \in DOMAIN Bounds : v[s] \in Bounds[s].lo..Bounds[s].hi
  BY <1>7, <1>11
<1>13. LET w == v IN
       /\ w \in [Numeric -> Int]
       /\ \A s \in DOMAIN Bounds : w[s] \in Bounds[s].lo..Bounds[s].hi
       /\ w["PollInterval"] \in 2..60
       /\ w["UpdateInterval"] \in w["PollInterval"]..300
       /\ w["SaveInterval"] \in 1..60
       /\ w["SaveInterval"] * 60 >= w["UpdateInterval"]
       /\ w["OfflineSaveInterval"] \in w["SaveInterval"]..60
  BY <1>2, <1>3, <1>4, <1>5, <1>8, <1>10, <1>12
<1> QED
  BY <1>13 DEF v

\* The same for the paths.
LEMMA PathsValid ==
    ASSUME NEW t \in [Textual -> Values]
    PROVE /\ validatetext(t) \in [Textual -> Values]
          /\ \A s \in DOMAIN Paths : validatetext(t)[s].kind = "path"
BY PathsType, Names DEF validatetext

-----------------------------------------------------------------------------
(***************************************************************************)
(* The actions.                                                            *)
(***************************************************************************)

\* A file that is not absent is a sequence of lines.
LEMMA Readable ==
    ASSUME Typed, NEW p \in {Places[i] : i \in DOMAIN Places}, files[p] # Absent
    PROVE files[p] \in Seq(Lines)
BY ContentsAssumption DEF Typed, Places

LEMMA InitTyped == Init => Typed
<1> SUFFICES ASSUME Init PROVE Typed
  OBVIOUS
<1>1. files \in [DOMAIN Contents -> Seq(Lines) \cup {Absent}]
  BY ContentsAssumption DEF Init
<1> QED
  BY <1>1, DefaultsValid DEF Init, Typed

LEMMA LoadTyped == ASSUME Typed, Load PROVE Typed'
<1>1. CASE \E i \in DOMAIN Places : files[Places[i]] # Absent
  <2> DEFINE there == {i \in DOMAIN Places : files[Places[i]] # Absent}
             first == CHOOSE i \in there : \A j \in there : i <= j
  <2>1. first \in there
    <3>1. \A i \in DOMAIN Places : i = 1 \/ i = 2
      BY DEF Places
    <3>2. \E i \in there : \A j \in there : i <= j
      BY <1>1, <3>1
    <3> QED
      BY <3>2
  <2>2. opened' = files[Places[first]] /\ phase' = "lines"
    BY <1>1, Zenon DEF Load
  <2>3. opened' \in Seq(Lines)
    BY <2>1, <2>2, Readable
  <2> QED
    BY <2>2, <2>3, DefaultsValid DEF Typed, Load
<1>2. CASE \A i \in DOMAIN Places : files[Places[i]] = Absent
  <2>1. opened' = Absent /\ phase' \in {"exited", "running"}
    BY <1>2 DEF Load
  <2>2. ValidConfig'
    <3>1. cfg' = DefaultCfg /\ text' = DefaultText
      BY DEF Load
    <3> QED
      BY <3>1, DefaultsValid DEF ValidConfig, InBounds, IntervalsOrdered
  <2> QED
    BY <2>1, <2>2, DefaultsValid DEF Typed, Load
<1> QED
  BY <1>1, <1>2

\* What a line gives is of the right type.
LEMMA LineTyped ==
    ASSUME NEW line \in Lines
    PROVE \A s : ValueFor(line, s) \in Values /\ Short(line.value.n) \in Int
<1>1. line.value \in Values /\ line.value.n \in Int
  BY DEF Lines, Values
<1>2. Word(-1 - line.value.n) \in Values
  BY <1>1 DEF Word, Values
<1>3. Short(line.value.n) \in Int
  BY <1>1 DEF Short
<1> QED
  BY <1>1, <1>2, <1>3 DEF ValueFor

LEMMA ParseLineTyped == ASSUME Typed, ParseLine PROVE Typed'
<1>1. opened[pos] \in Lines
  BY DEF Typed, ParseLine
<1>2. \A s : ValueFor(opened[pos], s) \in Values /\ Short(opened[pos].value.n) \in Int
  BY <1>1, LineTyped
<1>3. cfg' \in [Numeric -> Int] /\ text' \in [Textual -> Values]
  BY <1>2 DEF Typed, ParseLine
<1>4. phase' = "lines" /\ files' = files /\ opened' = opened /\ pos' = pos + 1
  BY DEF ParseLine
<1> QED
  BY <1>3, <1>4 DEF Typed, ParseLine

LEMMA EndOfLinesTyped == ASSUME Typed, EndOfLines PROVE Typed'
BY DEF Typed, EndOfLines

\* ibwadd keeps the list a list of names and limits.
LEMMA AddIn ==
    ASSUME NEW names, NEW limits, NEW list \in Seq([iface : names, limit : limits]),
           NEW iface \in names, NEW limit \in limits
    PROVE ibwadd(list, iface, limit) \in Seq([iface : names, limit : limits])
<1> DEFINE Entries == [iface : names, limit : limits]
<1>0. list \in Seq(Entries)
  OBVIOUS
<1>3. \A e \in Entries : [e EXCEPT !.limit = limit] \in Entries
  OBVIOUS
<1>4. [iface |-> iface, limit |-> limit] \in Entries
  OBVIOUS
<1> HIDE DEF Entries
<1>1. CASE \E i \in DOMAIN list : list[i].iface = iface
  <2>1. ibwadd(list, iface, limit) =
          [i \in DOMAIN list |-> IF list[i].iface = iface
                                   THEN [list[i] EXCEPT !.limit = limit] ELSE list[i]]
    BY <1>1 DEF ibwadd
  <2>2. \A i \in DOMAIN list : list[i] \in Entries
    BY <1>0
  <2>3. \A i \in DOMAIN list : [list[i] EXCEPT !.limit = limit] \in Entries
    BY <1>3, <2>2
  <2>4. ibwadd(list, iface, limit) \in [1..Len(list) -> Entries]
    BY <1>0, <2>1, <2>2, <2>3
  <2> QED
    BY <1>0, <2>4 DEF Entries
<1>2. CASE ~ \E i \in DOMAIN list : list[i].iface = iface
  <2>1. ibwadd(list, iface, limit) = <<[iface |-> iface, limit |-> limit]>> \o list
    BY <1>2 DEF ibwadd
  <2>2. <<[iface |-> iface, limit |-> limit]>> \in Seq(Entries)
    BY <1>4
  <2> QED
    BY <1>0, <2>1, <2>2, ConcatProperties DEF Entries
<1> QED
  BY <1>1, <1>2

LEMMA AddTyped ==
    ASSUME NEW list \in Seq(Entry), NEW iface \in Ifaces, NEW limit \in Int
    PROVE ibwadd(list, iface, limit) \in Seq(Entry)
<1>1. list \in Seq([iface : Ifaces, limit : Int])
  BY Zenon DEF Entry
<1>2. ibwadd(list, iface, limit) \in Seq([iface : Ifaces, limit : Int])
  BY <1>1, AddIn
<1> QED
  BY <1>2, Zenon DEF Entry

LEMMA LimitTyped ==
    ASSUME NEW line \in Lines, IsLimit(line)
    PROVE line.iface \in Ifaces /\ line.value.n \in Int
<1>1. line.iface # NoName /\ line.value.n \in 0..MaxLimit
  BY Zenon DEF IsLimit
<1>2. line.iface \in Ifaces \/ line.iface = NoName
  BY DEF Lines
<1> QED
  BY <1>1, <1>2

LEMMA ReadLimitTyped == ASSUME Typed, ReadLimit PROVE Typed'
<1>1. /\ phase = "limits" /\ pos' = pos + 1 /\ pos <= Len(opened)
      /\ UNCHANGED <<phase, files, opened, cfg, text>>
      /\ ifacebw' = IF IsLimit(opened[pos])
                       THEN ibwadd(ifacebw, opened[pos].iface, opened[pos].value.n)
                       ELSE ifacebw
  BY Zenon DEF ReadLimit
<1>2. opened[pos] \in Lines
  BY <1>1 DEF Typed
<1>3. ifacebw' \in Seq(Entry)
  <2>1. CASE IsLimit(opened[pos])
    <3>1. opened[pos].iface \in Ifaces /\ opened[pos].value.n \in Int
      BY <1>2, <2>1, LimitTyped
    <3> QED
      BY <1>1, <2>1, <3>1, AddTyped DEF Typed
  <2>2. CASE ~IsLimit(opened[pos])
    BY <1>1, <2>2 DEF Typed
  <2> QED
    BY <2>1, <2>2
<1> QED
  BY <1>1, <1>3 DEF Typed

LEMMA ValidateTyped == ASSUME Typed, Validate PROVE Typed'
<1>1. cfg' = validatecfg(cfg) /\ text' = validatetext(text)
  BY DEF Validate
<1>2. cfg \in [Numeric -> Int] /\ text \in [Textual -> Values]
  BY DEF Typed
<1>3. cfg' \in [Numeric -> Int] /\ InBounds' /\ IntervalsOrdered'
  BY <1>1, <1>2, ValidatedRight DEF InBounds, IntervalsOrdered
<1>4. text' \in [Textual -> Values] /\ \A s \in DOMAIN Paths : text'[s].kind = "path"
  BY <1>1, <1>2, PathsValid
<1>5. ValidConfig'
  BY <1>3, <1>4 DEF ValidConfig
<1> QED
  BY <1>3, <1>4, <1>5 DEF Typed, Validate

\* A step that changes nothing but the files.
LEMMA FilesTyped ==
    ASSUME Typed, UNCHANGED <<phase, opened, pos, cfg, text, ifacebw>>,
           files' \in [DOMAIN Contents -> Seq(Lines) \cup {Absent}]
    PROVE Typed'
<1>1. ValidConfig' = ValidConfig
  BY DEF ValidConfig, InBounds, IntervalsOrdered
<1> QED
  BY <1>1 DEF Typed

LEMMA EditTyped == ASSUME Typed, Edit PROVE Typed'
<1>1. files' \in [DOMAIN Contents -> Seq(Lines) \cup {Absent}]
  BY ContentsAssumption DEF Typed, Edit
<1> QED
  BY <1>1, FilesTyped DEF Edit

\* The settings are printed as lines of a file.
LEMMA PrintedParts ==
    ASSUME Typed
    PROVE /\ [i \in DOMAIN PrintedBefore |-> PrintedLine(PrintedBefore[i])] \in Seq(Lines)
          /\ [i \in DOMAIN PrintedAfter |-> PrintedLine(PrintedAfter[i])] \in Seq(Lines)
          /\ [i \in DOMAIN ifacebw |-> MaxBW(ifacebw[i].iface, Number(ifacebw[i].limit))]
                \in Seq(Lines)
<1>1. \A i \in DOMAIN PrintedBefore : PrintedBefore[i] \in Numeric \cup Textual
  BY DEF PrintedBefore, Numeric, Textual, Bounds, Intervals, Unvalidated, Paths, Texts
<1>2. \A i \in DOMAIN PrintedAfter : PrintedAfter[i] \in Numeric \cup Textual
  BY DEF PrintedAfter, Numeric, Textual, Bounds, Intervals, Unvalidated, Paths, Texts
<1>3. \A s \in Numeric \cup Textual : PrintedLine(s) \in Lines
  BY DEF Typed, PrintedLine, Setting, Number, Word, Values, Lines
<1>4. [i \in DOMAIN PrintedBefore |-> PrintedLine(PrintedBefore[i])] \in Seq(Lines)
  <2>1. DOMAIN PrintedBefore = 1..15
    BY DEF PrintedBefore
  <2> QED
    BY <1>1, <1>3, <2>1
<1>5. [i \in DOMAIN PrintedAfter |-> PrintedLine(PrintedAfter[i])] \in Seq(Lines)
  <2>1. DOMAIN PrintedAfter = 1..31
    BY DEF PrintedAfter
  <2> QED
    BY <1>2, <1>3, <2>1
<1>6. [i \in DOMAIN ifacebw |-> MaxBW(ifacebw[i].iface, Number(ifacebw[i].limit))] \in Seq(Lines)
  <2>1. \A i \in DOMAIN ifacebw : MaxBW(ifacebw[i].iface, Number(ifacebw[i].limit)) \in Lines
    <3>1. \A e \in Entry : MaxBW(e.iface, Number(e.limit)) \in Lines
      BY DEF Entry, MaxBW, Number, Lines, Values
    <3> QED
      BY <3>1 DEF Typed
  <2>2. DOMAIN ifacebw = 1..Len(ifacebw) /\ Len(ifacebw) \in Nat
    BY DEF Typed
  <2> QED
    BY <2>1, <2>2
<1> QED
  BY <1>4, <1>5, <1>6

LEMMA PrintedTyped == ASSUME Typed PROVE Printed \in Seq(Lines)
BY PrintedParts, ConcatProperties DEF Printed

LEMMA DumpTyped == ASSUME Typed, Dump PROVE Typed'
<1>1. files' \in [DOMAIN Contents -> Seq(Lines) \cup {Absent}]
  BY PrintedTyped DEF Typed, Dump
<1> QED
  BY <1>1, FilesTyped DEF Dump

-----------------------------------------------------------------------------
LEMMA NextTyped == Typed /\ [Next]_vars => Typed'
<1>1. ASSUME Typed, UNCHANGED vars PROVE Typed'
  BY <1>1 DEF Typed, vars, ValidConfig, InBounds, IntervalsOrdered
<1> QED
  BY <1>1, LoadTyped, ParseLineTyped, EndOfLinesTyped, ReadLimitTyped, ValidateTyped,
     EditTyped, DumpTyped DEF Next

\* Whatever the files hold and however they change, the program runs with a
\* valid configuration (validatecfg, and defaultcfg where it is not called).
THEOREM ConfigAlwaysValid == Spec => []ValidConfig
<1>1. Typed => ValidConfig
  BY DEF Typed, ValidConfig
<1> QED
  BY <1>1, InitTyped, NextTyped, PTL DEF Spec

-----------------------------------------------------------------------------
(***************************************************************************)
(* Which lines count.                                                      *)
(***************************************************************************)

\* The lines that setting s may take, of which it takes the first: a longer
\* name is open only once the shorter one was found.
Takes(s) ==
    IF s \in DOMAIN Shorter
        THEN {i \in LinesFor(s) : \E j \in ReadableAs(Shorter[s]) : j < i}
        ELSE ReadableAs(s)

Before(lines) == {i \in lines : i < pos}
IsLeast(i, lines) == i \in lines /\ \A j \in lines : i <= j
IsLast(i, lines) == i \in lines /\ \A j \in lines : j <= i

\* What is found of setting s is what the lines before pos give.
TakenOf(s) ==
    /\ s \in found <=> Before(Takes(s)) # {}
    /\ Before(Takes(s)) = {} =>
          /\ s \in Numeric => cfg[s] = DefaultCfg[s]
          /\ s \in Textual => text[s] = DefaultText[s]
    /\ \A i : IsLeast(i, Before(Takes(s))) =>
          /\ s \in Numeric => cfg[s] = Short(opened[i].value.n)
          /\ s \in Textual => text[s] = ValueFor(opened[i], s)

\* The first part of LinesCount, before anything is validated.
SettingsCount ==
    /\ \A s \in Numeric :
          cfg[s] = IF LinesFor(s) = {} THEN DefaultCfg[s]
                   ELSE Short(opened[FirstFor(s)].value.n)
    /\ \A s \in Textual :
          ~Confused(s) =>
             text[s] = IF LinesFor(s) = {} THEN DefaultText[s] ELSE opened[FirstFor(s)].value

\* The lines that give a limit to exactly this name.
ExactLines(n) == {k \in DOMAIN opened : IsLimit(opened[k]) /\ opened[k].iface = n}

\* The list has the last limit of every name before pos, each name once.
ListTaken ==
    /\ \A i, j \in DOMAIN ifacebw : ifacebw[i].iface = ifacebw[j].iface => i = j
    /\ \A n \in Ifaces :
          Before(ExactLines(n)) # {} <=> \E i \in DOMAIN ifacebw : ifacebw[i].iface = n
    /\ \A i \in DOMAIN ifacebw : \A n \in Ifaces, k \in Nat :
          ifacebw[i].iface = n /\ IsLast(k, Before(ExactLines(n))) =>
             ifacebw[i].limit = opened[k].value.n

LineInv ==
    /\ phase = "lines" => ifacebw = <<>> /\ \A s \in Numeric \cup Textual : TakenOf(s)
    /\ phase = "limits" => SettingsCount /\ ListTaken
    /\ phase = "running" /\ opened # Absent => ListTaken /\ pos > Len(opened)

-----------------------------------------------------------------------------
\* A set of lines that is not empty has a first and a last one.
LEMMA LeastLine ==
    ASSUME NEW lines \in SUBSET Nat, lines # {}
    PROVE \E i : IsLeast(i, lines)
<1>1. IsWellFoundedOn(OpToRel(<, Nat), Nat)
  BY NatLessThanWellFounded
<1>2. PICK i \in lines : \A j \in lines : ~(<<j, i>> \in OpToRel(<, Nat))
  BY <1>1, WFMin
<1>3. \A j \in lines : ~(j < i)
  BY <1>2 DEF OpToRel
<1> QED
  BY <1>3 DEF IsLeast

LEMMA LastLine ==
    ASSUME NEW n \in Nat, NEW lines \in SUBSET (1..n), lines # {}
    PROVE \E i : IsLast(i, lines)
<1> DEFINE mirror == {m \in Nat : \E i \in lines : m = n - i}
<1>1. mirror # {}
  <2>1. PICK i \in lines : TRUE
    OBVIOUS
  <2>2. n - i \in mirror
    BY <2>1
  <2> QED
    BY <2>2
<1>2. mirror \in SUBSET Nat
  OBVIOUS
<1> HIDE DEF mirror
<1>3. PICK m : IsLeast(m, mirror)
  BY <1>1, <1>2, LeastLine
<1>4. m \in mirror /\ \A j \in mirror : m <= j
  BY <1>3 DEF IsLeast
<1>5. PICK i \in lines : m = n - i
  BY <1>4 DEF mirror
<1>6. \A j \in lines : n - j \in mirror
  BY DEF mirror
<1>7. \A j \in lines : j <= i
  BY <1>4, <1>5, <1>6
<1> QED
  BY <1>7 DEF IsLast

\* The longer and the shorter names are textual settings of their own.
LEMMA ShorterNames ==
    /\ \A s \in DOMAIN Shorter :
          /\ s \in Textual /\ s \notin Numeric
          /\ Shorter[s] \in Textual /\ Shorter[s] \notin Numeric
          /\ Shorter[s] \notin DOMAIN Shorter
    /\ "MaxBW" \notin Numeric \cup Textual
    /\ \A s \in Numeric : s \notin Textual
BY DEF Shorter, Numeric, Textual, Bounds, Intervals, Unvalidated, Paths, Texts

\* What a line of a longer name gives to the shorter one is always usable.
LEMMA LongerUsable ==
    ASSUME NEW line, NEW s \in DOMAIN Shorter, line.key = s
    PROVE Usable(line, Shorter[s])
<1>1. Shorter[s] # s /\ Shorter[s] \notin Numeric
  BY ShorterNames
<1> QED
  BY <1>1 DEF Usable, ValueFor, Word

\* The names of a line that are settings.
LEMMA MatchesAre ==
    ASSUME NEW line, NEW s \in Numeric \cup Textual
    PROVE s \in Matches(line) <=>
             line.key = s \/ (line.key \in DOMAIN Shorter /\ Shorter[line.key] = s)
BY ShorterNames DEF Matches

\* A setting takes a line if it is the first that it may take.
LEMMA TakesFirst ==
    ASSUME \A s \in Numeric \cup Textual : s \in found <=> Before(Takes(s)) # {},
           pos \in DOMAIN opened, NEW s \in Numeric \cup Textual
    PROVE s \in SettingOf(opened[pos]) <=> pos \in Takes(s) /\ s \notin found
<1> DEFINE line == opened[pos]
           open == {t \in Matches(line) : t \notin found /\ Usable(line, t)}
<1>1. SettingOf(line) =
         IF line.key \in open /\ open # {line.key} THEN open \ {line.key} ELSE open
  BY DEF SettingOf
<1>2. s \in open <=> s \in Matches(line) /\ s \notin found /\ Usable(line, s)
  OBVIOUS
<1>3. CASE s \notin DOMAIN Shorter
  <2>1. pos \in Takes(s) <=> s \in Matches(line) /\ Usable(line, s)
    BY <1>3 DEF Takes, ReadableAs
  <2>2. line.key = s => Matches(line) \subseteq {s}
    BY <1>3 DEF Matches
  <2>3. s = line.key /\ s \in open => open = {s}
    BY <2>2
  <2> QED
    BY <1>1, <1>2, <2>1, <2>3
<1>4. CASE s \in DOMAIN Shorter
  <2> DEFINE short == Shorter[s]
  <2>1. s \in Matches(line) <=> line.key = s
    BY <1>4, MatchesAre, ShorterNames
  <2>2. short \in Textual /\ short \notin DOMAIN Shorter /\ short # s
    BY <1>4, ShorterNames
  <2>3. line.key = s => Usable(line, short) /\ short \in Matches(line)
    BY <1>4, <2>2, LongerUsable, MatchesAre
  <2>4. short \in found <=> \E j \in ReadableAs(short) : j < pos
    BY <2>2 DEF Takes, Before
  <2>5. pos \in Takes(s) <=> line.key = s /\ Usable(line, s) /\ short \in found
    BY <1>4, <2>4 DEF Takes, LinesFor
  <2>6. line.key = s => Matches(line) \subseteq {s, short}
    BY DEF Matches
  <2>7. ASSUME line.key = s, Usable(line, s), s \notin found
        PROVE s \in SettingOf(line) <=> short \in found
    <3>1. s \in open
      BY <2>1, <2>7
    <3>2. short \in open <=> short \notin found
      BY <2>3, <2>7
    <3>3. CASE short \in found
      <4>1. open = {s}
        BY <2>6, <2>7, <3>1, <3>2, <3>3
      <4> QED
        BY <1>1, <2>7, <3>3, <4>1
    <3>4. CASE short \notin found
      <4>1. open # {s} /\ line.key \in open
        BY <2>2, <2>7, <3>1, <3>2, <3>4
      <4> QED
        BY <1>1, <2>7, <3>4, <4>1
    <3> QED
      BY <3>3, <3>4
  <2>8. s \in SettingOf(line) => s \in open
    BY <1>1
  <2> QED
    BY <1>2, <2>1, <2>5, <2>7, <2>8
<1> QED
  BY <1>3, <1>4

\* The steps of loadcfg's loop keep what is found right.
LEMMA ParseLineTaken ==
    ASSUME Typed, \A s \in Numeric \cup Textual : TakenOf(s), ParseLine,
           NEW s \in Numeric \cup Textual
    PROVE TakenOf(s)'
<1> DEFINE line == opened[pos]
<1>1. /\ phase = "lines" /\ pos <= Len(opened) /\ pos' = pos + 1 /\ opened' = opened
      /\ found' = found \cup SettingOf(line)
      /\ cfg' = [t \in Numeric |-> IF t \in SettingOf(line) THEN Short(line.value.n) ELSE cfg[t]]
      /\ text' = [t \in Textual |-> IF t \in SettingOf(line) THEN ValueFor(line, t) ELSE text[t]]
  BY Zenon DEF ParseLine
<1>2. opened \in Seq(Lines) /\ pos \in Nat \ {0} /\ pos \in DOMAIN opened
  BY <1>1 DEF Typed
<1>3. s \in SettingOf(line) <=> pos \in Takes(s) /\ s \notin found
  BY <1>2, TakesFirst, Zenon DEF TakenOf
<1>4. Takes(s)' = Takes(s)
  BY <1>1 DEF Takes, LinesFor, ReadableAs
<1>5. Takes(s) \subseteq DOMAIN opened /\ DOMAIN opened \subseteq Nat
  BY <1>2 DEF Takes, LinesFor, ReadableAs
<1>6. Before(Takes(s))' = Before(Takes(s)) \cup ({pos} \cap Takes(s))
  BY <1>1, <1>2, <1>4, <1>5 DEF Before
<1>7. Before(Takes(s)) \subseteq Nat /\ \A i \in Before(Takes(s)) : i < pos
  BY <1>5 DEF Before
<1>8. TakenOf(s)
  OBVIOUS
<1> HIDE DEF line
<1>9. CASE s \in SettingOf(line)
  <2>1. Before(Takes(s)) = {} /\ Before(Takes(s))' = {pos}
    BY <1>3, <1>6, <1>8, <1>9 DEF TakenOf
  <2>2. \A i : IsLeast(i, Before(Takes(s)))' => i = pos
    BY <2>1 DEF IsLeast
  <2>3. s \in Numeric => cfg'[s] = Short(line.value.n)
    BY <1>1, <1>9
  <2>4. s \in Textual => text'[s] = ValueFor(line, s)
    BY <1>1, <1>9
  <2>5. (s \in Textual => text'[s] = ValueFor(opened'[pos], s)) /\ (s \in Numeric => cfg'[s] = Short(opened'[pos].value.n))
    BY <1>1, <2>3, <2>4 DEF line
  <2>6. s \in found'
    BY <1>1, <1>9
  <2>7. Before(Takes(s))' # {}
    BY <2>1
  <2> QED
    BY <2>2, <2>5, <2>6, <2>7, Zenon DEF TakenOf
<1>10. CASE s \notin SettingOf(line)
  <2>1. /\ s \in Numeric => cfg'[s] = cfg[s]
        /\ s \in Textual => text'[s] = text[s]
        /\ s \in found' <=> s \in found
    BY <1>1, <1>10
  <2>2. Before(Takes(s)) = {} <=> Before(Takes(s))' = {}
    BY <1>3, <1>6, <1>8, <1>10 DEF TakenOf
  <2>3. ASSUME NEW i, IsLeast(i, Before(Takes(s)))' PROVE IsLeast(i, Before(Takes(s)))
    <3>1. i \in Before(Takes(s))' /\ \A j \in Before(Takes(s))' : i <= j
      BY <2>3 DEF IsLeast
    <3>2. PICK j \in Before(Takes(s)) : TRUE
      BY <2>2, <3>1
    <3>3. i <= j /\ j < pos
      BY <1>6, <1>7, <3>1, <3>2
    <3>4. i # pos
      BY <1>2, <1>7, <3>2, <3>3
    <3> QED
      BY <1>6, <3>1, <3>4 DEF IsLeast
  <2> QED
    BY <1>1, <1>8, <2>1, <2>2, <2>3 DEF TakenOf
<1> QED
  BY <1>9, <1>10

\* Before the first line nothing is found.
LEMMA NothingTaken ==
    ASSUME opened' \in Seq(Lines), pos' = 1, found' = {},
           cfg' = DefaultCfg, text' = DefaultText, NEW s \in Numeric \cup Textual
    PROVE TakenOf(s)'
<1>1. Takes(s)' \subseteq 1..Len(opened')
  BY DEF Takes, LinesFor, ReadableAs
<1>2. Before(Takes(s))' = {}
  BY <1>1 DEF Before
<1> QED
  BY <1>2 DEF TakenOf, IsLeast

\* After the last line, the first line for a setting has counted.
LEMMA AllTaken ==
    ASSUME Typed, opened \in Seq(Lines), pos > Len(opened),
           \A s \in Numeric \cup Textual : TakenOf(s)
    PROVE SettingsCount
<1>1. \A s : /\ LinesFor(s) \in SUBSET (1..Len(opened))
             /\ ReadableAs(s) \in SUBSET (1..Len(opened))
             /\ Takes(s) \in SUBSET (1..Len(opened))
  BY DEF Takes, LinesFor, ReadableAs
<1>2. \A s : Before(Takes(s)) = Takes(s)
  BY <1>1 DEF Before, Typed
<1>3. \A s : LinesFor(s) # {} => IsLeast(FirstFor(s), LinesFor(s))
  <2> SUFFICES ASSUME NEW s, LinesFor(s) # {} PROVE IsLeast(FirstFor(s), LinesFor(s))
    OBVIOUS
  <2>1. LinesFor(s) \in SUBSET Nat
    BY <1>1
  <2>2. \E i : IsLeast(i, LinesFor(s))
    BY <2>1, LeastLine
  <2> QED
    BY <2>2 DEF FirstFor, IsLeast
<1>4. \A i, s : i \in LinesFor(s) => opened[i].key = s /\ i \in DOMAIN opened /\ Usable(opened[i], s)
  BY DEF LinesFor
<1>5. ASSUME NEW s \in Numeric
      PROVE cfg[s] = IF LinesFor(s) = {} THEN DefaultCfg[s]
                     ELSE Short(opened[FirstFor(s)].value.n)
  <2>1. s \notin DOMAIN Shorter /\ \A t \in DOMAIN Shorter : Shorter[t] # s
    BY ShorterNames
  <2>2. \A i \in DOMAIN opened : s \in Matches(opened[i]) <=> opened[i].key = s
    BY <2>1, MatchesAre
  <2>3. Takes(s) = LinesFor(s)
    BY <2>1, <2>2 DEF Takes, LinesFor, ReadableAs
  <2>4. TakenOf(s)
    OBVIOUS
  <2>5. CASE LinesFor(s) = {}
    BY <1>2, <2>3, <2>4, <2>5 DEF TakenOf
  <2>6. CASE LinesFor(s) # {}
    <3>1. IsLeast(FirstFor(s), Before(Takes(s)))
      BY <1>2, <1>3, <2>3, <2>6
    <3>2. cfg[s] = Short(opened[FirstFor(s)].value.n)
      BY <2>4, <3>1 DEF TakenOf
    <3> QED
      BY <2>6, <3>2
  <2> QED
    BY <2>5, <2>6
<1>6. ASSUME NEW s \in Textual, ~Confused(s)
      PROVE text[s] = IF LinesFor(s) = {} THEN DefaultText[s] ELSE opened[FirstFor(s)].value
  <2>1. TakenOf(s)
    OBVIOUS
  <2>2. CASE LinesFor(s) = {}
    <3>1. Takes(s) = {}
      <4>1. CASE s \in DOMAIN Shorter
        BY <2>2, <4>1 DEF Takes
      <4>2. CASE s \notin DOMAIN Shorter
        <5>1. \A i \in ReadableAs(s) : opened[i].key = s
          BY <1>6, <2>2 DEF Confused
        <5>2. ReadableAs(s) \subseteq LinesFor(s)
          BY <5>1 DEF ReadableAs, LinesFor
        <5> QED
          BY <2>2, <4>2, <5>2 DEF Takes
      <4> QED
        BY <4>1, <4>2
    <3> QED
      BY <1>2, <2>1, <2>2, <3>1 DEF TakenOf
  <2>3. CASE LinesFor(s) # {}
    <3> DEFINE f == FirstFor(s)
    <3>1. f \in LinesFor(s) /\ \A j \in LinesFor(s) : f <= j
      BY <1>3, <2>3 DEF IsLeast
    <3> HIDE DEF f
    <3>2. IsLeast(f, Takes(s))
      <4>1. CASE s \in DOMAIN Shorter
        <5>1. PICK j \in ReadableAs(Shorter[s]) : ~(f <= j)
          BY <1>6, <2>3, <4>1 DEF Confused, f
        <5>2. j < f
          BY <1>1, <3>1, <5>1
        <5> QED
          BY <3>1, <4>1, <5>2 DEF Takes, IsLeast
      <4>2. CASE s \notin DOMAIN Shorter
        <5>1. f \in ReadableAs(s)
          BY <1>4, <3>1, MatchesAre DEF ReadableAs
        <5>2. ASSUME NEW i \in ReadableAs(s) PROVE f <= i
          <6>1. CASE opened[i].key = s
            BY <3>1, <6>1 DEF ReadableAs, LinesFor
          <6>2. CASE opened[i].key # s
            <7>1. PICK j \in LinesFor(s) : ~(i < j)
              BY <1>6, <6>2 DEF Confused
            <7> QED
              BY <1>1, <3>1, <7>1
          <6> QED
            BY <6>1, <6>2
        <5> QED
          BY <4>2, <5>1, <5>2 DEF Takes, IsLeast
      <4> QED
        BY <4>1, <4>2
    <3>3. text[s] = ValueFor(opened[f], s)
      BY <1>2, <2>1, <3>2 DEF TakenOf
    <3>4. ValueFor(opened[f], s) = opened[f].value
      BY <1>4, <3>1 DEF ValueFor
    <3> QED
      BY <2>3, <3>3, <3>4 DEF f
  <2> QED
    BY <2>2, <2>3
<1> QED
  BY <1>5, <1>6 DEF SettingsCount

LEMMA ListTyped ==
    ASSUME Typed
    PROVE ifacebw \in Seq(Entry) /\ \A i \in DOMAIN ifacebw : ifacebw[i].iface \in Ifaces
<1>1. ifacebw \in Seq(Entry)
  BY DEF Typed
<1>2. \A i \in DOMAIN ifacebw : ifacebw[i] \in Entry
  BY <1>1
<1> QED
  BY <1>1, <1>2 DEF Entry

\* An entry has what the last line of its name gives.
LEMMA ListGives ==
    ASSUME Typed, ListTaken, opened \in Seq(Lines), NEW i \in DOMAIN ifacebw,
           NEW k, IsLast(k, Before(ExactLines(ifacebw[i].iface)))
    PROVE ifacebw[i].limit = opened[k].value.n
<1>1. k \in DOMAIN opened
  BY DEF IsLast, Before, ExactLines
<1> QED
  BY <1>1, ListTyped DEF ListTaken

\* The steps of ibwcfgread's loop keep the list right.
LEMMA ReadLimitTaken ==
    ASSUME Typed, ListTaken, ReadLimit
    PROVE ListTaken'
<1> DEFINE line == opened[pos]
           next(n) == {k \in ExactLines(n) : k < pos + 1}
<1>1. /\ phase = "limits" /\ pos <= Len(opened) /\ pos' = pos + 1 /\ opened' = opened
      /\ ifacebw' = IF IsLimit(line) THEN ibwadd(ifacebw, line.iface, line.value.n) ELSE ifacebw
  BY Zenon DEF ReadLimit
<1>2. opened \in Seq(Lines) /\ pos \in Nat \ {0} /\ pos \in DOMAIN opened /\ line \in Lines
  BY <1>1 DEF Typed
<1>3. ifacebw \in Seq(Entry) /\ \A i \in DOMAIN ifacebw : ifacebw[i].iface \in Ifaces
  BY ListTyped
<1>4. ASSUME \A i, j \in DOMAIN ifacebw' : ifacebw'[i].iface = ifacebw'[j].iface => i = j,
             \A n \in Ifaces : next(n) # {} <=> \E i \in DOMAIN ifacebw' : ifacebw'[i].iface = n,
             \A i \in DOMAIN ifacebw' : \A k : IsLast(k, next(ifacebw'[i].iface)) =>
                ifacebw'[i].limit = opened[k].value.n
      PROVE ListTaken'
  <2>1. \A n : Before(ExactLines(n))' = next(n)
    BY <1>1, Zenon DEF Before, ExactLines
  <2> HIDE DEF next
  <2>2. \A n \in Ifaces : Before(ExactLines(n))' # {} <=>
                           \E i \in DOMAIN ifacebw' : ifacebw'[i].iface = n
    BY <1>4, <2>1
  <2>3. ASSUME NEW i \in DOMAIN ifacebw', NEW n \in Ifaces, NEW k \in Nat,
               ifacebw'[i].iface = n, IsLast(k, Before(ExactLines(n)))'
        PROVE ifacebw'[i].limit = opened'[k].value.n
    <3>1. IsLast(k, next(ifacebw'[i].iface))
      BY <2>1, <2>3
    <3> QED
      BY <1>1, <1>4, <3>1
  <2> QED
    BY <1>4, <2>2, <2>3 DEF ListTaken, IsLast
<1>5. \A n : ExactLines(n) \subseteq DOMAIN opened /\ DOMAIN opened \subseteq Nat
  BY <1>2 DEF ExactLines
<1>6. \A n : next(n) = Before(ExactLines(n)) \cup ({pos} \cap ExactLines(n))
  BY <1>2, <1>5 DEF Before
<1>7. \A n : pos \in ExactLines(n) <=> IsLimit(line) /\ line.iface = n
  BY <1>2 DEF ExactLines
<1> HIDE DEF next
<1>8. CASE ~IsLimit(line)
  <2>1. ifacebw' = ifacebw
    BY <1>1, <1>8
  <2>2. \A n : next(n) = Before(ExactLines(n))
    BY <1>6, <1>7, <1>8
  <2>3. \A i \in DOMAIN ifacebw : \A k : IsLast(k, next(ifacebw[i].iface)) =>
           ifacebw[i].limit = opened[k].value.n
    BY <1>2, <2>2, ListGives
  <2> QED
    BY <1>4, <2>1, <2>2, <2>3 DEF ListTaken
<1>9. CASE IsLimit(line)
  <2> DEFINE n == line.iface  v == line.value.n
  <2>1. n \in Ifaces /\ v \in Int
    BY <1>2, <1>9, LimitTyped
  <2>2. next(n) = Before(ExactLines(n)) \cup {pos}
    BY <1>6, <1>7, <1>9
  <2>3. \A m : m # n => next(m) = Before(ExactLines(m))
    BY <1>6, <1>7, <1>9
  <2>4. ASSUME NEW k, IsLast(k, next(n)) PROVE k = pos
    <3>1. pos <= k /\ (k = pos \/ k < pos)
      BY <2>2, <2>4 DEF IsLast, Before
    <3>2. k \in Nat
      BY <1>2, <1>5, <2>2, <2>4 DEF IsLast, Before
    <3> QED
      BY <1>2, <3>1, <3>2
  <2>5. ifacebw' = ibwadd(ifacebw, n, v) /\ opened[pos].value.n = v
    BY <1>1, <1>9
  <2> HIDE DEF n, v
  <2>6. CASE \E i \in DOMAIN ifacebw : ifacebw[i].iface = n
    <3>1. ifacebw' = [i \in DOMAIN ifacebw |->
                        IF ifacebw[i].iface = n THEN [ifacebw[i] EXCEPT !.limit = v] ELSE ifacebw[i]]
      BY <2>5, <2>6 DEF ibwadd
    <3>2. \A i \in DOMAIN ifacebw : ifacebw[i] \in Entry
      BY <1>3
    <3>3. \A e \in Entry : LET c == [e EXCEPT !.limit = v] IN c.iface = e.iface /\ c.limit = v
      BY DEF Entry
    <3>4. DOMAIN ifacebw' = DOMAIN ifacebw
      BY <3>1
    <3>5. \A i \in DOMAIN ifacebw :
             /\ ifacebw'[i].iface = ifacebw[i].iface
             /\ ifacebw[i].iface = n => ifacebw'[i].limit = v
             /\ ifacebw[i].iface # n => ifacebw'[i] = ifacebw[i]
      BY <3>1, <3>2, <3>3
    <3>6. ASSUME NEW i \in DOMAIN ifacebw', NEW k, IsLast(k, next(ifacebw'[i].iface))
          PROVE ifacebw'[i].limit = opened[k].value.n
      <4>1. CASE ifacebw[i].iface = n
        BY <2>4, <2>5, <3>4, <3>5, <3>6, <4>1
      <4>2. CASE ifacebw[i].iface # n
        <5>1. IsLast(k, Before(ExactLines(ifacebw[i].iface)))
          BY <2>3, <3>4, <3>5, <3>6, <4>2
        <5> QED
          BY <1>2, <3>4, <3>5, <4>2, <5>1, ListGives
      <4> QED
        BY <4>1, <4>2
    <3>7. \A m \in Ifaces : next(m) # {} <=>
                             \E i \in DOMAIN ifacebw' : ifacebw'[i].iface = m
      <4>1. next(n) # {}
        BY <2>2
      <4> QED
        BY <2>3, <2>6, <3>4, <3>5, <4>1 DEF ListTaken
    <3>8. \A i, j \in DOMAIN ifacebw' : ifacebw'[i].iface = ifacebw'[j].iface => i = j
      BY <3>4, <3>5 DEF ListTaken
    <3> QED
      BY <1>4, <3>6, <3>7, <3>8, Zenon
  <2>7. CASE ~ \E i \in DOMAIN ifacebw : ifacebw[i].iface = n
    <3> DEFINE e == [iface |-> n, limit |-> v]
    <3>1. ifacebw' = <<e>> \o ifacebw
      BY <2>5, <2>7 DEF ibwadd
    <3>2. e \in Entry /\ <<e>> \in Seq(Entry) /\ e.iface = n /\ e.limit = v
      BY <2>1 DEF Entry
    <3> HIDE DEF e
    <3>3. /\ Len(ifacebw) \in Nat /\ DOMAIN ifacebw = 1..Len(ifacebw)
          /\ DOMAIN ifacebw' = 1..(Len(ifacebw) + 1)
          /\ ifacebw'[1] = e
          /\ \A i \in DOMAIN ifacebw : i + 1 \in DOMAIN ifacebw' /\ ifacebw'[i + 1] = ifacebw[i]
      BY <1>3, <3>1, <3>2
    <3>4. ASSUME NEW i \in DOMAIN ifacebw'
          PROVE \/ i = 1 /\ ifacebw'[i] = e
                \/ i - 1 \in DOMAIN ifacebw /\ ifacebw'[i] = ifacebw[i - 1]
      BY <3>3
    <3>5. \A i \in DOMAIN ifacebw : ifacebw[i].iface # n
      BY <2>7
    <3>6. \A i, j \in DOMAIN ifacebw' : ifacebw'[i].iface = ifacebw'[j].iface => i = j
      <4> SUFFICES ASSUME NEW i \in DOMAIN ifacebw', NEW j \in DOMAIN ifacebw',
                          ifacebw'[i].iface = ifacebw'[j].iface
                   PROVE i = j
        OBVIOUS
      <4>1. CASE i = 1 \/ j = 1
        BY <3>2, <3>3, <3>4, <3>5, <4>1
      <4>2. CASE i # 1 /\ j # 1
        <5>1. /\ i - 1 \in DOMAIN ifacebw /\ ifacebw'[i] = ifacebw[i - 1]
              /\ j - 1 \in DOMAIN ifacebw /\ ifacebw'[j] = ifacebw[j - 1]
          BY <3>4, <4>2
        <5>2. i - 1 = j - 1
          BY <5>1 DEF ListTaken
        <5> QED
          BY <3>3, <5>2
      <4> QED
        BY <4>1, <4>2
    <3>7. \A m \in Ifaces : next(m) # {} <=>
                             \E i \in DOMAIN ifacebw' : ifacebw'[i].iface = m
      <4> SUFFICES ASSUME NEW m \in Ifaces
                   PROVE next(m) # {} <=>
                            \E i \in DOMAIN ifacebw' : ifacebw'[i].iface = m
        OBVIOUS
      <4>1. CASE m = n
        <5>1. 1 \in DOMAIN ifacebw' /\ ifacebw'[1].iface = n
          BY <3>2, <3>3
        <5> QED
          BY <2>2, <4>1, <5>1
      <4>2. CASE m # n
        <5>1. (\E i \in DOMAIN ifacebw' : ifacebw'[i].iface = m) <=>
                 \E i \in DOMAIN ifacebw : ifacebw[i].iface = m
          BY <3>2, <3>3, <3>4, <4>2
        <5> QED
          BY <2>3, <4>2, <5>1 DEF ListTaken
      <4> QED
        BY <4>1, <4>2
    <3>8. ASSUME NEW i \in DOMAIN ifacebw', NEW k, IsLast(k, next(ifacebw'[i].iface))
          PROVE ifacebw'[i].limit = opened[k].value.n
      <4>1. CASE i = 1
        BY <2>4, <2>5, <3>2, <3>3, <3>8, <4>1
      <4>2. CASE i # 1
        <5>1. i - 1 \in DOMAIN ifacebw /\ ifacebw'[i] = ifacebw[i - 1]
          BY <3>4, <4>2
        <5>2. IsLast(k, Before(ExactLines(ifacebw[i - 1].iface)))
          BY <2>3, <3>5, <3>8, <5>1
        <5> QED
          BY <1>2, <5>1, <5>2, ListGives
      <4> QED
        BY <4>1, <4>2
    <3> QED
      BY <1>4, <3>6, <3>7, <3>8, Zenon
  <2> QED
    BY <2>6, <2>7
<1> QED
  BY <1>8, <1>9

\* The list gives the last limit of an interface, if no two entries have the
\* same name in whatever case.
LEMMA LimitsRight ==
    ASSUME Typed, opened \in Seq(Lines), pos > Len(opened), ListTaken, NamesDiffer,
           NEW i \in Ifaces
    PROVE LET own == LimitLines(i)
              limit == IF own = {} THEN cfg["MaxBandwidth"]
                       ELSE opened[CHOOSE k \in own : \A l \in own : l <= k].value.n
          IN Limits[i] = IF limit > 0 THEN limit ELSE -1
<1> DEFINE own == LimitLines(i)
           named == {j \in DOMAIN ifacebw : SameName(ifacebw[j].iface, i)}
           last == CHOOSE k \in own : \A l \in own : l <= k
           first == CHOOSE j \in named : \A l \in named : j <= l
           limit == IF own = {} THEN cfg["MaxBandwidth"] ELSE opened[last].value.n
           given_ == IF named = {} THEN cfg["MaxBandwidth"] ELSE ifacebw[first].limit
<1>1. \A n : Before(ExactLines(n)) = ExactLines(n)
  BY DEF Before, ExactLines, Typed
<1>2. ifacebw \in Seq(Entry) /\ \A j \in DOMAIN ifacebw : ifacebw[j].iface \in Ifaces
  BY ListTyped
<1>3. \A k \in own : opened[k] \in Lines /\ opened[k].iface \in Ifaces
  BY LimitTyped DEF LimitLines
<1>4. \A j \in named : \E k \in own : opened[k].iface = ifacebw[j].iface
  <2> SUFFICES ASSUME NEW j \in named PROVE \E k \in own : opened[k].iface = ifacebw[j].iface
    OBVIOUS
  <2>1. Before(ExactLines(ifacebw[j].iface)) # {}
    BY <1>2 DEF ListTaken
  <2>2. PICK k \in ExactLines(ifacebw[j].iface) : TRUE
    BY <1>1, <2>1
  <2>3. k \in own /\ opened[k].iface = ifacebw[j].iface
    BY <2>2 DEF ExactLines, LimitLines
  <2> QED
    BY <2>3
<1>5. \A k \in own : \E j \in named : ifacebw[j].iface = opened[k].iface
  <2> SUFFICES ASSUME NEW k \in own PROVE \E j \in named : ifacebw[j].iface = opened[k].iface
    OBVIOUS
  <2>1. k \in ExactLines(opened[k].iface) /\ SameName(opened[k].iface, i)
    BY DEF ExactLines, LimitLines
  <2>2. \E j \in DOMAIN ifacebw : ifacebw[j].iface = opened[k].iface
    BY <1>1, <1>3, <2>1 DEF ListTaken
  <2> QED
    BY <2>1, <2>2
<1>6. \A j, l \in named : j = l
  BY <1>2, ConfigAssumption DEF NamesDiffer
<1>7. own = {} <=> named = {}
  BY <1>4, <1>5
<1>8. own # {} => last \in own /\ \A l \in own : l <= last
  <2>1. own \in SUBSET (1..Len(opened)) /\ Len(opened) \in Nat
    BY DEF LimitLines
  <2> HIDE DEF own
  <2>2. own # {} => \E k : IsLast(k, own)
    BY <2>1, LastLine
  <2> QED
    BY <2>2 DEF IsLast
<1>9. ASSUME own # {} PROVE ifacebw[first].limit = opened[last].value.n
  <2>1. PICK j \in named : ifacebw[j].iface = opened[last].iface
    BY <1>5, <1>8, <1>9
  <2>2. first = j
    <3>1. j \in DOMAIN ifacebw /\ DOMAIN ifacebw \subseteq Nat
      BY <1>2
    <3>2. \A l \in named : j <= l
      BY <1>6, <3>1
    <3>3. first \in named
      BY <3>2
    <3> HIDE DEF first
    <3> QED
      BY <1>6, <3>3
  <2> HIDE DEF first, last, named
  <2>3. j \in DOMAIN ifacebw
    BY DEF named
  <2>4. IsLast(last, Before(ExactLines(ifacebw[j].iface)))
    <3>1. last \in ExactLines(opened[last].iface)
      BY <1>8, <1>9 DEF LimitLines, ExactLines
    <3>2. ASSUME NEW k \in ExactLines(opened[last].iface) PROVE k \in own
      <4>1. SameName(opened[last].iface, i)
        BY <1>8, <1>9 DEF LimitLines
      <4> QED
        BY <3>2, <4>1 DEF ExactLines, LimitLines
    <3> QED
      BY <1>1, <1>8, <1>9, <2>1, <3>1, <3>2 DEF IsLast
  <2> QED
    BY <2>2, <2>3, <2>4, ListGives
<1>10. limit = given_
  <2> HIDE DEF first, last, named, own
  <2> QED
    BY <1>7, <1>9
<1>11. Limits[i] = IF given_ > 0 THEN given_ ELSE -1
  BY Zenon DEF Limits, ibwget
<1>12. Limits[i] = IF limit > 0 THEN limit ELSE -1
  <2> HIDE DEF limit, given_
  <2> QED
    BY <1>10, <1>11
<1> QED
  BY <1>12, Zenon

-----------------------------------------------------------------------------
LEMMA InitLines == Init => LineInv
BY DEF Init, LineInv

LEMMA LoadLines == ASSUME Typed, Load PROVE LineInv'
<1>1. Typed'
  BY LoadTyped
<1>2. phase' = "lines" \/ (opened' = Absent /\ phase' \in {"exited", "running"})
  BY DEF Load
<1>3. /\ pos' = 1 /\ found' = {} /\ ifacebw' = <<>>
      /\ cfg' = DefaultCfg /\ text' = DefaultText
  BY DEF Load
<1>4. CASE phase' = "lines"
  <2>1. opened' \in Seq(Lines)
    BY <1>1, <1>4 DEF Typed
  <2>2. \A s \in Numeric \cup Textual : TakenOf(s)'
    BY <1>3, <2>1, NothingTaken
  <2> QED
    BY <1>3, <1>4, <2>2 DEF LineInv
<1>5. CASE phase' # "lines"
  BY <1>2, <1>5 DEF LineInv
<1> QED
  BY <1>4, <1>5

LEMMA ParseLineLines == ASSUME Typed, LineInv, ParseLine PROVE LineInv'
<1>1. /\ phase = "lines" /\ phase' = phase /\ ifacebw' = ifacebw
      /\ ifacebw = <<>> /\ \A s \in Numeric \cup Textual : TakenOf(s)
  BY DEF LineInv, ParseLine
<1>2. \A s \in Numeric \cup Textual : TakenOf(s)'
  BY <1>1, ParseLineTaken
<1> QED
  BY <1>1, <1>2 DEF LineInv

LEMMA EndOfLinesLines == ASSUME Typed, LineInv, EndOfLines PROVE LineInv'
<1>1. /\ phase = "lines" /\ phase' = "limits" /\ pos > Len(opened) /\ pos' = 1
      /\ opened' = opened /\ cfg' = cfg /\ text' = text /\ ifacebw' = ifacebw
      /\ ifacebw = <<>> /\ \A s \in Numeric \cup Textual : TakenOf(s)
  BY DEF LineInv, EndOfLines
<1>2. opened \in Seq(Lines)
  BY <1>1 DEF Typed
<1>3. SettingsCount
  BY <1>1, <1>2, AllTaken
<1>4. SettingsCount'
  BY <1>1, <1>3 DEF SettingsCount, Confused, LinesFor, FirstFor, ReadableAs
<1>5. \A n : Before(ExactLines(n))' = {}
  BY <1>1, <1>2 DEF Before, ExactLines
<1>6. ListTaken'
  BY <1>1, <1>5 DEF ListTaken
<1> QED
  BY <1>1, <1>4, <1>6 DEF LineInv

LEMMA ReadLimitLines == ASSUME Typed, LineInv, ReadLimit PROVE LineInv'
<1>1. /\ phase = "limits" /\ phase' = phase
      /\ opened' = opened /\ cfg' = cfg /\ text' = text
      /\ SettingsCount /\ ListTaken
  BY DEF LineInv, ReadLimit
<1>2. SettingsCount'
  BY <1>1 DEF SettingsCount, Confused, LinesFor, FirstFor, ReadableAs
<1>3. ListTaken'
  BY <1>1, ReadLimitTaken
<1> QED
  BY <1>1, <1>2, <1>3 DEF LineInv

LEMMA ListKept ==
    ASSUME ListTaken, UNCHANGED <<opened, pos, ifacebw>> PROVE ListTaken'
BY DEF ListTaken, Before, ExactLines, IsLast

LEMMA ValidateLines == ASSUME Typed, LineInv, Validate PROVE LineInv'
<1>1. /\ phase = "limits" /\ phase' = "running" /\ pos > Len(opened) /\ ListTaken
      /\ UNCHANGED <<opened, pos, ifacebw>>
  BY DEF LineInv, Validate
<1>2. ListTaken'
  BY <1>1, ListKept
<1> QED
  BY <1>1, <1>2 DEF LineInv

\* A step that changes nothing but the files.
LEMMA FilesLines ==
    ASSUME LineInv, phase = "running", UNCHANGED <<phase, opened, pos, ifacebw>>
    PROVE LineInv'
<1>1. opened # Absent => ListTaken /\ ListTaken' /\ pos > Len(opened)
  BY ListKept DEF LineInv
<1> QED
  BY <1>1 DEF LineInv

LEMMA NextLines == Typed /\ LineInv /\ [Next]_vars => LineInv'
<1>1. ASSUME LineInv, UNCHANGED vars PROVE LineInv'
  <2>1. UNCHANGED <<phase, opened, pos, found, cfg, text, ifacebw>>
    BY <1>1 DEF vars
  <2>2. SettingsCount' = SettingsCount
    BY <2>1 DEF SettingsCount, Confused, LinesFor, FirstFor, ReadableAs
  <2>3. \A s : TakenOf(s)' = TakenOf(s)
    BY <2>1 DEF TakenOf, Before, Takes, LinesFor, ReadableAs, IsLeast
  <2>4. ListTaken => ListTaken'
    BY <2>1, ListKept
  <2> QED
    BY <1>1, <2>1, <2>2, <2>3, <2>4, Zenon DEF LineInv
<1>2. ASSUME LineInv, Edit \/ Dump PROVE LineInv'
  BY <1>2, FilesLines DEF Edit, Dump
<1> QED
  BY <1>1, <1>2, LoadLines, ParseLineLines, EndOfLinesLines, ReadLimitLines, ValidateLines
     DEF Next

LEMMA LinesRight == Typed /\ LineInv => LinesCount
<1> SUFFICES ASSUME Typed, LineInv PROVE LinesCount
  OBVIOUS
<1>1. phase = "limits" => SettingsCount
  BY DEF LineInv
<1>2. ASSUME phase = "running", opened # Absent, NamesDiffer, NEW i \in Ifaces
      PROVE LET own == LimitLines(i)
                limit == IF own = {} THEN cfg["MaxBandwidth"]
                         ELSE opened[CHOOSE k \in own : \A l \in own : l <= k].value.n
            IN Limits[i] = IF limit > 0 THEN limit ELSE -1
  <2>1. opened \in Seq(Lines)
    BY <1>2 DEF Typed
  <2>2. ListTaken /\ pos > Len(opened)
    BY <1>2 DEF LineInv
  <2> QED
    BY <1>2, <2>1, <2>2, LimitsRight, Zenon
<1> QED
  BY <1>1, <1>2, Zenon DEF LinesCount, SettingsCount

\* Whatever the files hold, the first line for a setting and the last one for
\* a limit count (loadcfg, ibwcfgread), as far as the names allow.
THEOREM LinesCountAlways == Spec => []LinesCount
<1>1. Init => Typed /\ LineInv
  BY InitTyped, InitLines
<1>2. (Typed /\ LineInv) /\ [Next]_vars => (Typed /\ LineInv)'
  BY NextTyped, NextLines
<1> QED
  BY <1>1, <1>2, LinesRight, PTL DEF Spec

-----------------------------------------------------------------------------
(***************************************************************************)
(* What --showconfig prints is loaded as it was.                           *)
(***************************************************************************)

Shorts == {n \in Int : -32768 <= n /\ n <= 32767}
Small == {n \in Nat : n <= 32767}
Limited == [iface : Ifaces \ {NoName}, limit : 0..MaxLimit]

\* What can be printed so that it is read again: numbers of their width, no
\* empty text, and a list of usable limits, each name once.
Printable(c, t, list) ==
    /\ c \in [Numeric -> Shorts]
    /\ t \in [Textual -> Values] /\ \A s \in Textual : t[s].kind # "nothing"
    /\ list \in Seq(Limited)
    /\ \A i, j \in DOMAIN list : list[i].iface = list[j].iface => i = j

\* What validatecfg leaves as it is.
ValidSettings(c, t) ==
    /\ \A s \in DOMAIN Bounds : c[s] \in Bounds[s].lo..Bounds[s].hi
    /\ c["PollInterval"] \in 2..60
    /\ c["UpdateInterval"] \in c["PollInterval"]..300
    /\ c["SaveInterval"] \in 1..60
    /\ c["SaveInterval"] * 60 >= c["UpdateInterval"]
    /\ c["OfflineSaveInterval"] \in c["SaveInterval"]..60
    /\ \A s \in DOMAIN Paths : t[s].kind = "path"

\* The value of setting s as it is printed.
PrintedValue(c, t, s) ==
    IF s \in Textual THEN t[s] ELSE IF c[s] >= 0 THEN Number(c[s]) ELSE Word(c[s])

\* A file that has every setting, the shorter names before the longer ones, and
\* the limits of the list.
PrintedFile(file, c, t, list) ==
    /\ file \in Seq(Lines)
    /\ \A k \in DOMAIN file : file[k].key # "MaxBW" =>
          /\ file[k].key \in Numeric \cup Textual
          /\ file[k].value = PrintedValue(c, t, file[k].key)
          /\ file[k].key \in DOMAIN Shorter =>
                \E j \in DOMAIN file : j < k /\ file[j].key = Shorter[file[k].key]
    /\ \A s \in Numeric \cup Textual : \E k \in DOMAIN file : file[k].key = s
    /\ \A k \in DOMAIN file : file[k].key = "MaxBW" =>
          \E i \in DOMAIN list : /\ file[k].iface = list[i].iface
                                 /\ file[k].value = Number(list[i].limit)
    /\ \A i \in DOMAIN list : \E k \in DOMAIN file :
          /\ file[k].key = "MaxBW" /\ file[k].iface = list[i].iface
          /\ file[k].value = Number(list[i].limit)

\* The file that was printed is in its place, and is the one that is loaded.
DumpedOk(list) ==
    /\ Printable(dumped.cfg, dumped.text, list)
    /\ ValidSettings(dumped.cfg, dumped.text)
    /\ dumped.limit = [i \in Ifaces |-> ibwget(list, i, dumped.cfg["MaxBandwidth"])]
    /\ PrintedFile(files[Places[1]], dumped.cfg, dumped.text, list)
    /\ phase \in {"lines", "limits"} => opened = files[Places[1]]

RoundInv ==
    /\ Printable(cfg, text, ifacebw)
    /\ phase \in {"start", "exited"} => dumped = NotDumped
    /\ dumped # NotDumped => \E list : DumpedOk(list)
    /\ RoundTrip

-----------------------------------------------------------------------------
\* printcfgfile prints every setting.
LEMMA AllPrinted ==
    ASSUME NEW s \in Numeric \cup Textual
    PROVE \/ \E i \in 1..15 : PrintedBefore[i] = s
          \/ \E i \in 1..31 : PrintedAfter[i] = s
<1>1. s \in DOMAIN Bounds \/ s \in DOMAIN Intervals \/ s \in DOMAIN Unvalidated
      \/ s \in DOMAIN Paths \/ s \in DOMAIN Texts
  BY DEF Numeric, Textual
<1>2. CASE s \in DOMAIN Bounds
  BY <1>2 DEF Bounds, PrintedBefore, PrintedAfter
<1>3. CASE s \in DOMAIN Intervals \/ s \in DOMAIN Unvalidated \/ s \in DOMAIN Paths
  BY <1>3 DEF Intervals, Unvalidated, Paths, PrintedBefore, PrintedAfter
<1>4. CASE s \in DOMAIN Texts
  BY <1>4 DEF Texts, PrintedBefore, PrintedAfter
<1> QED
  BY <1>1, <1>2, <1>3, <1>4

LEMMA PrintedNames ==
    /\ DOMAIN PrintedBefore = 1..15 /\ DOMAIN PrintedAfter = 1..31
    /\ \A i \in 1..15 : /\ PrintedBefore[i] \in Numeric \cup Textual
                        /\ PrintedBefore[i] \notin DOMAIN Shorter
                        /\ PrintedBefore[i] # "MaxBW"
    /\ \A i \in 1..31 : PrintedAfter[i] \in Numeric \cup Textual /\ PrintedAfter[i] # "MaxBW"
<1>1. DOMAIN PrintedBefore = 1..15 /\ DOMAIN PrintedAfter = 1..31
  BY DEF PrintedBefore, PrintedAfter
<1>2. \A i \in 1..15 : PrintedBefore[i] \in Numeric \cup Textual
  BY DEF PrintedBefore, Numeric, Textual, Bounds, Intervals, Unvalidated, Paths, Texts
<1>3. \A i \in 1..15 : PrintedBefore[i] \notin DOMAIN Shorter
  BY DEF PrintedBefore, Shorter
<1>4. \A i \in 1..31 : PrintedAfter[i] \in Numeric \cup Textual
  BY DEF PrintedAfter, Numeric, Textual, Bounds, Intervals, Unvalidated, Paths, Texts
<1> QED
  BY <1>1, <1>2, <1>3, <1>4, ShorterNames

\* The shorter names are printed before the longer ones.
LEMMA ShorterFirst ==
    ASSUME NEW i \in 1..31, PrintedAfter[i] \in DOMAIN Shorter
    PROVE \E j \in 1..31 : j < i /\ PrintedAfter[j] = Shorter[PrintedAfter[i]]
<1>1. /\ PrintedAfter[22] = "CHeader" /\ PrintedAfter[26] = "CLine"
      /\ PrintedAfter[28] = "CRx" /\ PrintedAfter[29] = "CTx"
  BY DEF PrintedAfter
<1>2. i \in {23, 24, 27, 30, 31}
  BY DEF PrintedAfter, Shorter
<1>3. CASE i \in {23, 24}
  BY <1>1, <1>3 DEF PrintedAfter, Shorter
<1>4. CASE i \in {27, 30, 31}
  BY <1>1, <1>4 DEF PrintedAfter, Shorter
<1> QED
  BY <1>2, <1>3, <1>4

\* The elements of two sequences, one after the other.
LEMMA Joined ==
    ASSUME NEW P \in Seq(Lines), NEW Q \in Seq(Lines)
    PROVE /\ P \o Q \in Seq(Lines) /\ Len(P \o Q) = Len(P) + Len(Q)
          /\ \A i \in 1..Len(P) : (P \o Q)[i] = P[i]
          /\ \A i \in 1..Len(Q) : (P \o Q)[Len(P) + i] = Q[i]
<1> DEFINE p == Len(P)  q == Len(Q)
<1>1. /\ P \o Q \in Seq(Lines) /\ Len(P \o Q) = p + q
      /\ \A i \in 1..(p + q) : (P \o Q)[i] = IF i <= p THEN P[i] ELSE Q[i - p]
  BY ConcatProperties
<1>2. p \in Nat /\ q \in Nat
  OBVIOUS
<1> HIDE DEF p, q
<1>3. ASSUME NEW i \in 1..p PROVE (P \o Q)[i] = P[i]
  <2>1. i \in 1..(p + q) /\ i <= p
    BY <1>2
  <2> QED
    BY <1>1, <2>1
<1>4. ASSUME NEW i \in 1..q PROVE (P \o Q)[p + i] = Q[i]
  <2>1. p + i \in 1..(p + q) /\ ~(p + i <= p) /\ (p + i) - p = i
    BY <1>2
  <2> QED
    BY <1>1, <2>1
<1> QED
  BY <1>1, <1>3, <1>4 DEF p, q

\* What printcfgfile prints is such a file.
LEMMA PrintedIs ==
    ASSUME Typed
    PROVE PrintedFile(Printed, cfg, text, ifacebw)
<1> DEFINE A == [i \in DOMAIN PrintedBefore |-> PrintedLine(PrintedBefore[i])]
           L == [i \in DOMAIN ifacebw |-> MaxBW(ifacebw[i].iface, Number(ifacebw[i].limit))]
           B == [i \in DOMAIN PrintedAfter |-> PrintedLine(PrintedAfter[i])]
           n == Len(ifacebw)
<1>1. n \in Nat /\ DOMAIN ifacebw = 1..n
  BY DEF Typed
<1>2. /\ \A i \in 1..15 : A[i] = PrintedLine(PrintedBefore[i])
      /\ \A i \in 1..n : L[i] = MaxBW(ifacebw[i].iface, Number(ifacebw[i].limit))
      /\ \A i \in 1..31 : B[i] = PrintedLine(PrintedAfter[i])
  BY <1>1, PrintedNames
<1>3. /\ A \in Seq(Lines) /\ Len(A) = 15
      /\ L \in Seq(Lines) /\ Len(L) = n
      /\ B \in Seq(Lines) /\ Len(B) = 31
  <2>1. A \in Seq(Lines) /\ L \in Seq(Lines) /\ B \in Seq(Lines)
    BY PrintedParts
  <2>2. DOMAIN A = 1..15 /\ DOMAIN L = 1..n /\ DOMAIN B = 1..31
    BY <1>1, PrintedNames
  <2> HIDE DEF A, L, B, n
  <2> QED
    BY <1>1, <2>1, <2>2
<1>4. Printed = A \o L \o B
  BY DEF Printed
<1> HIDE DEF A, L, B, n
<1>5. /\ Printed \in Seq(Lines) /\ Len(Printed) = 46 + n
      /\ \A i \in 1..15 : Printed[i] = A[i]
      /\ \A i \in 1..n : Printed[15 + i] = L[i]
      /\ \A i \in 1..31 : Printed[15 + n + i] = B[i]
  <2> DEFINE P == A \o L
  <2>1. /\ P \in Seq(Lines) /\ Len(P) = 15 + n
        /\ \A i \in 1..15 : P[i] = A[i]
        /\ \A i \in 1..n : P[15 + i] = L[i]
    <3>1. /\ P \in Seq(Lines) /\ Len(P) = Len(A) + Len(L)
          /\ \A i \in 1..Len(A) : P[i] = A[i]
          /\ \A i \in 1..Len(L) : P[Len(A) + i] = L[i]
      BY <1>3, Joined
    <3> QED
      BY <1>3, <3>1
  <2> HIDE DEF P
  <2>2. /\ P \o B \in Seq(Lines) /\ Len(P \o B) = 46 + n
        /\ \A i \in 1..(15 + n) : (P \o B)[i] = P[i]
        /\ \A i \in 1..31 : (P \o B)[15 + n + i] = B[i]
    <3>1. /\ P \o B \in Seq(Lines) /\ Len(P \o B) = Len(P) + Len(B)
          /\ \A i \in 1..Len(P) : (P \o B)[i] = P[i]
          /\ \A i \in 1..Len(B) : (P \o B)[Len(P) + i] = B[i]
      BY <1>3, <2>1, Joined
    <3>2. (15 + n) + 31 = 46 + n
      BY <1>1
    <3> QED
      BY <1>3, <2>1, <3>1, <3>2
  <2>3. /\ Printed \in Seq(Lines) /\ Len(Printed) = 46 + n
        /\ \A i \in 1..(15 + n) : Printed[i] = P[i]
        /\ \A i \in 1..31 : Printed[15 + n + i] = B[i]
    BY <1>4, <2>2 DEF P
  <2>4. \A i \in 1..15 : i \in 1..(15 + n)
    BY <1>1
  <2>5. \A i \in 1..n : 15 + i \in 1..(15 + n)
    BY <1>1
  <2> QED
    BY <2>1, <2>3, <2>4, <2>5
<1>6. DOMAIN Printed = 1..(46 + n)
  BY <1>1, <1>5
<1>7. ASSUME NEW k \in 1..(46 + n)
      PROVE \/ k \in 1..15 /\ Printed[k] = PrintedLine(PrintedBefore[k])
            \/ k - 15 \in 1..n /\ Printed[k] = MaxBW(ifacebw[k - 15].iface, Number(ifacebw[k - 15].limit))
            \/ k - (15 + n) \in 1..31 /\ Printed[k] = PrintedLine(PrintedAfter[k - (15 + n)])
  <2>1. k \in 1..15 \/ k - 15 \in 1..n \/ k - (15 + n) \in 1..31
    BY <1>1
  <2>2. 15 + (k - 15) = k /\ 15 + n + (k - (15 + n)) = k
    BY <1>1
  <2> QED
    BY <1>2, <1>5, <2>1, <2>2
<1>8. \A s \in Numeric \cup Textual : LET p == PrintedLine(s) IN
         p.key = s /\ p.value = PrintedValue(cfg, text, s)
  BY DEF PrintedLine, PrintedValue, Setting
<1>9. \A i \in DOMAIN ifacebw : LET p == MaxBW(ifacebw[i].iface, Number(ifacebw[i].limit)) IN
         p.key = "MaxBW" /\ p.iface = ifacebw[i].iface /\ p.value = Number(ifacebw[i].limit)
  BY DEF MaxBW
<1>10. ASSUME NEW k \in DOMAIN Printed, Printed[k].key # "MaxBW"
       PROVE /\ Printed[k].key \in Numeric \cup Textual
             /\ Printed[k].value = PrintedValue(cfg, text, Printed[k].key)
             /\ Printed[k].key \in DOMAIN Shorter =>
                   \E j \in DOMAIN Printed : j < k /\ Printed[j].key = Shorter[Printed[k].key]
  <2>1. CASE k \in 1..15 /\ Printed[k] = PrintedLine(PrintedBefore[k])
    BY <1>8, <2>1, PrintedNames
  <2>2. CASE k - (15 + n) \in 1..31 /\ Printed[k] = PrintedLine(PrintedAfter[k - (15 + n)])
    <3> DEFINE i == k - (15 + n)
    <3>1. PrintedAfter[i] \in Numeric \cup Textual
      BY <2>2, PrintedNames
    <3>2. Printed[k].key = PrintedAfter[i] /\ Printed[k].value = PrintedValue(cfg, text, PrintedAfter[i])
      BY <1>8, <2>2, <3>1
    <3>3. ASSUME PrintedAfter[i] \in DOMAIN Shorter
          PROVE \E j \in DOMAIN Printed : j < k /\ Printed[j].key = Shorter[Printed[k].key]
      <4>1. PICK j \in 1..31 : j < i /\ PrintedAfter[j] = Shorter[PrintedAfter[i]]
        BY <2>2, <3>3, ShorterFirst
      <4>2. Printed[15 + n + j].key = PrintedAfter[j]
        <5>1. Printed[15 + n + j] = PrintedLine(PrintedAfter[j])
          BY <1>2, <1>5
        <5> QED
          BY <1>8, <5>1, PrintedNames
      <4>3. 15 + n + j \in DOMAIN Printed /\ 15 + n + j < k
        <5>0. k \in 1..(46 + n)
          BY <1>6, <1>10
        <5>1. k \in Int /\ j \in Int /\ n \in Nat /\ j \in 1..31
          BY <1>1, <5>0
        <5>2. j < k - (15 + n)
          BY <4>1
        <5> HIDE DEF i
        <5> QED
          BY <1>6, <5>1, <5>2
      <4> QED
        BY <3>2, <4>1, <4>2, <4>3
    <3> HIDE DEF i
    <3> QED
      BY <3>1, <3>2, <3>3
  <2>3. CASE k - 15 \in 1..n /\ Printed[k] = MaxBW(ifacebw[k - 15].iface, Number(ifacebw[k - 15].limit))
    BY <1>1, <1>9, <1>10, <2>3
  <2> QED
    BY <1>6, <1>7, <2>1, <2>2, <2>3
<1>11. ASSUME NEW s \in Numeric \cup Textual PROVE \E k \in DOMAIN Printed : Printed[k].key = s
  <2>1. CASE \E i \in 1..15 : PrintedBefore[i] = s
    <3>1. PICK i \in 1..15 : PrintedBefore[i] = s
      BY <2>1
    <3>2. Printed[i] = PrintedLine(s)
      BY <1>2, <1>5, <3>1
    <3>3. i \in DOMAIN Printed
      BY <1>1, <1>6
    <3> QED
      BY <1>8, <3>2, <3>3
  <2>2. CASE \E i \in 1..31 : PrintedAfter[i] = s
    <3>1. PICK i \in 1..31 : PrintedAfter[i] = s
      BY <2>2
    <3>2. Printed[15 + n + i] = PrintedLine(s)
      BY <1>2, <1>5, <3>1
    <3>3. 15 + n + i \in DOMAIN Printed
      BY <1>1, <1>6
    <3> QED
      BY <1>8, <3>2, <3>3
  <2> QED
    BY <2>1, <2>2, AllPrinted
<1>12. ASSUME NEW k \in DOMAIN Printed, Printed[k].key = "MaxBW"
       PROVE \E i \in DOMAIN ifacebw : /\ Printed[k].iface = ifacebw[i].iface
                                       /\ Printed[k].value = Number(ifacebw[i].limit)
  <2>1. CASE k \in 1..15 /\ Printed[k] = PrintedLine(PrintedBefore[k])
    BY <1>8, <1>12, <2>1, PrintedNames
  <2>2. CASE k - (15 + n) \in 1..31 /\ Printed[k] = PrintedLine(PrintedAfter[k - (15 + n)])
    BY <1>8, <1>12, <2>2, PrintedNames
  <2>3. CASE k - 15 \in 1..n /\ Printed[k] = MaxBW(ifacebw[k - 15].iface, Number(ifacebw[k - 15].limit))
    BY <1>1, <1>9, <2>3
  <2> QED
    BY <1>6, <1>7, <2>1, <2>2, <2>3
<1>13. ASSUME NEW i \in DOMAIN ifacebw
       PROVE \E k \in DOMAIN Printed :
                /\ Printed[k].key = "MaxBW" /\ Printed[k].iface = ifacebw[i].iface
                /\ Printed[k].value = Number(ifacebw[i].limit)
  <2>1. 15 + i \in DOMAIN Printed /\ Printed[15 + i] = MaxBW(ifacebw[i].iface, Number(ifacebw[i].limit))
    <3>1. i \in 1..n /\ 15 + i \in 1..(46 + n)
      BY <1>1
    <3> QED
      BY <1>2, <1>5, <1>6, <3>1
  <2> QED
    BY <1>9, <2>1
<1> HIDE DEF PrintedValue
<1> QED
  BY <1>5, <1>10, <1>11, <1>12, <1>13, Zenon DEF PrintedFile

-----------------------------------------------------------------------------
\* The settings that validatecfg looks at are not negative and fit a short.
LEMMA ValidSmall ==
    ASSUME NEW c \in [Numeric -> Int], NEW t, ValidSettings(c, t)
    PROVE \A s \in DOMAIN Bounds \cup DOMAIN Intervals : c[s] \in Small
<1>1. \A s \in DOMAIN Bounds : /\ Bounds[s].lo \in Nat /\ Bounds[s].hi \in Nat
                                /\ Bounds[s].hi <= 32767
  BY DEF Bounds
<1>2. ASSUME NEW s \in DOMAIN Bounds PROVE c[s] \in Small
  <2>1. c[s] \in Bounds[s].lo..Bounds[s].hi
    BY DEF ValidSettings
  <2>2. Bounds[s].lo \in Nat /\ Bounds[s].hi \in Nat /\ Bounds[s].hi <= 32767
    BY <1>1
  <2> DEFINE lo == Bounds[s].lo  hi == Bounds[s].hi  x == c[s]
  <2>3. lo \in Nat /\ hi \in Nat /\ hi <= 32767 /\ x \in lo..hi
    BY <2>1, <2>2
  <2> HIDE DEF lo, hi, x
  <2>4. x \in Small
    BY <2>3 DEF Small
  <2> QED
    BY <2>4 DEF x
<1>3. /\ c["PollInterval"] \in 2..60
      /\ c["UpdateInterval"] \in c["PollInterval"]..300
      /\ c["SaveInterval"] \in 1..60
      /\ c["OfflineSaveInterval"] \in c["SaveInterval"]..60
  BY Zenon DEF ValidSettings
<1>4. ASSUME NEW s \in DOMAIN Intervals PROVE c[s] \in Small
  <2>1. s \in {"PollInterval", "UpdateInterval", "SaveInterval", "OfflineSaveInterval"}
    BY DEF Intervals
  <2> DEFINE poll == c["PollInterval"]  update == c["UpdateInterval"]
             save == c["SaveInterval"]  offline == c["OfflineSaveInterval"]
  <2>2. /\ poll \in 2..60 /\ update \in poll..300
        /\ save \in 1..60 /\ offline \in save..60
    BY <1>3, Zenon
  <2> HIDE DEF poll, update, save, offline
  <2>3. /\ poll \in Small /\ update \in Small
        /\ save \in Small /\ offline \in Small
    BY <2>2 DEF Small
  <2> QED
    BY <2>1, <2>3 DEF poll, update, save, offline
<1> QED
  BY <1>2, <1>4

\* validatecfg leaves valid settings as they are.
LEMMA ValidKept ==
    ASSUME NEW c \in [Numeric -> Int], NEW t \in [Textual -> Values], ValidSettings(c, t)
    PROVE validatecfg(c) = c /\ validatetext(t) = t
<1>1. Ranged(c) = c
  BY DEF Ranged, ValidSettings
<1>2. /\ c["PollInterval"] \in 2..60
      /\ c["UpdateInterval"] \in c["PollInterval"]..300
      /\ c["SaveInterval"] * 60 >= c["UpdateInterval"] /\ c["SaveInterval"] <= 60
      /\ c["OfflineSaveInterval"] \in c["SaveInterval"]..60
  BY DEF ValidSettings
<1>3. validatecfg(c) =
        [c EXCEPT !["PollInterval"] = c["PollInterval"], !["UpdateInterval"] = c["UpdateInterval"],
                  !["SaveInterval"] = c["SaveInterval"],
                  !["OfflineSaveInterval"] = c["OfflineSaveInterval"]]
  BY <1>1, <1>2 DEF validatecfg
<1>4. validatecfg(c) = c
  BY <1>3, Names
<1>5. validatetext(t) = t
  BY DEF validatetext, ValidSettings
<1> QED
  BY <1>4, <1>5

LEMMA RunsValid == ASSUME Typed, phase = "running" PROVE ValidSettings(cfg, text)
BY DEF Typed, ValidConfig, InBounds, IntervalsOrdered, ValidSettings

\* What is validated can still be printed.
LEMMA ValidPrintable ==
    ASSUME NEW c, NEW t, NEW list, Printable(c, t, list)
    PROVE Printable(validatecfg(c), validatetext(t), list)
<1>1. c \in [Numeric -> Int] /\ t \in [Textual -> Values]
  <2>1. c \in [Numeric -> Shorts] /\ t \in [Textual -> Values]
    BY Zenon DEF Printable
  <2> QED
    BY <2>1 DEF Shorts
<1> DEFINE v == validatecfg(c)  w == validatetext(t)
<1>2. v \in [Numeric -> Int] /\ w \in [Textual -> Values] /\ ValidSettings(v, w)
  BY <1>1, ValidatedRight, PathsValid DEF ValidSettings
<1>3. \A s \in DOMAIN Bounds \cup DOMAIN Intervals : v[s] \in Small
  <2> HIDE DEF v, w
  <2> QED
    BY <1>2, ValidSmall
<1>4. \A s \in DOMAIN Unvalidated : v[s] = c[s]
  <2>1. \A s \in DOMAIN Unvalidated : s \in Numeric /\ s \notin DOMAIN Bounds /\ s \notin DOMAIN Intervals
    BY DEF Unvalidated, Bounds, Intervals, Numeric
  <2>2. \A s \in DOMAIN Unvalidated : /\ s # "PollInterval" /\ s # "UpdateInterval"
                                      /\ s # "SaveInterval" /\ s # "OfflineSaveInterval"
    BY DEF Unvalidated
  <2>3. \A s \in DOMAIN Unvalidated : Ranged(c)[s] = c[s]
    BY <2>1 DEF Ranged
  <2>4. Ranged(c) \in [Numeric -> Int]
    BY <1>1, RangedRight
  <2> QED
    BY <2>1, <2>2, <2>3, <2>4 DEF validatecfg
<1>5. v \in [Numeric -> Shorts]
  <2>1. \A s \in Numeric : c[s] \in Shorts
    BY DEF Printable
  <2> HIDE DEF v, w
  <2>2. \A s \in Numeric : v[s] \in Shorts
    <3> SUFFICES ASSUME NEW s \in Numeric PROVE v[s] \in Shorts
      OBVIOUS
    <3>1. CASE s \in DOMAIN Bounds \cup DOMAIN Intervals
      BY <1>3, <3>1 DEF Shorts, Small
    <3>2. CASE s \in DOMAIN Unvalidated
      BY <1>4, <2>1, <3>2
    <3> QED
      BY <3>1, <3>2 DEF Numeric
  <2> QED
    BY <1>2, <2>2
<1>6. \A s \in Textual : w[s].kind # "nothing"
  BY PathsType DEF validatetext, Printable
<1> HIDE DEF v, w
<1>7. Printable(v, w, list)
  BY <1>2, <1>5, <1>6 DEF Printable
<1> QED
  BY <1>7 DEF v, w

-----------------------------------------------------------------------------
\* The file that was printed gives every setting once more, but for those that
\* are negative.
LEMMA SettingsAgain ==
    ASSUME Typed, SettingsCount, NEW c, NEW t, NEW list, Printable(c, t, list),
           PrintedFile(opened, c, t, list)
    PROVE /\ \A s \in Numeric : c[s] >= 0 => cfg[s] = c[s]
          /\ text = t
<1>1. \A s \in Numeric : s \notin Textual /\ s # "MaxBW"
  BY ShorterNames
<1>2. /\ opened \in Seq(Lines) /\ DOMAIN opened \subseteq Nat
      /\ \A s \in Numeric \cup Textual : \E k \in DOMAIN opened : opened[k].key = s
  BY DEF PrintedFile
<1>3. \A s : LinesFor(s) \in SUBSET Nat
  BY <1>2 DEF LinesFor
<1>4. \A s : LinesFor(s) # {} => FirstFor(s) \in LinesFor(s) /\ \A j \in LinesFor(s) : FirstFor(s) <= j
  <2> SUFFICES ASSUME NEW s, LinesFor(s) # {}
               PROVE FirstFor(s) \in LinesFor(s) /\ \A j \in LinesFor(s) : FirstFor(s) <= j
    OBVIOUS
  <2>1. \E i : IsLeast(i, LinesFor(s))
    BY <1>3, LeastLine
  <2> QED
    BY <2>1 DEF FirstFor, IsLeast
<1>5. ASSUME NEW s \in Numeric, c[s] >= 0 PROVE cfg[s] = c[s]
  <2>1. c[s] \in Shorts
    BY DEF Printable
  <2>2. \A k \in DOMAIN opened : opened[k].key = s => opened[k].value = Number(c[s])
    BY <1>1, <1>5 DEF PrintedFile, PrintedValue
  <2>3. PICK k \in DOMAIN opened : opened[k].key = s
    BY <1>2
  <2>4. k \in LinesFor(s)
    BY <2>2, <2>3 DEF LinesFor, Usable, Number
  <2>5. opened[FirstFor(s)].value.n = c[s]
    BY <1>4, <2>2, <2>4 DEF LinesFor, Number
  <2>6. Short(c[s]) = c[s]
    <3>1. c[s] + 32768 \in Nat /\ c[s] + 32768 < 65536
      BY <2>1 DEF Shorts
    <3>2. \A m \in Nat : m < 65536 => m % 65536 = m
      OBVIOUS
    <3> QED
      BY <2>1, <3>1, <3>2 DEF Short, Shorts
  <2> QED
    BY <2>4, <2>5, <2>6 DEF SettingsCount
<1>6. ASSUME NEW s \in Textual
      PROVE /\ \A k \in DOMAIN opened : opened[k].key = s => k \in LinesFor(s) /\ opened[k].value = t[s]
            /\ LinesFor(s) # {}
  <2>1. s # "MaxBW" /\ s \notin Numeric
    BY ShorterNames
  <2>2. \A k \in DOMAIN opened : opened[k].key = s => opened[k].value = t[s]
    BY <2>1 DEF PrintedFile, PrintedValue
  <2>3. t[s].kind # "nothing"
    BY DEF Printable
  <2>4. \A k \in DOMAIN opened : opened[k].key = s => k \in LinesFor(s)
    BY <2>1, <2>2, <2>3 DEF LinesFor, Usable, ValueFor
  <2> QED
    BY <1>2, <2>2, <2>4
<1>7. \A k \in DOMAIN opened : opened[k].key \in DOMAIN Shorter =>
         \E j \in DOMAIN opened : j < k /\ opened[j].key = Shorter[opened[k].key]
  BY ShorterNames DEF PrintedFile
<1>8. ASSUME NEW s \in Textual PROVE ~Confused(s)
  <2>1. ASSUME s \in DOMAIN Shorter
        PROVE \E i \in ReadableAs(Shorter[s]) : ~(FirstFor(s) <= i)
    <3>1. FirstFor(s) \in DOMAIN opened /\ opened[FirstFor(s)].key = s
      BY <1>4, <1>6 DEF LinesFor
    <3>2. PICK j \in DOMAIN opened : j < FirstFor(s) /\ opened[j].key = Shorter[s]
      BY <1>7, <2>1, <3>1
    <3>3. Shorter[s] \in Textual
      BY <2>1, ShorterNames
    <3>4. Shorter[s] \in Matches(opened[j]) /\ Usable(opened[j], Shorter[s])
      BY <1>6, <3>2, <3>3, MatchesAre DEF LinesFor
    <3> QED
      BY <1>2, <3>1, <3>2, <3>4 DEF ReadableAs
  <2>2. ASSUME NEW i \in ReadableAs(s), opened[i].key # s
        PROVE ~ \A j \in LinesFor(s) : i < j
    <3>1. i \in DOMAIN opened /\ opened[i].key \in DOMAIN Shorter /\ Shorter[opened[i].key] = s
      BY <2>2, MatchesAre DEF ReadableAs
    <3>2. PICK j \in DOMAIN opened : j < i /\ opened[j].key = s
      BY <1>7, <3>1
    <3>3. j \in LinesFor(s)
      BY <1>6, <3>2
    <3> QED
      BY <1>2, <3>1, <3>2, <3>3
  <2> QED
    BY <2>1, <2>2 DEF Confused
<1>9. ASSUME NEW s \in Textual PROVE text[s] = t[s]
  <2>1. text[s] = opened[FirstFor(s)].value
    BY <1>6, <1>8 DEF SettingsCount
  <2>2. FirstFor(s) \in DOMAIN opened /\ opened[FirstFor(s)].key = s
    BY <1>4, <1>6 DEF LinesFor
  <2> QED
    BY <1>6, <2>1, <2>2
<1>10. text = t
  <2>1. text \in [Textual -> Values] /\ t \in [Textual -> Values]
    BY DEF Typed, Printable
  <2> QED
    BY <1>9, <2>1
<1> QED
  BY <1>5, <1>10

\* So do its limits, if no two have the same name in whatever case.
LEMMA LimitsAgain ==
    ASSUME Typed, pos > Len(opened), ListTaken, NamesDiffer,
           NEW c, NEW t, NEW list, Printable(c, t, list), PrintedFile(opened, c, t, list),
           cfg["MaxBandwidth"] = c["MaxBandwidth"], NEW i \in Ifaces
    PROVE Limits[i] = ibwget(list, i, c["MaxBandwidth"])
<1> DEFINE own == LimitLines(i)
           named == {j \in DOMAIN list : SameName(list[j].iface, i)}
           last == CHOOSE k \in own : \A l \in own : l <= k
           first == CHOOSE j \in named : \A l \in named : j <= l
           limit == IF own = {} THEN cfg["MaxBandwidth"] ELSE opened[last].value.n
           printed == IF named = {} THEN c["MaxBandwidth"] ELSE list[first].limit
<1>1. opened \in Seq(Lines)
  BY DEF PrintedFile
<1>2. Limits[i] = IF limit > 0 THEN limit ELSE -1
  BY <1>1, LimitsRight, Zenon
<1>3. ibwget(list, i, c["MaxBandwidth"]) = IF printed > 0 THEN printed ELSE -1
  BY Zenon DEF ibwget
<1>4. list \in Seq(Limited) /\ DOMAIN list \subseteq Nat
  BY DEF Printable
<1>5. \A j \in DOMAIN list : list[j].iface \in Ifaces \ {NoName} /\ list[j].limit \in 0..MaxLimit
  <2>1. \A j \in DOMAIN list : list[j] \in Limited
    BY <1>4
  <2> QED
    BY <2>1 DEF Limited
<1>6. ASSUME NEW k \in DOMAIN opened, IsLimit(opened[k])
      PROVE \E j \in DOMAIN list : /\ opened[k].iface = list[j].iface
                                   /\ opened[k].value.n = list[j].limit
  <2>1. opened[k].key = "MaxBW"
    BY <1>6, Zenon DEF IsLimit
  <2>2. PICK j \in DOMAIN list : /\ opened[k].iface = list[j].iface
                                 /\ opened[k].value = Number(list[j].limit)
    BY <2>1, Zenon DEF PrintedFile
  <2> QED
    BY <2>2 DEF Number
<1>7. ASSUME NEW j \in DOMAIN list
      PROVE \E k \in DOMAIN opened : /\ IsLimit(opened[k]) /\ opened[k].iface = list[j].iface
                                     /\ opened[k].value.n = list[j].limit
  <2>1. PICK k \in DOMAIN opened : /\ opened[k].key = "MaxBW" /\ opened[k].iface = list[j].iface
                                   /\ opened[k].value = Number(list[j].limit)
    BY DEF PrintedFile
  <2>2. opened[k].value.kind = "number" /\ opened[k].value.n = list[j].limit
    BY <2>1 DEF Number
  <2>3. IsLimit(opened[k])
    BY <1>5, <2>1, <2>2 DEF IsLimit
  <2> QED
    BY <2>1, <2>2, <2>3
<1>8. \A j \in named : \E k \in own : opened[k].iface = list[j].iface /\ opened[k].value.n = list[j].limit
  BY <1>7 DEF LimitLines
<1>9. \A k \in own : \E j \in named : opened[k].iface = list[j].iface /\ opened[k].value.n = list[j].limit
  BY <1>6 DEF LimitLines
<1>10. \A k \in own : \E j \in DOMAIN ifacebw : ifacebw[j].iface = opened[k].iface
  <2> SUFFICES ASSUME NEW k \in own
               PROVE \E j \in DOMAIN ifacebw : ifacebw[j].iface = opened[k].iface
    OBVIOUS
  <2>1. k \in DOMAIN opened /\ IsLimit(opened[k])
    BY DEF LimitLines
  <2>2. opened[k].iface \in Ifaces
    BY <1>1, <2>1, LimitTyped
  <2>3. k \in Before(ExactLines(opened[k].iface))
    BY <1>1, <2>1 DEF Before, ExactLines, Typed
  <2> QED
    BY <2>2, <2>3 DEF ListTaken
<1>11. \A k, l \in own : opened[k].iface = opened[l].iface
  <2> SUFFICES ASSUME NEW k \in own, NEW l \in own PROVE opened[k].iface = opened[l].iface
    OBVIOUS
  <2>1. PICK j \in DOMAIN ifacebw : ifacebw[j].iface = opened[k].iface
    BY <1>10
  <2>2. PICK m \in DOMAIN ifacebw : ifacebw[m].iface = opened[l].iface
    BY <1>10
  <2>3. SameName(opened[k].iface, i) /\ SameName(opened[l].iface, i)
    BY DEF LimitLines
  <2>4. ifacebw[j].iface \in Ifaces /\ ifacebw[m].iface \in Ifaces
    BY ListTyped
  <2>5. SameName(ifacebw[j].iface, ifacebw[m].iface)
    BY <2>1, <2>2, <2>3, <2>4, ConfigAssumption
  <2>6. j = m
    BY <2>5 DEF NamesDiffer
  <2> QED
    BY <2>1, <2>2, <2>6
<1>12. \A j, l \in named : j = l
  <2> SUFFICES ASSUME NEW j \in named, NEW l \in named PROVE j = l
    OBVIOUS
  <2>1. list[j].iface = list[l].iface
    BY <1>8, <1>11
  <2> QED
    BY <2>1 DEF Printable
<1>13. own = {} <=> named = {}
  BY <1>8, <1>9
<1>14. ASSUME own # {} PROVE opened[last].value.n = list[first].limit
  <2>1. last \in own
    <3>1. own \in SUBSET (1..Len(opened)) /\ Len(opened) \in Nat
      BY <1>1 DEF LimitLines
    <3> HIDE DEF own
    <3>2. \E k : IsLast(k, own)
      BY <1>14, <3>1, LastLine
    <3> QED
      BY <3>2 DEF IsLast
  <2> HIDE DEF own, last
  <2>2. PICK j \in named : opened[last].value.n = list[j].limit
    BY <1>9, <2>1
  <2>3. first = j
    <3>1. \A l \in named : j <= l
      BY <1>4, <1>12
    <3>2. first \in named
      BY <3>1
    <3> HIDE DEF first
    <3> QED
      BY <1>12, <3>2
  <2> QED
    BY <2>2, <2>3
<1>15. limit = printed
  <2> HIDE DEF own, named, last, first
  <2> QED
    BY <1>13, <1>14
<1> HIDE DEF limit, printed
<1> QED
  BY <1>2, <1>3, <1>15

-----------------------------------------------------------------------------
LEMMA DefaultsPrintable == Printable(DefaultCfg, DefaultText, <<>>)
<1>1. \A s \in DOMAIN Bounds : Bounds[s].def \in Shorts
  BY DEF Bounds, Shorts
<1>2. \A s \in DOMAIN Intervals : Intervals[s] \in Shorts
  BY DEF Intervals, Shorts
<1>3. \A s \in DOMAIN Unvalidated : Unvalidated[s] \in Shorts
  BY DEF Unvalidated, Shorts
<1>4. DefaultCfg \in [Numeric -> Shorts]
  BY <1>1, <1>2, <1>3 DEF DefaultCfg, Numeric
<1>5. \A s \in DOMAIN Texts : Texts[s].kind = "word"
  BY DEF Texts, Word
<1>6. \A s \in Textual : DefaultText[s].kind # "nothing"
  BY <1>5, PathsType DEF DefaultText, Textual
<1>7. <<>> \in Seq(Limited) /\ DOMAIN <<>> = {}
  OBVIOUS
<1>8. DefaultText \in [Textual -> Values]
  BY DefaultsValid
<1> HIDE DEF DefaultCfg, DefaultText
<1> QED
  BY <1>4, <1>6, <1>7, <1>8 DEF Printable

\* A line changes nothing that cannot be printed.
LEMMA LinePrintable ==
    ASSUME Typed, Printable(cfg, text, ifacebw), ParseLine
    PROVE Printable(cfg, text, ifacebw)'
<1> DEFINE line == opened[pos]
<1>1. /\ phase = "lines" /\ pos <= Len(opened) /\ ifacebw' = ifacebw
      /\ cfg' = [s \in Numeric |-> IF s \in SettingOf(line) THEN Short(line.value.n) ELSE cfg[s]]
      /\ text' = [s \in Textual |-> IF s \in SettingOf(line) THEN ValueFor(line, s) ELSE text[s]]
  BY Zenon DEF ParseLine
<1>2. line \in Lines
  BY <1>1 DEF Typed
<1>3. Short(line.value.n) \in Shorts
  <2>1. line.value.n \in Int
    BY <1>2 DEF Lines, Values
  <2>2. (line.value.n + 32768) % 65536 \in Nat /\ (line.value.n + 32768) % 65536 < 65536
    BY <2>1
  <2> QED
    BY <2>2 DEF Short, Shorts
<1>4. \A s \in Textual : s \in SettingOf(line) => ValueFor(line, s).kind # "nothing"
  <2>1. \A s \in SettingOf(line) : Usable(line, s)
    BY DEF SettingOf
  <2> QED
    BY <2>1, ShorterNames DEF Usable
<1>5. \A s : ValueFor(line, s) \in Values
  BY <1>2, LineTyped
<1>6. /\ cfg \in [Numeric -> Shorts] /\ text \in [Textual -> Values]
      /\ \A s \in Textual : text[s].kind # "nothing"
  BY Zenon DEF Printable
<1> HIDE DEF line
<1>7. cfg' \in [Numeric -> Shorts]
  BY <1>1, <1>3, <1>6
<1>8. text' \in [Textual -> Values] /\ \A s \in Textual : text'[s].kind # "nothing"
  BY <1>1, <1>4, <1>5, <1>6
<1> QED
  BY <1>1, <1>7, <1>8, Zenon DEF Printable

LEMMA LimitPrintable ==
    ASSUME Typed, LineInv, Printable(cfg, text, ifacebw), ReadLimit
    PROVE Printable(cfg, text, ifacebw)'
<1> DEFINE line == opened[pos]
<1>1. /\ phase = "limits" /\ pos <= Len(opened) /\ cfg' = cfg /\ text' = text
      /\ ifacebw' = IF IsLimit(line) THEN ibwadd(ifacebw, line.iface, line.value.n) ELSE ifacebw
  BY Zenon DEF ReadLimit
<1>2. line \in Lines
  BY <1>1 DEF Typed
<1>3. ifacebw \in Seq(Limited)
  BY Zenon DEF Printable
<1>4. ifacebw' \in Seq(Limited)
  <2>1. CASE IsLimit(line)
    <3>1. line.iface # NoName /\ line.value.n \in 0..MaxLimit
      BY <2>1, Zenon DEF IsLimit
    <3>2. line.iface \in Ifaces
      BY <1>2, <2>1, LimitTyped
    <3> HIDE DEF line
    <3>3. line.iface \in Ifaces \ {NoName}
      BY <3>1, <3>2
    <3> QED
      BY <1>1, <1>3, <2>1, <3>1, <3>3, AddIn, Zenon DEF Limited
  <2>2. CASE ~IsLimit(line)
    BY <1>1, <1>3, <2>2
  <2> QED
    BY <2>1, <2>2
<1>5. ListTaken'
  BY <1>1, ReadLimitTaken DEF LineInv
<1>6. \A i, j \in DOMAIN ifacebw' : ifacebw'[i].iface = ifacebw'[j].iface => i = j
  BY <1>5, Zenon DEF ListTaken
<1> QED
  BY <1>1, <1>4, <1>6, Zenon DEF Printable

\* A step that changes neither the printed file nor what is loaded.
LEMMA DumpKept ==
    ASSUME NEW list, DumpedOk(list), UNCHANGED <<files, given, dumped>>,
           phase' \in {"lines", "limits"} => opened' = files[Places[1]]
    PROVE DumpedOk(list)'
<1>1. Places' = Places
  BY DEF Places
<1> QED
  BY <1>1, Zenon DEF DumpedOk

LEMMA InitRound == Init => RoundInv
<1> SUFFICES ASSUME Init PROVE RoundInv
  OBVIOUS
<1>1. /\ phase = "start" /\ dumped = NotDumped
      /\ cfg = DefaultCfg /\ text = DefaultText /\ ifacebw = <<>>
  BY DEF Init
<1>2. Printable(cfg, text, ifacebw)
  BY <1>1, DefaultsPrintable, Zenon
<1>3. RoundTrip
  BY <1>1 DEF RoundTrip
<1> QED
  BY <1>1, <1>2, <1>3 DEF RoundInv

LEMMA LoadRound == ASSUME Typed, RoundInv, Load PROVE RoundInv'
<1>1. /\ cfg' = DefaultCfg /\ text' = DefaultText /\ ifacebw' = <<>>
      /\ UNCHANGED <<files, given, dumped>> /\ phase \in {"start", "running"}
      /\ phase' \in {"lines", "running", "exited"}
  BY DEF Load
<1>2. Printable(cfg, text, ifacebw)'
  BY <1>1, DefaultsPrintable, Zenon
<1>3. CASE dumped = NotDumped
  BY <1>1, <1>2, <1>3 DEF RoundInv, RoundTrip
<1>4. CASE dumped # NotDumped
  <2>1. PICK list : DumpedOk(list)
    BY <1>4 DEF RoundInv
  <2> DEFINE there == {i \in DOMAIN Places : files[Places[i]] # Absent}
             first == CHOOSE i \in there : \A j \in there : i <= j
  <2>2. files[Places[1]] # Absent
    <3>1. \A k \in DOMAIN files[Places[1]] : files[Places[1]][k].key # "absent"
      <4>1. "absent" \notin Numeric \cup Textual
        BY DEF Numeric, Textual, Bounds, Intervals, Unvalidated, Paths, Texts
      <4>2. \A k \in DOMAIN files[Places[1]] :
              files[Places[1]][k].key # "MaxBW" => files[Places[1]][k].key \in Numeric \cup Textual
        BY <2>1, Zenon DEF DumpedOk, PrintedFile
      <4>3. "absent" # "MaxBW"
        OBVIOUS
      <4> QED BY <4>1, <4>2, <4>3
    <3>2. 1 \in DOMAIN Absent /\ Absent[1].key = "absent"
      BY DEF Absent
    <3> QED
      BY <3>1, <3>2
  <2>3. 1 \in there /\ \A i \in there : i \in {1, 2}
    BY <2>2 DEF Places
  <2>4. phase' = "lines" /\ opened' = files[Places[first]]
    BY <2>3, Zenon DEF Load
  <2>5. first = 1
    <3>1. first \in there /\ \A j \in there : first <= j
      BY <2>3
    <3> HIDE DEF first
    <3> QED
      BY <2>3, <3>1
  <2>6. DumpedOk(list)'
    BY <1>1, <2>1, <2>4, <2>5, DumpKept
  <2>7. RoundTrip'
    BY <2>4 DEF RoundTrip
  <2> QED
    BY <1>2, <2>4, <2>6, <2>7 DEF RoundInv
<1> QED
  BY <1>3, <1>4

\* The steps of loadcfg before it validates.
LEMMA LoadingRound ==
    ASSUME RoundInv, Printable(cfg, text, ifacebw)',
           UNCHANGED <<files, given, opened, dumped>>,
           phase \in {"lines", "limits"}, phase' \in {"lines", "limits"}
    PROVE RoundInv'
<1>1. \A list : DumpedOk(list) => DumpedOk(list)'
  <2> SUFFICES ASSUME NEW list, DumpedOk(list) PROVE DumpedOk(list)'
    OBVIOUS
  <2>1. opened' = files[Places[1]]
    BY DEF DumpedOk
  <2> QED
    BY <2>1, DumpKept
<1>2. RoundTrip'
  BY DEF RoundTrip
<1> QED
  BY <1>1, <1>2 DEF RoundInv

LEMMA ValidateRound == ASSUME Typed, LineInv, RoundInv, Validate PROVE RoundInv'
<1>1. /\ phase = "limits" /\ phase' = "running" /\ pos > Len(opened)
      /\ cfg' = validatecfg(cfg) /\ text' = validatetext(text)
      /\ UNCHANGED <<files, given, opened, pos, ifacebw, dumped>>
  BY DEF Validate
<1>2. Printable(cfg, text, ifacebw)'
  <2>1. Printable(validatecfg(cfg), validatetext(text), ifacebw)
    BY ValidPrintable DEF RoundInv
  <2> QED
    BY <1>1, <2>1, Zenon
<1>3. CASE dumped = NotDumped
  BY <1>1, <1>2, <1>3 DEF RoundInv, RoundTrip
<1>4. CASE dumped # NotDumped
  <2>1. PICK list : DumpedOk(list)
    BY <1>4 DEF RoundInv
  <2> DEFINE c == dumped.cfg  t == dumped.text
  <2>2. /\ Printable(c, t, list) /\ ValidSettings(c, t)
        /\ dumped.limit = [i \in Ifaces |-> ibwget(list, i, c["MaxBandwidth"])]
        /\ PrintedFile(opened, c, t, list)
    BY <1>1, <2>1 DEF DumpedOk
  <2>3. SettingsCount /\ ListTaken
    BY <1>1 DEF LineInv
  <2> HIDE DEF c, t
  <2>4. /\ \A s \in Numeric : c[s] >= 0 => cfg[s] = c[s]
        /\ text = t
    BY <2>2, <2>3, SettingsAgain
  <2>5. c \in [Numeric -> Int] /\ cfg \in [Numeric -> Int] /\ text \in [Textual -> Values]
    <3>1. c \in [Numeric -> Shorts]
      BY <2>2, Zenon DEF Printable
    <3> QED
      BY <3>1 DEF Shorts, Typed
  <2>6. \A s \in DOMAIN Bounds \cup DOMAIN Intervals : cfg[s] = c[s]
    <3>1. \A s \in DOMAIN Bounds \cup DOMAIN Intervals : c[s] \in Small
      BY <2>2, <2>5, ValidSmall
    <3> QED
      BY <2>4, <3>1 DEF Small, Numeric
  <2>7. ValidSettings(cfg, text)
    <3>1. /\ "PollInterval" \in DOMAIN Intervals /\ "UpdateInterval" \in DOMAIN Intervals
          /\ "SaveInterval" \in DOMAIN Intervals /\ "OfflineSaveInterval" \in DOMAIN Intervals
      BY DEF Intervals
    <3>2. /\ cfg["PollInterval"] = c["PollInterval"] /\ cfg["UpdateInterval"] = c["UpdateInterval"]
          /\ cfg["SaveInterval"] = c["SaveInterval"]
          /\ cfg["OfflineSaveInterval"] = c["OfflineSaveInterval"]
          /\ \A s \in DOMAIN Bounds : cfg[s] = c[s]
      BY <2>6, <3>1
    <3> QED
      BY <2>2, <2>4, <3>2, Zenon DEF ValidSettings
  <2>8. cfg' = cfg /\ text' = text
    BY <1>1, <2>5, <2>7, ValidKept
  <2>9. NamesDiffer' => Limits' = dumped.limit
    <3> SUFFICES ASSUME NamesDiffer' PROVE Limits' = dumped.limit
      OBVIOUS
    <3>1. NamesDiffer
      BY <1>1 DEF NamesDiffer
    <3>2. "MaxBandwidth" \in DOMAIN Bounds
      BY DEF Bounds
    <3>3. cfg["MaxBandwidth"] = c["MaxBandwidth"]
      BY <2>6, <3>2
    <3>4. \A i \in Ifaces : Limits[i] = ibwget(list, i, c["MaxBandwidth"])
      BY <1>1, <2>2, <2>3, <3>1, <3>3, LimitsAgain
    <3>5. Limits' = Limits
      BY <1>1, <2>8 DEF Limits
    <3>6. Limits = [i \in Ifaces |-> Limits[i]]
      BY DEF Limits
    <3> QED
      BY <2>2, <3>4, <3>5, <3>6
  <2>10. RoundTrip'
    BY <1>1, <2>4, <2>8, <2>9 DEF RoundTrip, c, t
  <2>11. DumpedOk(list)'
    BY <1>1, <2>1, DumpKept
  <2> QED
    BY <1>1, <1>2, <2>10, <2>11 DEF RoundInv
<1> QED
  BY <1>3, <1>4

LEMMA EditRound == ASSUME RoundInv, Edit PROVE RoundInv'
<1>1. /\ phase' = phase /\ phase = "running" /\ dumped' = NotDumped
      /\ UNCHANGED <<cfg, text, ifacebw>>
  BY DEF Edit
<1>2. Printable(cfg, text, ifacebw)'
  BY <1>1, Zenon DEF RoundInv
<1>3. RoundTrip'
  BY <1>1 DEF RoundTrip
<1> QED
  BY <1>1, <1>2, <1>3 DEF RoundInv

LEMMA DumpRound == ASSUME Typed, RoundInv, Dump PROVE RoundInv'
<1>1. /\ phase = "running" /\ files' = [files EXCEPT ![Places[1]] = Printed]
      /\ dumped' = [cfg |-> cfg, text |-> text, limit |-> Limits]
      /\ UNCHANGED <<given, phase, opened, pos, cfg, text, ifacebw>>
  BY DEF Dump
<1>2. Printable(cfg, text, ifacebw) /\ ValidSettings(cfg, text)
  BY <1>1, RunsValid DEF RoundInv
<1>3. Places[1] \in DOMAIN files /\ Places' = Places
  BY <1>1, ContentsAssumption DEF Places, Typed
<1>4. files'[Places[1]] = Printed
  BY <1>1, <1>3
<1>5. PrintedFile(Printed, cfg, text, ifacebw)
  BY PrintedIs
<1>6. dumped'.cfg = cfg /\ dumped'.text = text /\ dumped'.limit = Limits
  BY <1>1
<1>7. Limits = [i \in Ifaces |-> ibwget(ifacebw, i, cfg["MaxBandwidth"])]
  BY DEF Limits
<1>8. phase' = "running"
  BY <1>1
<1>9. DumpedOk(ifacebw)'
  <2>1. Printable(dumped'.cfg, dumped'.text, ifacebw') /\ ValidSettings(dumped'.cfg, dumped'.text)
    BY <1>1, <1>2, <1>6
  <2>2. PrintedFile(files'[Places'[1]], dumped'.cfg, dumped'.text, ifacebw')
    BY <1>1, <1>3, <1>4, <1>5, <1>6
  <2>3. dumped'.limit = [i \in Ifaces |-> ibwget(ifacebw', i, dumped'.cfg["MaxBandwidth"])]
    BY <1>1, <1>6, <1>7
  <2> QED
    BY <1>8, <2>1, <2>2, <2>3 DEF DumpedOk
<1>10. RoundTrip'
  <2>1. Limits' = Limits
    BY <1>1 DEF Limits
  <2> QED
    BY <1>1, <1>6, <2>1 DEF RoundTrip
<1>11. Printable(cfg, text, ifacebw)'
  BY <1>1, <1>2
<1> QED
  BY <1>8, <1>9, <1>10, <1>11 DEF RoundInv

LEMMA NextRound == Typed /\ LineInv /\ RoundInv /\ [Next]_vars => RoundInv'
<1>1. ASSUME RoundInv, UNCHANGED vars PROVE RoundInv'
  <2>1. UNCHANGED <<given, phase, files, opened, cfg, text, ifacebw, dumped>>
    BY <1>1 DEF vars
  <2>2. Places' = Places /\ Limits' = Limits /\ NamesDiffer' = NamesDiffer
    BY <2>1 DEF Places, Limits, NamesDiffer
  <2>3. RoundTrip'
    BY <1>1, <2>1, <2>2, Zenon DEF RoundInv, RoundTrip
  <2>4. \A list : DumpedOk(list) => DumpedOk(list)'
    BY <2>1, <2>2, Zenon DEF DumpedOk
  <2> QED
    BY <1>1, <2>1, <2>3, <2>4, Zenon DEF RoundInv
<1>2. ASSUME Typed, RoundInv, ParseLine PROVE RoundInv'
  <2>1. Printable(cfg, text, ifacebw)'
    BY <1>2, LinePrintable DEF RoundInv
  <2> QED
    BY <1>2, <2>1, LoadingRound DEF ParseLine
<1>3. ASSUME RoundInv, EndOfLines PROVE RoundInv'
  <2>1. Printable(cfg, text, ifacebw)'
    BY <1>3, Zenon DEF RoundInv, EndOfLines
  <2> QED
    BY <1>3, <2>1, LoadingRound DEF EndOfLines
<1>4. ASSUME Typed, LineInv, RoundInv, ReadLimit PROVE RoundInv'
  <2>1. Printable(cfg, text, ifacebw)'
    BY <1>4, LimitPrintable DEF RoundInv
  <2> QED
    BY <1>4, <2>1, LoadingRound DEF ReadLimit
<1> QED
  BY <1>1, <1>2, <1>3, <1>4, LoadRound, ValidateRound, EditRound, DumpRound DEF Next

\* What --showconfig prints, loaded again, is the same configuration
\* (printcfgfile against loadcfg, validatecfg and the list of limits).
THEOREM RoundTripAlways == Spec => []RoundTrip
<1>1. Init => Typed /\ LineInv /\ RoundInv
  BY InitTyped, InitLines, InitRound
<1>2. (Typed /\ LineInv /\ RoundInv) /\ [Next]_vars => (Typed /\ LineInv /\ RoundInv)'
  BY NextTyped, NextLines, NextRound
<1>3. RoundInv => RoundTrip
  BY DEF RoundInv
<1> QED
  BY <1>1, <1>2, <1>3, PTL DEF Spec

=============================================================================
