------------------------------ MODULE MCVnstat -------------------------------
(* Calls of one option each and of those that meet in one call, on none,   *)
(* one or two databases; the report and the monitor on an empty directory. *)
EXTENDS Vnstat

MCNumerals == [a \in {"0", "1", "2", "9"} |->
                 CASE a = "0" -> 0 [] a = "1" -> 1 [] a = "2" -> 2 [] a = "9" -> 9]
MCNamed == [f \in {"eth0", "ppp0", "eth0+ppp0", "2"} |->
              IF f = "eth0+ppp0" THEN <<"eth0", "ppp0">> ELSE <<f>>]
MCDevices == <<"sda", "sda1">>
MCWhole == {"sda"}

OldRecord == [NewRecord EXCEPT !.curr = "old", !.top = TRUE, !.updated = "past"]
Records == {[OldRecord EXCEPT !.updated = u] : u \in {"past", "ahead", "far"}}
    \cup {[OldRecord EXCEPT !.active = FALSE]}
Dirs == {[f \in DOMAIN MCNamed |-> IF f \in DOMAIN d THEN d[f] ELSE NoFile] :
           d \in UNION {[S -> Records] : S \in SUBSET {"eth0", "ppp0"}}}
Some == {d \in Dirs : \A f \in DOMAIN d : d[f].here => d[f].active /\ d[f].updated = "past"}
Empty == [f \in DOMAIN MCNamed |-> NoFile]

Changes == {"--reset", "--sync", "--delete", "--cleartop", "--rebuildtotal", "--enable", "--disable", "-u"}
Interfaces == {<<>>, <<"-i", "ppp0">>, <<"-i", "eth0+ppp0">>}

\* A change, alone or forced, with a query, or before another.
Commands ==
    {i \o c \o f : i \in Interfaces, f \in {<<>>, <<"--force">>},
                   c \in {<<x>> : x \in Changes} \cup {<<x, "-q">> : x \in Changes}}
    \cup {<<"--force", x, "-u">> : x \in Changes}
    \cup {<<"--force", "-i", "eth0", x, "--cleartop">> : x \in Changes}
    \cup {i \o q : i \in Interfaces, q \in {<<>>, <<"-s">>, <<"--savemerged">>, <<"--xml", "-q">>}}

\* What is measured, with a look at the databases or without.
Measures ==
    {<<"-u", "-tr">>, <<"-l">>, <<"-tr", "-i", "ppp0">>, <<"-i", "eth0+ppp0", "-l", "1">>,
     <<"-l", "-q">>, <<"-i", "ppp0", "--force", "-u", "-tr", "1">>,
     <<"-i", "eth0+ppp0", "-l", "--force", "--cleartop", "-q">>}

Arguments1 ==
    {<<"-i">>, <<"--nick">>, <<"--nick", "a", "-u", "-i", "eth0">>, <<"--dbdir", "d", "--locale", "C">>,
     <<"--config">>, <<"--config", "c", "-da">>, <<"--style", "9">>, <<"--style", "2", "-mm">>,
     <<"--style">>, <<"-ru", "-v">>, <<"-ru", "9">>, <<"-ru", "0", "-t">>, <<"-ru">>, <<"--dumpdb">>,
     <<"-w", "-h", "--oneline">>, <<"-zk", "bogus">>, <<"-u", "bogus">>, <<"-l", "9">>, <<"-l", "x">>,
     <<"-tr", "1">>, <<"-tr", "2">>, <<"-l", "-i", "eth0">>, <<"-l", "0">>}

Reports ==
    {<<"-d">>, <<"-d", "1">>, <<"-d", "1", "2">>, <<"-i", "sda1", "--style", "1", "-d">>,
     <<"--style", "1", "-d", "2", "x">>, <<"--style", "0", "-ru", "1", "-d">>,
     <<"--style", "1", "-ru", "0", "-d">>, <<"-ru", "1", "-d", "ALL">>}

MCCalls ==
    {[argv |-> a, db |-> d] : a \in Commands, d \in Dirs}
    \cup {[argv |-> a, db |-> d] : a \in Measures, d \in Some}
    \cup {[argv |-> a, db |-> Empty] : a \in Arguments1 \cup Reports}
=============================================================================
